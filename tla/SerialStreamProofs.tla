------------------------- MODULE SerialStreamProofs -------------------------
(***************************************************************************)
(* Proofs about the serial streams: that they implement OrderedFeed, and   *)
(* that what a reconnect, a failed resync, a new subscription or a crash   *)
(* can lose is bounded, for every batch size, every set of events and      *)
(* repos and every number of faults and restarts.                          *)
(***************************************************************************)
EXTENDS SerialStream, TLAPS, WellFoundedInduction

(* Top is the largest element of a bounded set of naturals, 0 for none. *)
LEMMA TopIs ==
  ASSUME NEW N \in Nat, NEW T, T \subseteq 0..N
  PROVE  /\ Top(T) \in 0..N /\ \A y \in T : y <= Top(T)
         /\ Top(T) = 0 \/ Top(T) \in T
  <1>1. CASE T = {} BY <1>1 DEF Top
  <1>2. CASE T # {}
    <2> DEFINE D == {N - x : x \in T}
    <2>1. D \subseteq Nat /\ D # {}
      <3>1. \A x \in T : N - x \in Nat OBVIOUS
      <3>2. PICK x \in T : TRUE BY <1>2
      <3>3. N - x \in D BY <3>2
      <3>4. QED BY <3>1, <3>3
    <2>2. \E d \in D : \A e \in D : ~(<<e, d>> \in OpToRel(<, Nat))
      <3> HIDE DEF D
      <3>1. QED BY <2>1, NatLessThanWellFounded, WFMin
    <2>3. PICK x \in T : \A e \in D : ~(<<e, N - x>> \in OpToRel(<, Nat))
      BY <2>2
    <2>4. \A y \in T : ~(N - y < N - x)
      <3> SUFFICES ASSUME NEW y \in T, N - y < N - x PROVE FALSE
        OBVIOUS
      <3>1. N - y \in D /\ N - y \in Nat /\ N - x \in Nat OBVIOUS
      <3>2. <<N - y, N - x>> \in OpToRel(<, Nat) BY <3>1 DEF OpToRel
      <3>3. QED BY <2>3, <3>1, <3>2
    <2>5. \A y \in T : y <= x BY <2>4
    <2>6. Top(T) \in T /\ \A y \in T : y <= Top(T) BY <1>2, <2>5 DEF Top
    <2>7. QED BY <2>6
  <1>3. QED BY <1>1, <1>2

LEMMA ConstantTypes ==
  /\ MaxSeq \in Nat /\ BatchSize \in Nat \ {0}
  /\ \A s \in Seqs : s \in Nat /\ s \in 1..MaxSeq /\ s # 0
  /\ \A s \in Wanted : s \in Seqs /\ s \in Nat /\ s # 0 /\ RepoOf[s] \in Repos
  BY SerialAssumption DEF Seqs

(* The records the actions write. *)
LEMMA Literals ==
  /\ Offline \in [on : BOOLEAN, at : 0..MaxSeq] /\ ~Offline.on
  /\ NoError \in [on : BOOLEAN, of : SUBSET Seqs] /\ ~NoError.on /\ NoError.of = {}
  /\ \A S \in SUBSET Seqs : /\ Error(S) \in [on : BOOLEAN, of : SUBSET Seqs]
                             /\ Error(S).on /\ Error(S).of = S
  /\ Idle \in [on : BOOLEAN, buf : SUBSET Wanted] /\ ~Idle.on /\ Idle.buf = {}
  BY ConstantTypes DEF Offline, NoError, Error, Idle

(* What a sequence of items holds. *)
LEMMA ItemsAre ==
  ASSUME NEW b \in Seq(Item)
  PROVE  /\ Items(b) \subseteq Item
         /\ \A x \in Items(b) : /\ x.seq \in Wanted \cup {0} /\ x.content \subseteq Wanted
                                /\ x.seq # 0 => x.content = {x.seq}
         /\ Items(<<>>) = {} /\ Carried(<<>>) = {}
         /\ \A s : s \in Carried(b) <=> \E x \in Items(b) : s \in x.content
  BY DEF Items, Item, Carried

LEMMA ItemsAppend ==
  ASSUME NEW b \in Seq(Item), NEW y \in Item
  PROVE  /\ Append(b, y) \in Seq(Item) /\ Len(Append(b, y)) = Len(b) + 1 /\ Len(b) \in Nat
         /\ Items(Append(b, y)) = Items(b) \cup {y}
  <1>1. /\ Append(b, y) \in Seq(Item) /\ Len(Append(b, y)) = Len(b) + 1 /\ Len(b) \in Nat
        /\ \A i \in 1..Len(b) : Append(b, y)[i] = b[i]
        /\ Append(b, y)[Len(b) + 1] = y
    OBVIOUS
  <1>2. ASSUME NEW x \in Items(Append(b, y)) PROVE x \in Items(b) \cup {y}
    <2>1. PICK i \in 1..Len(Append(b, y)) : x = Append(b, y)[i] BY <1>2 DEF Items
    <2>2. i \in 1..Len(b) \/ i = Len(b) + 1 BY <1>1, <2>1
    <2>3. QED BY <1>1, <2>1, <2>2 DEF Items
  <1>3. ASSUME NEW x \in Items(b) \cup {y} PROVE x \in Items(Append(b, y))
    <2>1. \A i \in 1..Len(b) : i \in 1..Len(Append(b, y)) BY <1>1
    <2>2. Len(b) + 1 \in 1..Len(Append(b, y)) BY <1>1
    <2>3. QED BY <1>1, <2>1, <2>2 DEF Items
  <1>4. QED BY <1>1, <1>2, <1>3

(* The items a frame and a resync make. *)
LEMMA MadeItems ==
  /\ \A s \in Wanted : EventItem(s) \in Item /\ EventItem(s).seq = s /\ EventItem(s).content = {s}
  /\ \A S \in SUBSET Wanted :
       ResyncItem(S) \in Item /\ ResyncItem(S).seq = 0 /\ ResyncItem(S).content = S
  BY DEF EventItem, ResyncItem, Item

(* The cursor moves to the newest of itself, the dropped frames and the     *)
(* batch.                                                                  *)
LEMMA CursorAfterIs ==
  ASSUME cursor \in 0..MaxSeq, NEW b \in Seq(Item), NEW mark \in 0..MaxSeq
  PROVE  /\ CursorAfter(b, mark) \in 0..MaxSeq
         /\ cursor <= CursorAfter(b, mark)
         /\ \A x \in Items(b) : x.seq <= CursorAfter(b, mark)
         /\ \/ CursorAfter(b, mark) = cursor \/ CursorAfter(b, mark) = mark
            \/ \E x \in Items(b) : CursorAfter(b, mark) = x.seq
  <1>0. MaxSeq \in Nat BY ConstantTypes
  <1> DEFINE B == {x.seq : x \in Items(b)}
             t == Top(B)
             T == {cursor, mark, t}
  <1>1. B \subseteq 0..MaxSeq
    <2>1. \A x \in Items(b) : x.seq \in Wanted \cup {0} BY ItemsAre
    <2>2. \A s \in Wanted \cup {0} : s \in 0..MaxSeq BY <1>0, ConstantTypes
    <2>3. QED BY <2>1, <2>2
  <1>2. /\ t \in 0..MaxSeq /\ \A y \in B : y <= t /\ y \in 0..MaxSeq
        /\ t = 0 \/ t \in B
    <2> HIDE DEF B
    <2>1. QED BY <1>0, <1>1, TopIs
  <1>3. T \subseteq 0..MaxSeq BY <1>2
  <1>4. Top(T) \in 0..MaxSeq /\ (\A y \in T : y <= Top(T)) /\ (Top(T) = 0 \/ Top(T) \in T)
    <2> HIDE DEF T
    <2>1. QED BY <1>0, <1>3, TopIs
  <1>5. CursorAfter(b, mark) = Top(T) BY DEF CursorAfter
  <1>6. cursor <= Top(T) /\ t <= Top(T) BY <1>4
  <1>7. \A x \in Items(b) : x.seq <= Top(T)
    <2>1. \A x \in Items(b) : x.seq \in B OBVIOUS
    <2> HIDE DEF T, t, B
    <2>2. QED BY <1>0, <1>2, <1>4, <1>6, <2>1
  <1>8. Top(T) = cursor \/ Top(T) = mark \/ \E x \in Items(b) : Top(T) = x.seq
    <2>1. CASE Top(T) = 0
      <3> HIDE DEF T
      <3>1. QED BY <1>0, <1>6, <2>1
    <2>2. CASE Top(T) # 0 /\ Top(T) = t
      <3>1. t \in B BY <1>2, <2>2
      <3>2. QED BY <2>2, <3>1
    <2>3. QED BY <1>4, <2>1, <2>2
  <1>9. QED BY <1>4, <1>5, <1>6, <1>7, <1>8

-----------------------------------------------------------------------------
(* Of batch b and the frames dropped: all of it lies between the cursor and *)
(* at, and what it leaves out on the way was given up.                     *)
Fits(b, at) ==
  /\ at \in 0..MaxSeq /\ cursor <= at /\ dropped <= at
  /\ \A x \in Items(b) : x.seq # 0 => cursor < x.seq /\ x.seq <= at
  /\ \A s \in Wanted : cursor < s /\ s <= at => s \in Excused \/ \E x \in Items(b) : x.seq = s

(* What every operation on the batch does: hand over in order, and keep the *)
(* rest between the new cursor and at.                                     *)
Hands ==
  \/ cursor' = cursor /\ got' = got
  \/ /\ cursor < cursor'
     /\ \E b \in SUBSET {s \in Wanted : cursor < s /\ s <= cursor'} :
          /\ {s \in Wanted : cursor < s /\ s <= cursor'} \subseteq b \cup Excused
          /\ got' = got \cup b

Advances(at) ==
  /\ cursor' \in 0..MaxSeq /\ cursor <= cursor' /\ cursor' <= at
  /\ batch' \in Seq(Item) /\ Len(batch') < BatchSize
  /\ dropped' \in 0..MaxSeq /\ dropped' <= at
  /\ \A x \in Items(batch') : x.seq # 0 => cursor' < x.seq /\ x.seq <= at
  /\ \A s \in Wanted : cursor' < s /\ s <= at => s \in Excused \/ \E x \in Items(batch') : x.seq = s
  /\ got' \subseteq Wanted /\ healed' \subseteq Wanted
  /\ got \cup healed \cup Carried(batch) \subseteq got' \cup healed' \cup Carried(batch')
  /\ Hands

LEMMA YieldAdvances ==
  ASSUME SerialState, NEW b \in Seq(Item), NEW at, Fits(b, at), Yield(b),
         Carried(batch) \subseteq Carried(b)
  PROVE  /\ Advances(at) /\ batch' = <<>> /\ dropped' = 0
         /\ Carried(b) \subseteq got' \cup healed'
  <1> DEFINE E == {x.seq : x \in {y \in Items(b) : y.seq > 0}}
  <1>0. /\ MaxSeq \in Nat /\ BatchSize \in Nat \ {0}
        /\ \A s \in Wanted : s \in Nat /\ s # 0
        /\ cursor \in 0..MaxSeq /\ dropped \in 0..MaxSeq /\ got \subseteq Wanted /\ healed \subseteq Wanted
    BY ConstantTypes DEF SerialState
  <1>1. /\ \A x \in Items(b) : /\ x.seq \in Wanted \cup {0} /\ x.content \subseteq Wanted
                               /\ x.seq # 0 => x.content = {x.seq}
        /\ Items(<<>>) = {} /\ Carried(<<>>) = {}
        /\ \A s : s \in Carried(b) <=> \E x \in Items(b) : s \in x.content
    BY ItemsAre
  <1>2. /\ cursor' = CursorAfter(b, dropped) /\ batch' = <<>> /\ dropped' = 0
        /\ got' = got \cup E
        /\ healed' = healed \cup UNION {x.content : x \in {y \in Items(b) : y.seq = 0}}
    BY DEF Yield
  <1>3. /\ cursor' \in 0..MaxSeq /\ cursor <= cursor'
        /\ \A x \in Items(b) : x.seq <= cursor'
        /\ \/ cursor' = cursor \/ cursor' = dropped
           \/ \E x \in Items(b) : cursor' = x.seq
    BY <1>0, <1>2, CursorAfterIs
  <1>4. \A s : s \in E <=> s # 0 /\ \E x \in Items(b) : x.seq = s
    <2>1. \A x \in Items(b) : x.seq > 0 <=> x.seq # 0 BY <1>0, <1>1
    <2>2. QED BY <2>1
  <1>5. E \subseteq Wanted BY <1>1, <1>4
  <1> HIDE DEF E
  <1>6. cursor' <= at
    <2>1. CASE \E x \in Items(b) : cursor' = x.seq
      <3>1. PICK x \in Items(b) : cursor' = x.seq BY <2>1
      <3>2. CASE x.seq = 0 BY <1>0, <1>3, <3>1, <3>2 DEF Fits
      <3>3. CASE x.seq # 0 BY <3>1, <3>3 DEF Fits
      <3>4. QED BY <3>2, <3>3
    <2>2. QED BY <1>0, <1>3, <2>1 DEF Fits
  <1>7. \A s \in E : cursor < s /\ s <= cursor' BY <1>3, <1>4 DEF Fits
  <1>8. \A s \in Wanted : cursor < s /\ s <= at => s \in Excused \cup E
    BY <1>0, <1>4 DEF Fits
  <1>9. \A s \in Wanted : cursor' < s /\ s <= at => s \in Excused
    <2> SUFFICES ASSUME NEW s \in Wanted, cursor' < s, s <= at PROVE s \in Excused
      OBVIOUS
    <2>1. cursor < s /\ ~(s <= cursor') BY <1>0, <1>3
    <2>2. QED BY <1>7, <1>8, <2>1
  <1>10. Hands
    <2>1. CASE cursor' = cursor
      <3>1. E = {} BY <1>0, <1>5, <1>7, <2>1
      <3>2. QED BY <1>2, <2>1, <3>1 DEF Hands
    <2>2. CASE cursor < cursor'
      <3>1. E \in SUBSET {s \in Wanted : cursor < s /\ s <= cursor'} BY <1>5, <1>7
      <3>2. {s \in Wanted : cursor < s /\ s <= cursor'} \subseteq E \cup Excused
        <4> SUFFICES ASSUME NEW s \in Wanted, cursor < s, s <= cursor' PROVE s \in E \cup Excused
          OBVIOUS
        <4>1. s <= at BY <1>0, <1>3, <1>6 DEF Fits
        <4>2. QED BY <1>8, <4>1
      <3>3. QED BY <1>2, <2>2, <3>1, <3>2 DEF Hands
    <2>3. QED BY <1>0, <1>3, <2>1, <2>2
  <1>11. Carried(b) \subseteq got' \cup healed'
    <2> SUFFICES ASSUME NEW s, NEW x \in Items(b), s \in x.content PROVE s \in got' \cup healed'
      BY <1>1
    <2>1. CASE x.seq = 0 BY <1>2, <2>1
    <2>2. CASE x.seq # 0
      <3>1. s = x.seq BY <1>1, <2>2
      <3>2. s \in E BY <1>4, <2>2, <3>1
      <3>3. QED BY <1>2, <3>2
    <2>3. QED BY <2>1, <2>2
  <1>12. got' \subseteq Wanted /\ healed' \subseteq Wanted BY <1>0, <1>1, <1>2, <1>5
  <1>13. got \cup healed \cup Carried(batch) \subseteq got' \cup healed' \cup Carried(batch')
    BY <1>2, <1>11
  <1>14. /\ batch' \in Seq(Item) /\ Len(batch') < BatchSize
         /\ dropped' \in 0..MaxSeq /\ dropped' <= at
         /\ \A x \in Items(batch') : x.seq # 0 => cursor' < x.seq /\ x.seq <= at
    BY <1>0, <1>1, <1>2 DEF Fits
  <1>15. QED BY <1>2, <1>3, <1>6, <1>9, <1>10, <1>11, <1>12, <1>13, <1>14 DEF Advances

LEMMA HoldAdvances ==
  ASSUME SerialState, NEW at, Fits(batch, at), Hold
  PROVE  Advances(at) /\ batch' = batch /\ dropped' = dropped
  <1>1. cursor \in 0..MaxSeq /\ MaxSeq \in Nat BY ConstantTypes DEF SerialState
  <1>2. QED BY <1>1 DEF SerialState, Fits, Hold, Advances, Hands

LEMMA PushAdvances ==
  ASSUME SerialState, NEW y \in Item, NEW at, Fits(Append(batch, y), at), Push(y)
  PROVE  /\ Advances(at)
         /\ y.content \subseteq got' \cup healed' \cup Carried(batch')
  <1> DEFINE b == Append(batch, y)
  <1>0. /\ batch \in Seq(Item) /\ BatchSize \in Nat \ {0} /\ MaxSeq \in Nat /\ cursor \in 0..MaxSeq
        /\ got \subseteq Wanted /\ healed \subseteq Wanted /\ dropped \in 0..MaxSeq
    BY ConstantTypes DEF SerialState
  <1>1. /\ b \in Seq(Item) /\ Len(b) = Len(batch) + 1 /\ Len(batch) \in Nat
        /\ Items(b) = Items(batch) \cup {y}
    BY <1>0, ItemsAppend
  <1>2. Fits(b, at) OBVIOUS
  <1>3. Push(y) => (Len(batch) + 1 >= BatchSize /\ Yield(b))
                   \/ (Len(batch) + 1 < BatchSize /\ batch' = b /\ UNCHANGED <<cursor, dropped, got, healed>>)
    BY <1>0, <1>1 DEF Push
  <1> HIDE DEF b
  <1>4. Carried(batch) \subseteq Carried(b) /\ y.content \subseteq Carried(b)
    BY <1>1 DEF Carried
  <1>5. CASE Yield(b) BY <1>1, <1>2, <1>4, <1>5, YieldAdvances
  <1>6. CASE Len(batch) + 1 < BatchSize /\ batch' = b /\ UNCHANGED <<cursor, dropped, got, healed>>
    BY <1>0, <1>1, <1>2, <1>4, <1>6 DEF Fits, Advances, Hands
  <1>7. QED BY <1>3, <1>5, <1>6

LEMMA FailAdvances ==
  ASSUME SerialState, NEW S, S \subseteq Seqs, NEW at, Fits(batch, at), perr.of = {}, ~perr.on, Fail(S)
  PROVE  /\ Advances(at)
         /\ reported \subseteq reported' /\ reported' \subseteq Seqs
         /\ perr' \in [on : BOOLEAN, of : SUBSET Seqs]
         /\ perr'.on => batch' = <<>> /\ dropped' = 0
         /\ ~perr'.on => perr'.of = {}
         /\ S \subseteq reported' \cup perr'.of
         /\ (cursor' = cursor /\ got' = got) \/ UNCHANGED reported
  <1>0. batch \in Seq(Item) /\ reported \subseteq Seqs /\ perr \in [on : BOOLEAN, of : SUBSET Seqs]
    BY DEF SerialState
  <1>1. CASE batch # <<>> /\ Yield(batch) /\ perr' = Error(S) /\ UNCHANGED reported
    <2>1. Advances(at) /\ batch' = <<>> /\ dropped' = 0 BY <1>0, <1>1, YieldAdvances
    <2>2. QED BY <1>0, <1>1, <2>1 DEF Error
  <1>2. CASE batch = <<>> /\ reported' = reported \cup S /\ UNCHANGED perr /\ Hold
    <2>1. Advances(at) /\ cursor' = cursor /\ got' = got BY <1>2, HoldAdvances DEF Hold
    <2>2. QED BY <1>0, <1>2, <2>1
  <1>3. QED BY <1>1, <1>2 DEF Fail

(* What the invariant says of the batch before a step. *)
LEMMA BatchFits ==
  ASSUME SerialState, AheadOfCursor, ~perr.on
  PROVE  Fits(batch, ReadTo) /\ perr.of = {}
  <1>1. ReadTo \in 0..MaxSeq BY DEF SerialState, ReadTo
  <1>2. QED BY <1>1 DEF AheadOfCursor, Fits

(* What was given to the consumer, or is about to be. *)
Held == got \cup healed \cup reported \cup Carried(batch) \cup perr.of

-----------------------------------------------------------------------------
(* A step of the abstract feed. *)
FeedStep == [Feed!FeedNext]_(Feed!feedVars)

LEMMA HandsIsFeedStep ==
  ASSUME SerialState, Hands, cursor' \in 0..MaxSeq, UNCHANGED <<origin, saved, reported, quiet>>
  PROVE  FeedStep
  <1>0. MaxSeq \in Nat /\ cursor' \in Nat BY ConstantTypes
  <1>1. CASE cursor' = cursor /\ got' = got
    BY <1>1 DEF FeedStep, Feed!feedVars, Excused
  <1>2. CASE ~(cursor' = cursor /\ got' = got)
    <2>1. /\ cursor < cursor'
          /\ \E b \in SUBSET {s \in Wanted : cursor < s /\ s <= cursor'} :
               /\ {s \in Wanted : cursor < s /\ s <= cursor'} \subseteq b \cup Excused
               /\ got' = got \cup b
      BY <1>2 DEF Hands
    <2>2. Excused' = Excused BY DEF Excused
    <2>3. \E later \in SUBSET {s \in Wanted : s > cursor'} : Excused' = Excused \cup later
      <3>1. {} \in SUBSET {s \in Wanted : s > cursor'} /\ Excused' = Excused \cup {} BY <2>2
      <3>2. QED BY <3>1
    <2>4. Feed!FeedDeliver BY <1>0, <2>1, <2>3 DEF Feed!FeedDeliver
    <2>5. QED BY <2>4 DEF FeedStep, Feed!FeedNext
  <1>3. QED BY <1>1, <1>2

LEMMA ExcuseIsFeedStep ==
  ASSUME UNCHANGED <<origin, cursor, saved, got>>, reported \subseteq reported', quiet \subseteq quiet',
         reported' \subseteq Seqs, quiet' \subseteq Seqs
  PROVE  FeedStep
  <1>1. Excused \subseteq Excused' /\ Excused' \subseteq Nat BY ConstantTypes DEF Excused
  <1>2. Feed!FeedExcuse BY <1>1 DEF Feed!FeedExcuse
  <1>3. QED BY <1>2 DEF FeedStep, Feed!FeedNext

(* After an operation on the batch that fitted up to `at': the stream may   *)
(* have read on over what is given up, or let go of the connection once the *)
(* batch is empty.                                                         *)
LEMMA AdvanceStaysAhead ==
  ASSUME SerialState, AheadOfCursor, NEW at \in 0..MaxSeq, Advances(at), saved' = saved,
         ReadTo' \in 0..MaxSeq, ReadTo' <= server'.head,
         Excused \subseteq Excused',
         \/ /\ at <= ReadTo'
            /\ \A s \in Wanted : at < s /\ s <= ReadTo' => s \in Excused' \cup perr'.of
         \/ ReadTo' = cursor' /\ batch' = <<>> /\ dropped' = 0,
         perr'.on => batch' = <<>> /\ dropped' = 0,
         ~perr'.on => perr'.of = {}
  PROVE  AheadOfCursor'
  <1>0. /\ MaxSeq \in Nat /\ \A s \in Wanted : s \in Nat
        /\ cursor \in 0..MaxSeq /\ saved \in 0..MaxSeq /\ cursor' \in 0..MaxSeq /\ dropped' \in 0..MaxSeq
    BY ConstantTypes DEF SerialState, Advances
  <1>1. saved' <= cursor' BY <1>0 DEF AheadOfCursor, Advances
  <1> DEFINE R == ReadTo'
  <1>2. CASE R = cursor' /\ batch' = <<>> /\ dropped' = 0
    <2>1. Items(batch') = {} BY <1>2 DEF Items
    <2>2. /\ cursor' <= R
          /\ \A s \in Wanted : ~(cursor' < s /\ s <= R)
      BY <1>0, <1>2
    <2>3. dropped' <= R BY <1>0, <1>2
    <2>4. QED BY <1>1, <2>1, <2>2, <2>3 DEF AheadOfCursor
  <1>3. CASE at <= R /\ \A s \in Wanted : at < s /\ s <= R => s \in Excused' \cup perr'.of
    <2>1. cursor' <= R /\ dropped' <= R BY <1>0, <1>3 DEF Advances
    <2>2. \A x \in Items(batch') : x.seq # 0 => cursor' < x.seq /\ x.seq <= R
      <3> SUFFICES ASSUME NEW x \in Items(batch'), x.seq # 0 PROVE cursor' < x.seq /\ x.seq <= R
        OBVIOUS
      <3>1. cursor' < x.seq /\ x.seq <= at BY DEF Advances
      <3>2. x.seq \in Nat BY <1>0, ItemsAre DEF Advances
      <3>3. QED BY <1>0, <1>3, <3>1, <3>2
    <2>3. \A s \in Wanted : cursor' < s /\ s <= R =>
            s \in Excused' \cup perr'.of \/ \E x \in Items(batch') : x.seq = s
      <3> SUFFICES ASSUME NEW s \in Wanted, cursor' < s, s <= R
                   PROVE  s \in Excused' \cup perr'.of \/ \E x \in Items(batch') : x.seq = s
        OBVIOUS
      <3>1. CASE s <= at BY <3>1 DEF Advances
      <3>2. CASE at < s BY <1>3, <3>2
      <3>3. QED BY <1>0, <3>1, <3>2
    <2>4. QED BY <1>1, <2>1, <2>2, <2>3 DEF AheadOfCursor
  <1>4. QED BY <1>2, <1>3

(* What the environment does to the stream. *)
LEMMA EnvironmentStep ==
  ASSUME SerialState, AheadOfCursor, Publish \/ Trim \/ Save \/ UNCHANGED vars
  PROVE  SerialState' /\ AheadOfCursor' /\ FeedStep
  <1>0. MaxSeq \in Nat BY ConstantTypes
  <1>1. CASE Publish \/ Trim
    <2>2. UNCHANGED <<persistent, origin, ws, cursor, batch, dropped, perr, chain, job, channel, listening,
                      saved, got, healed, reported, quiet>>
      BY <1>1 DEF Publish, Trim, confVars, batchVars, verifierVars, consumerVars
    <2>0. server \in [head : 0..MaxSeq, floor : 0..MaxSeq] /\ server.floor <= server.head
      BY DEF SerialState
    <2>1. /\ server' \in [head : 0..MaxSeq, floor : 0..MaxSeq] /\ server.head <= server'.head
          /\ server'.floor <= server'.head
          /\ ReadTo' = ReadTo /\ Excused' = Excused
      <3>1. ReadTo' = ReadTo /\ Excused' = Excused BY <2>2 DEF ReadTo, Excused
      <3>2. CASE Publish BY <1>0, <2>0, <3>1, <3>2 DEF Publish
      <3>3. CASE Trim BY <1>0, <2>0, <3>1, <3>3 DEF Trim
      <3>4. QED BY <1>1, <3>2, <3>3
    <2>3. SerialState' BY <2>1, <2>2 DEF SerialState
    <2>4. ReadTo \in 0..MaxSeq BY DEF SerialState, ReadTo
    <2>5. ReadTo' <= server'.head BY <1>0, <2>1, <2>4 DEF AheadOfCursor, SerialState
    <2>6. AheadOfCursor' BY <2>1, <2>2, <2>5 DEF AheadOfCursor
    <2>7. FeedStep BY <2>1, <2>2 DEF FeedStep, Feed!feedVars
    <2>8. QED BY <2>3, <2>6, <2>7
  <1>2. CASE Save
    <2>1. /\ UNCHANGED <<persistent, origin, server, ws, cursor, batch, dropped, perr, chain, job, channel,
                         listening, got, healed, reported, quiet>>
          /\ saved' = cursor
      BY <1>2 DEF Save, confVars, batchVars, verifierVars
    <2>2. ReadTo' = ReadTo /\ Excused' = Excused BY <2>1 DEF ReadTo, Excused
    <2>3. SerialState' BY <2>1 DEF SerialState
    <2>4. AheadOfCursor' BY <1>0, <2>1, <2>2 DEF AheadOfCursor, SerialState
    <2>5. Feed!FeedSave BY <2>1, <2>2 DEF Feed!FeedSave
    <2>6. QED BY <2>3, <2>4, <2>5 DEF FeedStep, Feed!FeedNext
  <1>3. CASE UNCHANGED vars
    <2>1. UNCHANGED <<persistent, origin, server, ws, cursor, batch, dropped, perr, chain, job, channel,
                      listening, saved, got, healed, reported, quiet>>
      BY <1>3 DEF vars, confVars, batchVars, verifierVars, consumerVars
    <2>2. ReadTo' = ReadTo /\ Excused' = Excused BY <2>1 DEF ReadTo, Excused
    <2>3. SerialState' BY <2>1 DEF SerialState
    <2>4. AheadOfCursor' BY <2>1, <2>2 DEF AheadOfCursor
    <2>5. QED BY <2>1, <2>2, <2>3, <2>4 DEF FeedStep, Feed!feedVars
  <1>4. QED BY <1>1, <1>2, <1>3

(* The end of a stream or of the process. *)
LEMMA RestartStep ==
  ASSUME SerialState, AheadOfCursor, Crash \/ Resubscribe
  PROVE  SerialState' /\ AheadOfCursor' /\ FeedStep
  <1>0. MaxSeq \in Nat /\ BatchSize \in Nat \ {0} BY ConstantTypes
  <1>1. /\ ws' = Offline /\ batch' = <<>> /\ dropped' = 0 /\ perr' = NoError
        /\ channel' = [events |-> <<>>, errors |-> <<>>] /\ listening' \in BOOLEAN
        /\ UNCHANGED <<persistent, origin, server, saved, got, healed, reported, quiet>>
        /\ cursor' = saved \/ cursor' = cursor
    BY DEF Crash, Resubscribe, confVars, consumerVars
  <1>2. /\ job' \in [Repos -> [on : BOOLEAN, buf : SUBSET Wanted]]
        /\ chain' \in [Repos -> 0..MaxSeq]
    <2>1. CASE Resubscribe BY <2>1 DEF Resubscribe, SerialState
    <2>2. CASE Crash
      <3>1. job' = [r \in Repos |-> Idle] /\ chain' \in {chain, [r \in Repos |-> 0]}
        BY <2>2 DEF Crash
      <3>2. QED BY <1>0, <3>1 DEF Idle, SerialState
    <2>3. QED BY <2>1, <2>2
  <1>3. cursor' \in 0..MaxSeq /\ saved' <= cursor' /\ cursor' <= server'.head
    BY <1>0, <1>1 DEF SerialState, AheadOfCursor, ReadTo
  <1>4. ReadTo' = cursor' BY <1>1 DEF ReadTo, Offline
  <1>5. ws' \in [on : BOOLEAN, at : 0..MaxSeq] /\ perr' \in [on : BOOLEAN, of : SUBSET Seqs]
        /\ ~perr'.on /\ perr'.of = {}
    BY <1>0, <1>1 DEF Offline, NoError
  <1>6. SerialState' BY <1>0, <1>1, <1>2, <1>3, <1>5 DEF SerialState
  <1>7. Items(batch') = {} BY <1>1 DEF Items
  <1>8. AheadOfCursor'
    <2>1. \A s \in Wanted : s \in Nat BY ConstantTypes
    <2>2. \A s \in Wanted : ~(cursor' < s /\ s <= cursor') BY <1>3, <2>1
    <2>3. cursor' <= cursor' /\ dropped' <= cursor' BY <1>1, <1>3
    <2>4. QED BY <1>1, <1>3, <1>4, <1>5, <1>7, <2>2, <2>3 DEF AheadOfCursor
  <1>9. FeedStep
    <2>1. Excused' = Excused BY <1>1 DEF Excused
    <2>2. CASE cursor' = cursor BY <1>1, <2>1, <2>2 DEF FeedStep, Feed!feedVars
    <2>3. CASE cursor' = saved
      <3>1. Feed!FeedRestart BY <1>1, <2>1, <2>3 DEF Feed!FeedRestart
      <3>2. QED BY <3>1 DEF FeedStep, Feed!FeedNext
    <2>4. QED BY <1>1, <2>2, <2>3
  <1>10. QED BY <1>6, <1>8, <1>9


(* Steps that yield the batch and leave what was reported alone. *)
LEMMA YieldStep ==
  ASSUME SerialState, AheadOfCursor, Timer \/ Closed \/ Broken
  PROVE  SerialState' /\ AheadOfCursor' /\ FeedStep /\ Held \subseteq Held' /\ ReadTo' <= ReadTo
  <1> DEFINE at == ReadTo
  <1>0. /\ ~perr.on /\ ws.on /\ Yield(batch)
        /\ UNCHANGED <<persistent, origin, server, chain, job, channel, listening, saved, reported, quiet>>
        /\ ws' \in {ws, Offline} /\ perr' \in {perr, Error({})}
    BY DEF Timer, Closed, Broken, confVars, verifierVars
  <1>1. Fits(batch, at) /\ perr.of = {} BY <1>0, BatchFits
  <1>2. Advances(at) /\ batch' = <<>> /\ dropped' = 0
    BY <1>0, <1>1, YieldAdvances DEF SerialState
  <1>3. at \in 0..MaxSeq /\ cursor' \in 0..MaxSeq /\ cursor' <= at /\ server.head \in 0..MaxSeq
    BY <1>1, <1>2 DEF Fits, Advances, SerialState
  <1>4. /\ ws' \in [on : BOOLEAN, at : 0..MaxSeq] /\ perr' \in [on : BOOLEAN, of : SUBSET Seqs]
        /\ perr'.of = {}
    <2>1. ws \in [on : BOOLEAN, at : 0..MaxSeq] /\ perr \in [on : BOOLEAN, of : SUBSET Seqs]
      BY DEF SerialState
    <2>2. CASE perr' = perr BY <1>0, <1>1, <2>1, <2>2, Literals
    <2>3. CASE perr' = Error({}) BY <1>0, <2>1, <2>3, Literals
    <2>4. QED BY <1>0, <2>2, <2>3
  <1>5. (ReadTo' = at /\ ws' = ws) \/ ReadTo' = cursor'
    BY <1>0 DEF ReadTo, Offline
  <1>6. /\ at <= at /\ at <= server'.head /\ cursor' <= server'.head /\ server'.head \in 0..MaxSeq
    BY <1>0, <1>3, ConstantTypes DEF AheadOfCursor
  <1>7. Excused' = Excused BY <1>0 DEF Excused
  <1>8. \A s \in Wanted : ~(at < s /\ s <= at) BY <1>3, ConstantTypes
  <1>9. AheadOfCursor'
    <2> HIDE DEF at
    <2>1. ReadTo' \in 0..MaxSeq /\ ReadTo' <= server'.head BY <1>3, <1>5, <1>6
    <2>2. \/ /\ at <= ReadTo'
             /\ \A s \in Wanted : at < s /\ s <= ReadTo' => s \in Excused' \cup perr'.of
          \/ ReadTo' = cursor' /\ batch' = <<>> /\ dropped' = 0
      BY <1>2, <1>5, <1>6, <1>8
    <2>3. QED BY <1>0, <1>2, <1>3, <1>4, <1>7, <2>1, <2>2, AdvanceStaysAhead
  <1>10. SerialState'
    BY <1>0, <1>2, <1>4 DEF SerialState, Advances
  <1>11. FeedStep
    BY <1>0, <1>2, HandsIsFeedStep DEF Advances
  <1>12. Held \subseteq Held' BY <1>0, <1>1, <1>2 DEF Advances, Held
  <1>13. ReadTo' <= ReadTo BY <1>3, <1>5, <1>6
  <1>14. QED BY <1>9, <1>10, <1>11, <1>12, <1>13

LEMMA YieldPendingStep ==
  ASSUME SerialState, AheadOfCursor, YieldPending
  PROVE  SerialState' /\ AheadOfCursor' /\ FeedStep /\ Held \subseteq Held'
  <1>1. /\ perr.on /\ reported' = reported \cup perr.of /\ perr' = NoError
        /\ UNCHANGED <<persistent, origin, server, ws, cursor, batch, dropped, chain, job, channel,
                       listening, saved, got, healed, quiet>>
    BY DEF YieldPending, Hold, confVars, verifierVars
  <1>2. /\ perr' \in [on : BOOLEAN, of : SUBSET Seqs] /\ ~perr'.on /\ perr'.of = {}
        /\ perr.of \subseteq Seqs
    BY <1>1 DEF NoError, SerialState
  <1>3. SerialState' BY <1>1, <1>2 DEF SerialState
  <1>4. ReadTo' = ReadTo /\ Excused' = Excused \cup perr.of BY <1>1 DEF ReadTo, Excused
  <1>5. AheadOfCursor' BY <1>1, <1>2, <1>4 DEF AheadOfCursor
  <1>6. FeedStep BY <1>1, <1>2, ExcuseIsFeedStep DEF SerialState
  <1>7. Held \subseteq Held' BY <1>1 DEF Held
  <1>8. QED BY <1>3, <1>5, <1>6, <1>7

(* The relay has nothing to send for what it no longer has: the client      *)
(* starts above it.                                                        *)
LEMMA ConnectStep ==
  ASSUME SerialState, AheadOfCursor, Connect
  PROVE  SerialState' /\ AheadOfCursor' /\ FeedStep /\ Held \cup {s \in Wanted : ReadTo < s /\ s <= ReadTo'} \subseteq Held'
  <1> DEFINE at == IF cursor > 0 THEN Top({cursor, server.floor}) ELSE server.head
  <1>0. /\ MaxSeq \in Nat /\ cursor \in 0..MaxSeq /\ server.floor \in 0..MaxSeq
        /\ server.head \in 0..MaxSeq
    BY ConstantTypes DEF SerialState
  <1>1. /\ ~perr.on /\ ~ws.on /\ ws' = [on |-> TRUE, at |-> at]
        /\ reported' = reported \cup {s \in Seqs : cursor < s /\ s <= at}
        /\ UNCHANGED <<persistent, origin, server, cursor, batch, dropped, perr, chain, job, channel,
                       listening, saved, got, healed, quiet>>
    BY DEF Connect, Hold, confVars, verifierVars
  <1>2. /\ Top({cursor, server.floor}) \in 0..MaxSeq /\ cursor <= Top({cursor, server.floor})
        /\ Top({cursor, server.floor}) \in {cursor, server.floor, 0}
    <2>1. {cursor, server.floor} \subseteq 0..MaxSeq BY <1>0
    <2>2. QED BY <1>0, <2>1, TopIs
  <1>3. at \in 0..MaxSeq /\ cursor <= at BY <1>0, <1>2
  <1>4. at <= server.head
    <2>1. cursor <= server.head BY <1>0, <1>1 DEF AheadOfCursor, ReadTo
    <2>2. server.floor <= server.head BY DEF SerialState
    <2>3. QED BY <1>0, <1>2, <2>1, <2>2
  <1> HIDE DEF at
  <1>5. ReadTo' = at /\ ReadTo = cursor BY <1>1 DEF ReadTo
  <1>6. ws' \in [on : BOOLEAN, at : 0..MaxSeq] /\ reported' \subseteq Seqs
    BY <1>1, <1>3 DEF SerialState
  <1>7. SerialState' BY <1>1, <1>6 DEF SerialState
  <1>8. Fits(batch, cursor) /\ Hold BY <1>1, <1>5, BatchFits DEF Hold
  <1>9. Advances(cursor) BY <1>8, HoldAdvances
  <1>10. Excused \subseteq Excused' BY <1>1 DEF Excused
  <1>11. \A s \in Wanted : cursor < s /\ s <= at => s \in Excused' \cup perr'.of
    BY <1>1, ConstantTypes DEF Excused
  <1>12. AheadOfCursor'
    <2>1. perr'.of = {} /\ ~perr'.on BY <1>1, BatchFits
    <2>2. QED BY <1>0, <1>1, <1>3, <1>4, <1>5, <1>9, <1>10, <1>11, <2>1, AdvanceStaysAhead
  <1>13. FeedStep BY <1>1, <1>6, ExcuseIsFeedStep DEF SerialState
  <1>14. Held \cup {s \in Wanted : ReadTo < s /\ s <= ReadTo'} \subseteq Held'
    BY <1>1, <1>5, ConstantTypes DEF Held
  <1>15. QED BY <1>7, <1>12, <1>13, <1>14


-----------------------------------------------------------------------------
(* The next frame is the one above what the stream has read. *)
LEMMA IncomingIs ==
  ASSUME SerialState, AheadOfCursor, NEW s \in Seqs, Incoming(s), Read(s)
  PROVE  /\ ~perr.on /\ perr.of = {} /\ s - 1 \in 0..MaxSeq /\ s \in 0..MaxSeq
         /\ ReadTo = s - 1 /\ ReadTo' = s
         /\ Fits(batch, s - 1) /\ cursor < s /\ s <= server.head
         /\ ws' \in [on : BOOLEAN, at : 0..MaxSeq]
         /\ \A t \in Wanted : t <= s <=> t <= s - 1 \/ t = s
         /\ \A t \in Wanted : s - 1 < t /\ t <= s => t = s
  <1>0. s \in Nat /\ s \in 1..MaxSeq /\ MaxSeq \in Nat BY ConstantTypes
  <1>1. ws \in [on : BOOLEAN, at : 0..MaxSeq] /\ cursor \in 0..MaxSeq BY DEF SerialState
  <1>2. ~perr.on /\ ws.on /\ s = ws.at + 1 /\ s <= server.head /\ ws' = [ws EXCEPT !.at = s]
    BY DEF Incoming, Read
  <1>3. s - 1 \in 0..MaxSeq /\ s \in 0..MaxSeq /\ ws.at = s - 1 BY <1>0, <1>1, <1>2
  <1>4. ws' \in [on : BOOLEAN, at : 0..MaxSeq] /\ ws'.on /\ ws'.at = s BY <1>1, <1>2, <1>3
  <1>5. ReadTo = s - 1 /\ ReadTo' = s BY <1>2, <1>3, <1>4 DEF ReadTo
  <1>6. Fits(batch, s - 1) /\ perr.of = {} BY <1>2, <1>5, BatchFits
  <1>7. cursor <= s - 1 BY <1>6 DEF Fits
  <1>8. \A t \in Wanted : t \in Nat BY ConstantTypes
  <1>9. QED BY <1>0, <1>1, <1>2, <1>3, <1>4, <1>5, <1>6, <1>7, <1>8

LEMMA SkipStep ==
  ASSUME SerialState, AheadOfCursor, NEW s \in Seqs, SkipFrame(s)
  PROVE  SerialState' /\ AheadOfCursor' /\ FeedStep /\ Held \subseteq Held'
  <1>1. /\ Incoming(s) /\ Read(s) /\ s \notin Wanted /\ Hold
        /\ UNCHANGED <<persistent, origin, server, cursor, batch, dropped, perr, chain, job, channel,
                       listening, saved, got, healed, reported, quiet>>
    BY DEF SkipFrame, Hold, confVars, verifierVars
  <1>2. /\ ~perr.on /\ perr.of = {} /\ s - 1 \in 0..MaxSeq /\ s \in 0..MaxSeq
        /\ ReadTo' = s /\ Fits(batch, s - 1) /\ s <= server.head
        /\ ws' \in [on : BOOLEAN, at : 0..MaxSeq]
        /\ \A t \in Wanted : s - 1 < t /\ t <= s => t = s
    BY <1>1, IncomingIs
  <1>3. SerialState' BY <1>1, <1>2 DEF SerialState
  <1>4. Advances(s - 1) BY <1>1, <1>2, HoldAdvances
  <1>5. Excused' = Excused /\ s - 1 <= s BY <1>1, <1>2 DEF Excused
  <1>6. \A t \in Wanted : ~(s - 1 < t /\ t <= s) BY <1>1, <1>2
  <1>7. AheadOfCursor' BY <1>1, <1>2, <1>4, <1>5, <1>6, AdvanceStaysAhead
  <1>8. FeedStep BY <1>1, <1>5 DEF FeedStep, Feed!feedVars
  <1>9. Held \subseteq Held' BY <1>1 DEF Held
  <1>10. QED BY <1>3, <1>7, <1>8, <1>9

(* A frame with an event: it joins the batch, above all that is in it. *)
LEMMA EventFits ==
  ASSUME SerialState, AheadOfCursor, NEW s \in Wanted, Incoming(s), Read(s)
  PROVE  EventItem(s) \in Item /\ Fits(Append(batch, EventItem(s)), s)
  <1>1. s \in Seqs /\ s \in Nat BY ConstantTypes
  <1>2. /\ s \in 0..MaxSeq /\ Fits(batch, s - 1) /\ cursor < s
        /\ \A t \in Wanted : t <= s <=> t <= s - 1 \/ t = s
    BY <1>1, IncomingIs
  <1>3. EventItem(s) \in Item /\ EventItem(s).seq = s BY MadeItems
  <1>4. Items(Append(batch, EventItem(s))) = Items(batch) \cup {EventItem(s)}
    BY <1>3, ItemsAppend DEF SerialState
  <1>5. \A x \in Items(batch) : x.seq \in Nat BY ItemsAre, ConstantTypes DEF SerialState
  <1>6. cursor \in 0..MaxSeq /\ dropped \in 0..MaxSeq /\ MaxSeq \in Nat BY ConstantTypes DEF SerialState
  <1>7. cursor <= s /\ dropped <= s BY <1>1, <1>2, <1>6 DEF Fits
  <1>8. \A x \in Items(Append(batch, EventItem(s))) : x.seq # 0 => cursor < x.seq /\ x.seq <= s
    BY <1>1, <1>2, <1>3, <1>4, <1>5 DEF Fits
  <1>9. \A t \in Wanted : cursor < t /\ t <= s =>
          t \in Excused \/ \E x \in Items(Append(batch, EventItem(s))) : x.seq = t
    BY <1>2, <1>3, <1>4 DEF Fits
  <1>10. QED BY <1>2, <1>3, <1>7, <1>8, <1>9 DEF Fits

LEMMA EventStep ==
  ASSUME SerialState, AheadOfCursor, NEW s \in Seqs, PlainFrame(s) \/ VerifiedFrame(s)
  PROVE  SerialState' /\ AheadOfCursor' /\ FeedStep /\ Held \cup {s} \subseteq Held'
  <1>1. /\ Incoming(s) /\ Read(s) /\ s \in Wanted /\ Push(EventItem(s))
        /\ UNCHANGED <<persistent, origin, server, perr, job, channel, listening, saved, reported, quiet>>
        /\ chain' = chain \/ chain' = [chain EXCEPT ![RepoOf[s]] = s]
    BY DEF PlainFrame, VerifiedFrame, confVars, verifierVars
  <1>2. /\ ~perr.on /\ perr.of = {} /\ s \in 0..MaxSeq
        /\ ReadTo' = s /\ s <= server.head
        /\ ws' \in [on : BOOLEAN, at : 0..MaxSeq]
    BY <1>1, IncomingIs
  <1>3. Advances(s) /\ {s} \subseteq got' \cup healed' \cup Carried(batch')
    BY <1>1, EventFits, MadeItems, PushAdvances
  <1>4. chain' \in [Repos -> 0..MaxSeq] BY <1>1, <1>2 DEF SerialState
  <1>5. SerialState' BY <1>1, <1>2, <1>3, <1>4 DEF SerialState, Advances
  <1>6. Excused' = Excused /\ s <= s /\ \A t \in Wanted : ~(s < t /\ t <= s)
    BY <1>1, <1>2, ConstantTypes DEF Excused
  <1>7. AheadOfCursor' BY <1>1, <1>2, <1>3, <1>6, AdvanceStaysAhead
  <1>8. FeedStep BY <1>1, <1>3, HandsIsFeedStep DEF Advances
  <1>9. Held \cup {s} \subseteq Held' BY <1>1, <1>3 DEF Advances, Held
  <1>10. QED BY <1>5, <1>7, <1>8, <1>9

LEMMA RejectStep ==
  ASSUME SerialState, AheadOfCursor, NEW s \in Seqs, BadFrame(s) \/ RefusedFrame(s)
  PROVE  SerialState' /\ AheadOfCursor' /\ FeedStep /\ Held \cup {s} \subseteq Held'
  <1>1. /\ Incoming(s) /\ Read(s) /\ Fail({s})
        /\ UNCHANGED <<persistent, origin, server, chain, job, channel, listening, saved, quiet>>
    BY DEF BadFrame, RefusedFrame, confVars, verifierVars
  <1>2. /\ ~perr.on /\ perr.of = {} /\ s - 1 \in 0..MaxSeq /\ s \in 0..MaxSeq
        /\ ReadTo' = s /\ Fits(batch, s - 1) /\ s <= server.head
        /\ ws' \in [on : BOOLEAN, at : 0..MaxSeq]
        /\ \A t \in Wanted : s - 1 < t /\ t <= s => t = s
    BY <1>1, IncomingIs
  <1>3. /\ Advances(s - 1)
        /\ reported \subseteq reported' /\ reported' \subseteq Seqs
        /\ perr' \in [on : BOOLEAN, of : SUBSET Seqs]
        /\ perr'.on => batch' = <<>> /\ dropped' = 0
        /\ ~perr'.on => perr'.of = {}
        /\ {s} \subseteq reported' \cup perr'.of
        /\ (cursor' = cursor /\ got' = got) \/ UNCHANGED reported
    BY <1>1, <1>2, FailAdvances
  <1>4. SerialState' BY <1>1, <1>2, <1>3 DEF SerialState, Advances
  <1>5. Excused \subseteq Excused' /\ s - 1 <= s
    <2>1. Excused \subseteq Excused' BY <1>1, <1>3 DEF Excused
    <2>2. s - 1 <= s BY ConstantTypes
    <2>3. QED BY <2>1, <2>2
  <1>6. \A t \in Wanted : s - 1 < t /\ t <= s => t \in Excused' \cup perr'.of
    BY <1>2, <1>3 DEF Excused
  <1>7. AheadOfCursor' BY <1>1, <1>2, <1>3, <1>5, <1>6, AdvanceStaysAhead
  <1>8. FeedStep
    <2>1. CASE cursor' = cursor /\ got' = got
      BY <1>1, <1>3, <2>1, ExcuseIsFeedStep DEF SerialState
    <2>2. CASE UNCHANGED reported
      BY <1>1, <1>3, <2>2, HandsIsFeedStep DEF Advances
    <2>3. QED BY <1>3, <2>1, <2>2
  <1>9. Held \cup {s} \subseteq Held' BY <1>2, <1>3 DEF Advances, Held
  <1>10. QED BY <1>4, <1>7, <1>8, <1>9

LEMMA DropStep ==
  ASSUME SerialState, AheadOfCursor, NEW s \in Seqs, ReplayedFrame(s) \/ QueuedFrame(s)
  PROVE  SerialState' /\ AheadOfCursor' /\ FeedStep /\ Held \subseteq Held'
  <1>1. /\ Incoming(s) /\ Read(s) /\ Drop(s)
        /\ UNCHANGED <<persistent, origin, server, perr, chain, channel, listening, saved>>
        /\ \/ job' = job
           \/ s \in Wanted /\ job' = [job EXCEPT ![RepoOf[s]] = [on |-> TRUE, buf |-> @.buf \cup {s}]]
    BY DEF ReplayedFrame, QueuedFrame, confVars, verifierVars
  <1>2. /\ ~perr.on /\ perr.of = {} /\ s - 1 \in 0..MaxSeq /\ s \in 0..MaxSeq
        /\ ReadTo' = s /\ Fits(batch, s - 1) /\ s <= server.head
        /\ ws' \in [on : BOOLEAN, at : 0..MaxSeq] /\ cursor < s
        /\ \A t \in Wanted : t <= s <=> t <= s - 1 \/ t = s
    BY <1>1, IncomingIs
  <1>3. /\ dropped' = Top({dropped, s}) /\ quiet' = quiet \cup {s}
        /\ UNCHANGED <<reported, cursor, batch, got, healed>>
    BY <1>1 DEF Drop
  <1>4. dropped' \in 0..MaxSeq /\ dropped' <= s
    <2>1. {dropped, s} \subseteq 0..MaxSeq /\ MaxSeq \in Nat BY <1>2, ConstantTypes DEF SerialState
    <2>2. dropped' \in 0..MaxSeq /\ dropped' \in {dropped, s, 0} BY <1>3, <2>1, TopIs
    <2>3. dropped <= s - 1 BY <1>2 DEF Fits
    <2>4. QED BY <2>1, <2>2, <2>3
  <1>5. job' \in [Repos -> [on : BOOLEAN, buf : SUBSET Wanted]]
    <2>0. job \in [Repos -> [on : BOOLEAN, buf : SUBSET Wanted]] BY DEF SerialState
    <2>1. CASE job' = job BY <2>0, <2>1
    <2>2. CASE s \in Wanted /\ job' = [job EXCEPT ![RepoOf[s]] = [on |-> TRUE, buf |-> @.buf \cup {s}]]
      <3>1. RepoOf[s] \in Repos BY <2>2, ConstantTypes
      <3>2. [on |-> TRUE, buf |-> job[RepoOf[s]].buf \cup {s}] \in [on : BOOLEAN, buf : SUBSET Wanted]
        BY <2>0, <2>2, <3>1
      <3>3. QED BY <2>0, <2>2, <3>1, <3>2
    <2>3. QED BY <1>1, <2>1, <2>2
  <1>6. SerialState' BY <1>1, <1>2, <1>3, <1>4, <1>5 DEF SerialState
  <1>7. AheadOfCursor'
    <2>1. Excused' = Excused \cup {s} BY <1>3 DEF Excused
    <2>2. saved <= cursor BY DEF AheadOfCursor
    <2>3. cursor <= s BY <1>2, ConstantTypes DEF SerialState
    <2>4. \A x \in Items(batch) : x.seq # 0 => cursor < x.seq /\ x.seq <= s
      <3>1. \A x \in Items(batch) : x.seq \in Nat BY ItemsAre, ConstantTypes DEF SerialState
      <3>2. QED BY <1>2, <3>1 DEF Fits
    <2>5. \A t \in Wanted : cursor < t /\ t <= s =>
            t \in Excused' \/ \E x \in Items(batch) : x.seq = t
      BY <1>2, <2>1 DEF Fits
    <2>6. QED BY <1>1, <1>2, <1>3, <1>4, <2>2, <2>3, <2>4, <2>5 DEF AheadOfCursor
  <1>8. FeedStep BY <1>1, <1>3, <1>6, ExcuseIsFeedStep DEF SerialState
  <1>9. Held \subseteq Held' BY <1>1, <1>3 DEF Held
  <1>10. QED BY <1>6, <1>7, <1>8, <1>9

(* Steps that stand where they are and put an error about S, or a resync,   *)
(* after the batch.                                                        *)
LEMMA ErrorStep ==
  ASSUME SerialState, AheadOfCursor, ~perr.on, NEW S, S \subseteq Seqs, Fail(S),
         UNCHANGED <<persistent, origin, server, ws, chain, job, listening, saved, quiet>>,
         channel' \in [events : Seq([content : SUBSET Wanted, ok : BOOLEAN]),
                       errors : Seq(SUBSET Wanted)]
  PROVE  SerialState' /\ AheadOfCursor' /\ FeedStep /\ Held \cup S \subseteq Held' /\ ReadTo' = ReadTo
  <1> DEFINE at == ReadTo
  <1>1. Fits(batch, at) /\ perr.of = {} BY BatchFits
  <1>2. /\ Advances(at)
        /\ reported \subseteq reported' /\ reported' \subseteq Seqs
        /\ perr' \in [on : BOOLEAN, of : SUBSET Seqs]
        /\ perr'.on => batch' = <<>> /\ dropped' = 0
        /\ ~perr'.on => perr'.of = {}
        /\ S \subseteq reported' \cup perr'.of
        /\ (cursor' = cursor /\ got' = got) \/ UNCHANGED reported
    BY <1>1, FailAdvances
  <1>3. SerialState' BY <1>2 DEF SerialState, Advances
  <1>4. Excused \subseteq Excused' BY <1>2 DEF Excused
  <1>5. ReadTo' = at
    <2>1. CASE ws.on BY <2>1 DEF ReadTo
    <2>2. CASE ~ws.on
      <3>1. at = cursor /\ ReadTo' = cursor' /\ cursor \in 0..MaxSeq BY <2>2 DEF ReadTo, SerialState
      <3>2. QED BY <1>2, <3>1, ConstantTypes DEF Advances
    <2>3. QED BY <2>1, <2>2
  <1>6. AheadOfCursor'
    <2>1. at \in 0..MaxSeq /\ at <= at BY <1>1, ConstantTypes DEF Fits
    <2>2. at <= server'.head /\ \A s \in Wanted : ~(at < s /\ s <= at)
      BY <2>1, ConstantTypes DEF AheadOfCursor
    <2> HIDE DEF at
    <2>3. QED BY <1>2, <1>4, <1>5, <2>1, <2>2, AdvanceStaysAhead
  <1>7. FeedStep
    <2>1. CASE cursor' = cursor /\ got' = got
      BY <1>2, <2>1, ExcuseIsFeedStep DEF SerialState
    <2>2. CASE UNCHANGED reported
      BY <1>2, <2>2, HandsIsFeedStep DEF Advances
    <2>3. QED BY <1>2, <2>1, <2>2
  <1>8. Held \cup S \subseteq Held' BY <1>1, <1>2 DEF Advances, Held
  <1>9. QED BY <1>3, <1>6, <1>7, <1>8, <1>5

LEMMA ResyncItemStep ==
  ASSUME SerialState, AheadOfCursor, ~perr.on, NEW S, S \subseteq Wanted, Push(ResyncItem(S)),
         UNCHANGED <<persistent, origin, server, ws, perr, chain, job, listening, saved, reported, quiet>>,
         channel' \in [events : Seq([content : SUBSET Wanted, ok : BOOLEAN]),
                       errors : Seq(SUBSET Wanted)]
  PROVE  SerialState' /\ AheadOfCursor' /\ FeedStep /\ Held \cup S \subseteq Held' /\ ReadTo' = ReadTo
  <1> DEFINE at == ReadTo
             y == ResyncItem(S)
  <1>1. Fits(batch, at) /\ perr.of = {} BY BatchFits
  <1>2. y \in Item /\ y.seq = 0 /\ y.content = S BY MadeItems
  <1> HIDE DEF y
  <1>3. Items(Append(batch, y)) = Items(batch) \cup {y}
    BY <1>2, ItemsAppend DEF SerialState
  <1>4. Fits(Append(batch, y), at) BY <1>1, <1>2, <1>3 DEF Fits
  <1>5. Advances(at) /\ S \subseteq got' \cup healed' \cup Carried(batch')
    BY <1>2, <1>4, PushAdvances DEF y
  <1>6. SerialState' BY <1>5 DEF SerialState, Advances
  <1>7. Excused' = Excused BY DEF Excused
  <1>8. ReadTo' = at
    <2>1. CASE ws.on BY <2>1 DEF ReadTo
    <2>2. CASE ~ws.on
      <3>1. at = cursor /\ ReadTo' = cursor' /\ cursor \in 0..MaxSeq BY <2>2 DEF ReadTo, SerialState
      <3>2. QED BY <1>5, <3>1, ConstantTypes DEF Advances
    <2>3. QED BY <2>1, <2>2
  <1>9. AheadOfCursor'
    <2>1. at \in 0..MaxSeq /\ at <= at BY <1>1, ConstantTypes DEF Fits
    <2>3. at <= server'.head /\ \A s \in Wanted : ~(at < s /\ s <= at)
      BY <2>1, ConstantTypes DEF AheadOfCursor
    <2> HIDE DEF at
    <2>4. QED BY <1>1, <1>5, <1>7, <1>8, <2>1, <2>3, AdvanceStaysAhead
  <1>10. FeedStep BY <1>5, HandsIsFeedStep DEF Advances
  <1>11. Held \cup S \subseteq Held' BY <1>5 DEF Advances, Held
  <1>12. QED BY <1>6, <1>9, <1>10, <1>11, <1>8

(* The first of a queue and the others. *)
LEMMA QueueHolds ==
  ASSUME NEW T, NEW q \in Seq(T), q # <<>>
  PROVE  /\ Head(q) \in T /\ Tail(q) \in Seq(T)
         /\ \A i \in 1..Len(q) : q[i] = Head(q) \/ \E j \in 1..Len(Tail(q)) : q[i] = Tail(q)[j]
         /\ \A j \in 1..Len(Tail(q)) : \E i \in 1..Len(q) : q[i] = Tail(q)[j]
  <1>1. /\ Head(q) \in T /\ Tail(q) \in Seq(T) /\ Len(q) \in Nat \ {0} /\ Len(Tail(q)) = Len(q) - 1
        /\ Head(q) = q[1] /\ \A j \in 1..Len(Tail(q)) : Tail(q)[j] = q[j + 1]
    OBVIOUS
  <1>2. ASSUME NEW i \in 1..Len(q), i # 1 PROVE \E j \in 1..Len(Tail(q)) : q[i] = Tail(q)[j]
    <2>1. i - 1 \in 1..Len(Tail(q)) /\ (i - 1) + 1 = i BY <1>1, <1>2
    <2>2. QED BY <1>1, <2>1
  <1>3. ASSUME NEW j \in 1..Len(Tail(q)) PROVE \E i \in 1..Len(q) : q[i] = Tail(q)[j]
    <2>1. j + 1 \in 1..Len(q) BY <1>1, <1>3
    <2>2. QED BY <1>1, <2>1
  <1>4. QED BY <1>1, <1>2, <1>3

(* A queue and one more. *)
LEMMA QueueGrows ==
  ASSUME NEW T, NEW q \in Seq(T), NEW y \in T
  PROVE  /\ Append(q, y) \in Seq(T)
         /\ \A i \in 1..Len(q) : \E j \in 1..Len(Append(q, y)) : q[i] = Append(q, y)[j]
         /\ \E j \in 1..Len(Append(q, y)) : y = Append(q, y)[j]
         /\ \A j \in 1..Len(Append(q, y)) :
              Append(q, y)[j] = y \/ \E i \in 1..Len(q) : q[i] = Append(q, y)[j]
  <1>1. /\ Append(q, y) \in Seq(T) /\ Len(Append(q, y)) = Len(q) + 1 /\ Len(q) \in Nat
        /\ \A i \in 1..Len(q) : Append(q, y)[i] = q[i]
        /\ Append(q, y)[Len(q) + 1] = y
    OBVIOUS
  <1>2. /\ \A i \in 1..Len(q) : i \in 1..Len(Append(q, y))
        /\ Len(q) + 1 \in 1..Len(Append(q, y))
        /\ \A j \in 1..Len(Append(q, y)) : j \in 1..Len(q) \/ j = Len(q) + 1
    BY <1>1
  <1>3. QED BY <1>1, <1>2

(* What the stream takes from the verifier's channel it holds, or reports. *)
LEMMA ChannelStep ==
  ASSUME SerialState, AheadOfCursor, ConnectFails \/ TakeError \/ TakeResync
  PROVE  /\ SerialState' /\ AheadOfCursor' /\ FeedStep /\ ReadTo' = ReadTo
         /\ Held \cup Arriving \subseteq Held' \cup Arriving'
         /\ Failing \subseteq Failing' \cup Held' /\ Failing' \subseteq Failing
  <1>0. channel \in [events : Seq([content : SUBSET Wanted, ok : BOOLEAN]),
                     errors : Seq(SUBSET Wanted)]
    BY DEF SerialState
  <1>1. CASE ConnectFails
    <2>1. /\ ~perr.on /\ Fail({}) /\ channel' = channel
          /\ UNCHANGED <<persistent, origin, server, ws, chain, job, listening, saved, quiet>>
      BY <1>1 DEF ConnectFails, confVars, verifierVars
    <2>2. SerialState' /\ AheadOfCursor' /\ FeedStep /\ ReadTo' = ReadTo /\ Held \subseteq Held'
      BY <1>0, <2>1, ErrorStep
    <2>3. QED BY <2>1, <2>2 DEF Arriving, Failing
  <1>2. CASE TakeError
    <2> DEFINE q == channel.errors
    <2>1. /\ ~perr.on /\ q # <<>> /\ Fail(Head(q))
          /\ channel' = [channel EXCEPT !.errors = Tail(@)]
          /\ UNCHANGED <<persistent, origin, server, ws, chain, job, listening, saved, quiet>>
      BY <1>2 DEF TakeError, confVars
    <2>2. /\ Head(q) \in SUBSET Wanted /\ Tail(q) \in Seq(SUBSET Wanted)
          /\ \A i \in 1..Len(q) : q[i] = Head(q) \/ \E j \in 1..Len(Tail(q)) : q[i] = Tail(q)[j]
          /\ \A j \in 1..Len(Tail(q)) : \E i \in 1..Len(q) : q[i] = Tail(q)[j]
      <3>1. q \in Seq(SUBSET Wanted) BY <1>0
      <3> HIDE DEF q
      <3>2. QED BY <2>1, <3>1, QueueHolds
    <2>3. /\ channel' \in [events : Seq([content : SUBSET Wanted, ok : BOOLEAN]),
                           errors : Seq(SUBSET Wanted)]
          /\ channel'.errors = Tail(q) /\ channel'.events = channel.events
      BY <1>0, <2>1, <2>2
    <2>4. Head(q) \subseteq Seqs BY <2>2, ConstantTypes
    <2> HIDE DEF q
    <2>5. SerialState' /\ AheadOfCursor' /\ FeedStep /\ ReadTo' = ReadTo /\ Held \cup Head(q) \subseteq Held'
      BY <2>1, <2>3, <2>4, ErrorStep
    <2>6. Arriving' = Arriving BY <2>3 DEF Arriving
    <2>7. \A t : t \in Failing <=> \E i \in 1..Len(q) : t \in q[i]
      BY DEF Failing, q
    <2>8. \A t : t \in Failing' <=> \E j \in 1..Len(Tail(q)) : t \in Tail(q)[j]
      BY <2>3 DEF Failing
    <2>9. Failing' \subseteq Failing /\ Failing \subseteq Failing' \cup Head(q)
      <3>1. ASSUME NEW t \in Failing' PROVE t \in Failing
        <4>1. PICK j \in 1..Len(Tail(q)) : t \in Tail(q)[j] BY <2>8, <3>1
        <4>2. QED BY <2>2, <2>7, <4>1
      <3>2. ASSUME NEW t \in Failing PROVE t \in Failing' \cup Head(q)
        <4>1. PICK i \in 1..Len(q) : t \in q[i] BY <2>7, <3>2
        <4>2. QED BY <2>2, <2>8, <4>1
      <3>3. QED BY <3>1, <3>2
    <2>10. QED BY <2>5, <2>6, <2>9
  <1>3. CASE TakeResync
    <2> DEFINE q == channel.events
               e == Head(q)
    <2>1. /\ ~perr.on /\ q # <<>>
          /\ channel' = [channel EXCEPT !.events = Tail(@)]
          /\ UNCHANGED <<persistent, origin, server, ws, chain, job, listening, saved, quiet>>
          /\ \/ Push(ResyncItem(e.content)) /\ UNCHANGED <<perr, reported>>
             \/ Fail(e.content)
      BY <1>3 DEF TakeResync, confVars
    <2>2. /\ e \in [content : SUBSET Wanted, ok : BOOLEAN]
          /\ Tail(q) \in Seq([content : SUBSET Wanted, ok : BOOLEAN])
          /\ \A i \in 1..Len(q) : q[i] = e \/ \E j \in 1..Len(Tail(q)) : q[i] = Tail(q)[j]
      <3>1. q \in Seq([content : SUBSET Wanted, ok : BOOLEAN]) BY <1>0
      <3> HIDE DEF q
      <3>2. QED BY <2>1, <3>1, QueueHolds
    <2>3. /\ channel' \in [events : Seq([content : SUBSET Wanted, ok : BOOLEAN]),
                           errors : Seq(SUBSET Wanted)]
          /\ channel'.events = Tail(q) /\ channel'.errors = channel.errors
      BY <1>0, <2>1, <2>2
    <2>4. e.content \subseteq Wanted /\ e.content \subseteq Seqs BY <2>2, ConstantTypes
    <2> HIDE DEF q, e
    <2>5. SerialState' /\ AheadOfCursor' /\ FeedStep /\ ReadTo' = ReadTo /\ Held \cup e.content \subseteq Held'
      <3>1. CASE Push(ResyncItem(e.content)) /\ UNCHANGED <<perr, reported>>
        BY <2>1, <2>3, <2>4, <3>1, ResyncItemStep
      <3>2. CASE Fail(e.content) BY <2>1, <2>3, <2>4, <3>2, ErrorStep
      <3>3. QED BY <2>1, <3>1, <3>2
    <2>6. Failing' = Failing BY <2>3 DEF Failing
    <2>7. \A t : t \in Arriving <=> \E i \in 1..Len(q) : t \in q[i].content
      BY DEF Arriving, q
    <2>8. \A t : t \in Arriving' <=> \E j \in 1..Len(Tail(q)) : t \in Tail(q)[j].content
      BY <2>3 DEF Arriving
    <2>9. ASSUME NEW t \in Arriving PROVE t \in Arriving' \cup e.content
      <3>1. PICK i \in 1..Len(q) : t \in q[i].content BY <2>7, <2>9
      <3>2. QED BY <2>2, <2>8, <3>1
    <2>10. QED BY <2>5, <2>6, <2>9
  <1>4. QED BY <1>1, <1>2, <1>3

(* What a job finds in the mirror: the repo's newest commit so far. *)
LEMMA JobContent ==
  ASSUME NEW r \in Repos, NEW new, new = Top({s \in Of(r) : s <= server.head})
  PROVE  /\ new \in 0..MaxSeq
         /\ \A s \in Of(r) : s <= server.head => s <= new
         /\ new = 0 \/ (new \in Of(r) /\ new <= server.head)
  <1>1. {s \in Of(r) : s <= server.head} \subseteq 0..MaxSeq /\ MaxSeq \in Nat
    BY ConstantTypes DEF Of
  <1>2. QED BY <1>1, TopIs

(* The jobs run beside the stream and leave the feed alone. *)
LEMMA JobStep ==
  ASSUME SerialState, AheadOfCursor, NEW r \in Repos, JobDone(r) \/ JobFails(r)
  PROVE  SerialState' /\ AheadOfCursor' /\ FeedStep /\ Held \subseteq Held'
  <1> DEFINE new == Top({s \in Of(r) : s <= server.head})
             content == {s \in Of(r) : s <= new}
  <1>1. /\ UNCHANGED <<persistent, origin, server, ws, cursor, batch, dropped, perr, listening, saved,
                       got, healed, reported, quiet>>
        /\ job' = [job EXCEPT ![r] = Idle]
        /\ chain' = chain \/ chain' = [chain EXCEPT ![r] = new]
        /\ \/ channel' = channel
           \/ \E ok \in BOOLEAN : channel' = [channel EXCEPT !.events = Append(@, [content |-> content, ok |-> ok])]
           \/ channel' = [channel EXCEPT !.errors = Append(@, job[r].buf)]
    <2>1. CASE JobDone(r)
      BY <2>1 DEF JobDone, Send, confVars, batchVars, consumerVars
    <2>2. CASE JobFails(r)
      BY <2>2 DEF JobFails, Send, confVars, batchVars, consumerVars
    <2>3. QED BY <2>1, <2>2
  <1>2. new \in 0..MaxSeq BY JobContent
  <1>3. content \in SUBSET Wanted BY DEF Of
  <1> HIDE DEF new, content
  <1>4. /\ chain \in [Repos -> 0..MaxSeq]
        /\ job \in [Repos -> [on : BOOLEAN, buf : SUBSET Wanted]]
        /\ channel \in [events : Seq([content : SUBSET Wanted, ok : BOOLEAN]),
                        errors : Seq(SUBSET Wanted)]
    BY DEF SerialState
  <1>5. chain' \in [Repos -> 0..MaxSeq] BY <1>1, <1>2, <1>4
  <1>6. job' \in [Repos -> [on : BOOLEAN, buf : SUBSET Wanted]] BY <1>1, <1>4, Literals
  <1>7. channel' \in [events : Seq([content : SUBSET Wanted, ok : BOOLEAN]),
                      errors : Seq(SUBSET Wanted)]
    <2>1. CASE channel' = channel BY <1>4, <2>1
    <2>2. CASE channel' = [channel EXCEPT !.errors = Append(@, job[r].buf)]
      <3>1. job[r].buf \in SUBSET Wanted BY <1>4
      <3>2. Append(channel.errors, job[r].buf) \in Seq(SUBSET Wanted) BY <1>4, <3>1
      <3>3. QED BY <1>4, <2>2, <3>2
    <2>3. ASSUME NEW ok \in BOOLEAN,
                 channel' = [channel EXCEPT !.events = Append(@, [content |-> content, ok |-> ok])]
          PROVE  channel' \in [events : Seq([content : SUBSET Wanted, ok : BOOLEAN]),
                               errors : Seq(SUBSET Wanted)]
      <3>1. [content |-> content, ok |-> ok] \in [content : SUBSET Wanted, ok : BOOLEAN] BY <1>3
      <3>2. Append(channel.events, [content |-> content, ok |-> ok])
              \in Seq([content : SUBSET Wanted, ok : BOOLEAN])
        BY <1>4, <3>1
      <3>3. QED BY <1>4, <2>3, <3>2
    <2>4. QED BY <1>1, <2>1, <2>2, <2>3
  <1>8. SerialState' BY <1>1, <1>5, <1>6, <1>7 DEF SerialState
  <1>9. ReadTo' = ReadTo /\ Excused' = Excused BY <1>1 DEF ReadTo, Excused
  <1>10. AheadOfCursor' BY <1>1, <1>9 DEF AheadOfCursor
  <1>11. FeedStep BY <1>1, <1>9 DEF FeedStep, Feed!feedVars
  <1>12. Held \subseteq Held' BY <1>1 DEF Held
  <1>13. QED BY <1>8, <1>10, <1>11, <1>12

-----------------------------------------------------------------------------
LEMMA SerialStarts == SerialInit => SerialState /\ AheadOfCursor /\ Feed!FeedInit
  <1> SUFFICES ASSUME SerialInit PROVE SerialState /\ AheadOfCursor /\ Feed!FeedInit
    OBVIOUS
  <1>0. MaxSeq \in Nat /\ BatchSize \in Nat \ {0} BY ConstantTypes
  <1>1. origin \in 0..MaxSeq /\ origin \in StartAt BY SerialAssumption DEF SerialInit
  <1>2. ReadTo = origin /\ Items(batch) = {} /\ Excused = {}
    BY DEF SerialInit, ReadTo, Offline, Items, Excused
  <1>3. SerialState
    <2>1. /\ job \in [Repos -> [on : BOOLEAN, buf : SUBSET Wanted]]
          /\ chain \in [Repos -> 0..MaxSeq]
      BY <1>0, Literals DEF SerialInit
    <2>2. ws \in [on : BOOLEAN, at : 0..MaxSeq] /\ perr \in [on : BOOLEAN, of : SUBSET Seqs]
      BY Literals DEF SerialInit
    <2>3. QED BY <1>0, <1>1, <2>1, <2>2 DEF SerialInit, SerialState
  <1>4. AheadOfCursor
    <2>1. \A s \in Wanted : ~(origin < s /\ s <= origin) BY <1>1, ConstantTypes
    <2>2. origin <= origin /\ 0 <= origin BY <1>1
    <2>3. QED BY <1>2, <2>1, <2>2, Literals DEF SerialInit, AheadOfCursor
  <1>5. Feed!FeedInit BY <1>1, <1>2 DEF SerialInit, Feed!FeedInit
  <1>6. QED BY <1>3, <1>4, <1>5

LEMMA SerialStep ==
  ASSUME SerialState, AheadOfCursor, [SerialNext]_vars
  PROVE  SerialState' /\ AheadOfCursor' /\ FeedStep
  <1>1. CASE Publish \/ Trim \/ Save \/ UNCHANGED vars BY <1>1, EnvironmentStep
  <1>2. CASE Crash \/ Resubscribe BY <1>2, RestartStep
  <1>3. CASE PollStep
    <2>1. CASE YieldPending BY <2>1, YieldPendingStep
    <2>2. CASE Timer \/ Closed \/ Broken BY <2>2, YieldStep
    <2>3. CASE Connect BY <2>3, ConnectStep
    <2>4. CASE TakeError \/ TakeResync BY <2>4, ChannelStep
    <2>5. ASSUME NEW s \in Seqs, FrameStep(s)
          PROVE  SerialState' /\ AheadOfCursor' /\ FeedStep
      <3>1. CASE SkipFrame(s) BY <3>1, SkipStep
      <3>2. CASE PlainFrame(s) \/ VerifiedFrame(s) BY <3>2, EventStep
      <3>3. CASE BadFrame(s) \/ RefusedFrame(s) BY <3>3, RejectStep
      <3>4. CASE ReplayedFrame(s) \/ QueuedFrame(s) BY <3>4, DropStep
      <3>5. QED BY <2>5, <3>1, <3>2, <3>3, <3>4 DEF FrameStep
    <2>6. QED BY <1>3, <2>1, <2>2, <2>3, <2>4, <2>5 DEF PollStep
  <1>4. CASE ConnectFails BY <1>4, ChannelStep
  <1>5. ASSUME NEW r \in Repos, JobDone(r) \/ JobFails(r)
        PROVE  SerialState' /\ AheadOfCursor' /\ FeedStep
    BY <1>5, JobStep
  <1>6. QED BY <1>1, <1>2, <1>3, <1>4, <1>5 DEF SerialNext

(* Whatever the mode, the batch size and the faults, a serial stream is an  *)
(* ordered feed: batches come in order, the cursor passes no event that was *)
(* not handed over or given up, and a restart goes back to the saved cursor *)
(* (next_batch and the update_*_cursor functions).                         *)
THEOREM SerialImplementsFeed == SerialSpec => ImplementsFeed
  <1>1. SerialInit => SerialState /\ AheadOfCursor BY SerialStarts
  <1>2. SerialInit => Feed!FeedInit BY SerialStarts
  <1>3. SerialState /\ AheadOfCursor /\ [SerialNext]_vars
          => (SerialState /\ AheadOfCursor)' /\ [Feed!FeedNext]_(Feed!feedVars)
    BY SerialStep DEF FeedStep
  <1>4. QED BY <1>1, <1>2, <1>3, PTL DEF SerialSpec, ImplementsFeed, Feed!FeedSpec

-----------------------------------------------------------------------------
(* What the stream keeps. *)
LEMMA KeptIs == /\ Kept = Held \cup Arriving \cup atRisk
                /\ Kept' = Held' \cup Arriving' \cup atRisk'
  BY DEF Kept, Held

(* Steps that leave the verifier alone and let go of nothing. *)
LEMMA KeptFrame ==
  ASSUME SerialState, SerialState', KeptInv,
         UNCHANGED <<persistent, origin, chain, job>>, server.head <= server'.head,
         Kept \subseteq Kept', Failing \subseteq Failing' \cup Kept', Failing' \subseteq Failing,
         \A s \in Wanted : origin < s /\ ReadTo < s /\ s <= ReadTo' => s \in Kept'
  PROVE  KeptInv'
  <1>0. /\ MaxSeq \in Nat /\ \A s \in Wanted : s \in Nat /\ RepoOf[s] \in Repos
        /\ ReadTo \in 0..MaxSeq /\ ReadTo' \in 0..MaxSeq
        /\ server.head \in 0..MaxSeq /\ server'.head \in 0..MaxSeq
        /\ \A r \in Repos : chain[r] \in 0..MaxSeq /\ job[r].buf \subseteq Wanted
    BY ConstantTypes DEF SerialState, ReadTo
  <1>1. \A s \in Wanted : origin' < s /\ s <= chain'[RepoOf[s]] => s \in Kept'
    BY DEF KeptInv
  <1>2. ASSUME NEW s \in Wanted, origin' < s, s <= ReadTo'
        PROVE  \/ s \in Kept' \cup Failing'
               \/ s \in job'[RepoOf[s]].buf
               \/ persistent' /\ chain'[RepoOf[s]] > 0
    <2>1. CASE s <= ReadTo BY <1>2, <2>1 DEF KeptInv
    <2>2. CASE ReadTo < s BY <1>2, <2>2
    <2>3. QED BY <1>0, <2>1, <2>2
  <1>3. \A r \in Repos : chain'[r] > 0 => chain'[r] \in Of(r) /\ chain'[r] <= server'.head
    BY <1>0 DEF KeptInv
  <1>4. \A r \in Repos : \A s \in job'[r].buf : s \in Of(r) /\ s <= server'.head
    <2> SUFFICES ASSUME NEW r \in Repos, NEW s \in job[r].buf PROVE s \in Of(r) /\ s <= server'.head
      OBVIOUS
    <2>1. s \in Of(r) /\ s <= server.head /\ s \in Nat BY <1>0 DEF KeptInv
    <2>2. QED BY <1>0, <2>1
  <1>5. QED BY <1>1, <1>2, <1>3, <1>4 DEF KeptInv

LEMMA KeptStarts == SerialInit => KeptInv
  <1> SUFFICES ASSUME SerialInit PROVE KeptInv
    OBVIOUS
  <1>1. /\ \A s \in Wanted : s \in Nat /\ s # 0 /\ RepoOf[s] \in Repos
        /\ \A r \in Repos : chain[r] = 0 /\ job[r] = Idle
        /\ ReadTo = origin /\ origin \in Nat /\ Failing = {}
    <2>1. origin \in Nat BY SerialAssumption DEF SerialInit
    <2>2. QED BY <2>1, ConstantTypes DEF SerialInit, ReadTo, Offline, Failing
  <1>2. \A s \in Wanted : ~(s <= chain[RepoOf[s]]) /\ ~(origin < s /\ s <= ReadTo) BY <1>1
  <1>3. \A r \in Repos : ~job[r].on /\ job[r].buf = {} /\ ~(chain[r] > 0) BY <1>1, Literals
  <1>4. QED BY <1>1, <1>2, <1>3 DEF KeptInv

(* The environment, and the steps of the stream that meet no frame of the   *)
(* verifier.                                                               *)
LEMMA KeptUndisturbed ==
  ASSUME SerialState, AheadOfCursor, KeptInv,
         \/ Publish \/ Trim \/ Save \/ UNCHANGED vars
         \/ YieldPending \/ Timer \/ Closed \/ Broken \/ Connect
         \/ ConnectFails \/ TakeError \/ TakeResync
  PROVE  KeptInv'
  <1>0. /\ MaxSeq \in Nat /\ \A s \in Wanted : s \in Nat
        /\ server.head \in 0..MaxSeq /\ ReadTo \in 0..MaxSeq /\ cursor \in 0..MaxSeq
    BY ConstantTypes DEF SerialState, ReadTo
  <1>1. CASE Publish \/ Trim \/ Save \/ UNCHANGED vars
    <2>1. /\ UNCHANGED <<persistent, origin, ws, cursor, batch, perr, chain, job, channel,
                         got, healed, reported, atRisk>>
          /\ server.head <= server'.head
      <3>1. CASE Publish BY <1>0, <3>1 DEF Publish, confVars, batchVars, verifierVars, consumerVars, SerialState
      <3>2. CASE Trim BY <1>0, <3>2 DEF Trim, confVars, batchVars, verifierVars, consumerVars, SerialState
      <3>3. CASE Save BY <1>0, <3>3 DEF Save, confVars, batchVars, verifierVars
      <3>4. CASE UNCHANGED vars BY <1>0, <3>4 DEF vars, confVars, batchVars, verifierVars, consumerVars
      <3>5. QED BY <1>1, <3>1, <3>2, <3>3, <3>4
    <2>2. Kept' = Kept /\ Failing' = Failing /\ ReadTo' = ReadTo
      BY <2>1 DEF Kept, Failing, Arriving, ReadTo
    <2>3. \A s \in Wanted : ~(ReadTo < s /\ s <= ReadTo') BY <1>0, <2>2
    <2>4. SerialState' BY <1>1, EnvironmentStep
    <2>5. QED BY <2>1, <2>2, <2>3, <2>4, KeptFrame
  <1>2. CASE YieldPending \/ Timer \/ Closed \/ Broken
    <2>1. UNCHANGED <<persistent, origin, server, chain, job, channel, atRisk>>
      BY <1>2 DEF YieldPending, Timer, Closed, Broken, confVars, verifierVars
    <2>2. SerialState' /\ Held \subseteq Held' BY <1>2, YieldStep, YieldPendingStep
    <2>3. Failing' = Failing /\ Arriving' = Arriving BY <2>1 DEF Failing, Arriving
    <2>4. Kept \subseteq Kept' BY <2>1, <2>2, <2>3, KeptIs
    <2>5. ReadTo' <= ReadTo /\ ReadTo' \in 0..MaxSeq
      <3>1. ReadTo' \in 0..MaxSeq BY <2>2 DEF SerialState, ReadTo
      <3>2. CASE YieldPending
        <4>1. ReadTo' = ReadTo BY <3>2 DEF YieldPending, Hold, ReadTo
        <4>2. QED BY <1>0, <3>1, <4>1
      <3>3. CASE Timer \/ Closed \/ Broken BY <3>1, <3>3, YieldStep
      <3>4. QED BY <1>2, <3>2, <3>3
    <2>6. server.head <= server'.head /\ \A s \in Wanted : ~(ReadTo < s /\ s <= ReadTo')
      BY <1>0, <2>1, <2>5
    <2>7. QED BY <2>1, <2>2, <2>3, <2>4, <2>6, KeptFrame
  <1>3. CASE Connect
    <2>1. UNCHANGED <<persistent, origin, server, chain, job, channel, atRisk>>
      BY <1>3 DEF Connect, confVars, verifierVars
    <2>2. /\ SerialState'
          /\ Held \cup {s \in Wanted : ReadTo < s /\ s <= ReadTo'} \subseteq Held'
      BY <1>3, ConnectStep
    <2>3. Failing' = Failing /\ Arriving' = Arriving BY <2>1 DEF Failing, Arriving
    <2>4. Kept \subseteq Kept' /\ \A s \in Wanted : ReadTo < s /\ s <= ReadTo' => s \in Kept'
      BY <2>1, <2>2, <2>3, KeptIs
    <2>5. server.head <= server'.head BY <1>0, <2>1
    <2>6. QED BY <2>1, <2>2, <2>3, <2>4, <2>5, KeptFrame
  <1>4. CASE ConnectFails \/ TakeError \/ TakeResync
    <2>1. UNCHANGED <<persistent, origin, server, ws, chain, job, atRisk>>
      BY <1>4 DEF ConnectFails, TakeError, TakeResync, confVars, verifierVars
    <2>2. /\ SerialState' /\ ReadTo' = ReadTo
          /\ Held \cup Arriving \subseteq Held' \cup Arriving'
          /\ Failing \subseteq Failing' \cup Held' /\ Failing' \subseteq Failing
      BY <1>4, ChannelStep
    <2>3. Kept \subseteq Kept' /\ Failing \subseteq Failing' \cup Kept' BY <2>1, <2>2, KeptIs
    <2>4. server.head <= server'.head /\ \A s \in Wanted : ~(ReadTo < s /\ s <= ReadTo')
      BY <1>0, <2>1, <2>2
    <2>5. QED BY <2>1, <2>2, <2>3, <2>4, KeptFrame
  <1>5. QED BY <1>1, <1>2, <1>3, <1>4

(* Frames that leave the chain alone. *)
LEMMA KeptFrames ==
  ASSUME SerialState, AheadOfCursor, KeptInv, NEW s \in Seqs,
         SkipFrame(s) \/ PlainFrame(s) \/ BadFrame(s) \/ RefusedFrame(s) \/ ReplayedFrame(s)
  PROVE  KeptInv'
  <1>1. /\ UNCHANGED <<persistent, origin, server, chain, job, channel, atRisk>>
        /\ Incoming(s) /\ Read(s)
    BY DEF SkipFrame, PlainFrame, BadFrame, RefusedFrame, ReplayedFrame, confVars, verifierVars
  <1>2. /\ ReadTo = s - 1 /\ ReadTo' = s /\ server.head \in 0..MaxSeq /\ MaxSeq \in Nat
        /\ \A t \in Wanted : s - 1 < t /\ t <= s => t = s
    BY <1>1, IncomingIs, ConstantTypes DEF SerialState
  <1>3. Failing' = Failing /\ Arriving' = Arriving BY <1>1 DEF Failing, Arriving
  <1>4. server.head <= server'.head BY <1>1, <1>2
  <1>5. SerialState' /\ Held \subseteq Held'
    BY SkipStep, EventStep, RejectStep, DropStep
  <1>6. Kept \subseteq Kept' BY <1>1, <1>3, <1>5, KeptIs
  <1>7. s \in Wanted /\ origin < s => s \in Kept'
    <2>1. CASE SkipFrame(s) BY <2>1 DEF SkipFrame
    <2>2. CASE PlainFrame(s) \/ BadFrame(s) \/ RefusedFrame(s)
      <3>1. s \in Held' BY <2>2, EventStep, RejectStep
      <3>2. QED BY <3>1, KeptIs
    <2>3. CASE ReplayedFrame(s)
      <3>1. s \in Wanted => s <= chain[RepoOf[s]] BY <2>3 DEF ReplayedFrame
      <3>2. QED BY <1>6, <3>1 DEF KeptInv
    <2>4. QED BY <2>1, <2>2, <2>3
  <1>8. \A t \in Wanted : origin < t /\ ReadTo < t /\ t <= ReadTo' => t \in Kept'
    BY <1>2, <1>7
  <1>9. QED BY <1>1, <1>3, <1>4, <1>5, <1>6, <1>8, KeptFrame

(* A commit the chain leads up to: what the stored chain skips over was     *)
(* never seen by this store, and so was kept when it was read.             *)
LEMMA KeptVerified ==
  ASSUME SerialState, AheadOfCursor, KeptInv, NEW s \in Seqs, VerifiedFrame(s)
  PROVE  KeptInv'
  <1> DEFINE r == RepoOf[s]
  <1>1. /\ UNCHANGED <<persistent, origin, server, job, channel, atRisk>>
        /\ Incoming(s) /\ Read(s) /\ s \in Wanted
        /\ ~job[r].on /\ chain[r] < s /\ Chains(s) /\ chain' = [chain EXCEPT ![r] = s]
    BY DEF VerifiedFrame, confVars
  <1>2. /\ ReadTo = s - 1 /\ ReadTo' = s /\ s <= server.head
        /\ \A t \in Wanted : t <= s <=> t <= s - 1 \/ t = s
    BY <1>1, IncomingIs
  <1>3. Failing' = Failing /\ Arriving' = Arriving BY <1>1 DEF Failing, Arriving
  <1>4. SerialState' /\ Held \cup {s} \subseteq Held' BY EventStep
  <1>5. Kept \subseteq Kept' /\ s \in Kept' BY <1>1, <1>3, <1>4, KeptIs
  <1>6. /\ MaxSeq \in Nat /\ r \in Repos /\ s \in Nat /\ s > 0
        /\ \A t \in Wanted : t \in Nat /\ t > 0 /\ RepoOf[t] \in Repos
        /\ chain \in [Repos -> 0..MaxSeq]
    BY <1>1, ConstantTypes DEF SerialState
  <1>7. \A q \in Repos : chain'[q] = IF q = r THEN s ELSE chain[q] BY <1>1, <1>6
  <1> HIDE DEF r
  <1>8. ASSUME NEW t \in Wanted, origin < t, t <= s - 1, RepoOf[t] = r PROVE t \in Kept
    <2>1. CASE t <= chain[r] BY <1>8, <2>1 DEF KeptInv
    <2>2. CASE chain[r] < t
      <3>1. chain[r] = 0
        <4>1. {u \in Of(RepoOf[s]) : u < s} \subseteq 0..MaxSeq BY ConstantTypes DEF Of
        <4>2. \A u \in {u \in Of(RepoOf[s]) : u < s} : u <= Before(s)
          BY <1>6, <4>1, TopIs DEF Before
        <4>3. t <= s BY <1>2, <1>8
        <4>4. t < s BY <1>6, <1>8
        <4>5. t <= Before(s) BY <1>8, <4>2, <4>4 DEF Of, r
        <4>6. Before(s) \in 0..MaxSeq BY <1>6, <4>1, TopIs DEF Before
        <4>7. chain[r] \in {0, Before(s)} BY <1>1 DEF Chains, r
        <4>8. QED BY <1>6, <2>2, <4>5, <4>6, <4>7
      <3>2. job[r].buf = {} BY <1>1, <1>6 DEF KeptInv
      <3>3. t \notin Failing BY <1>6, <1>8, <3>1 DEF KeptInv
      <3>4. \/ t \in Kept \cup Failing \/ t \in job[r].buf \/ chain[r] > 0
        BY <1>2, <1>8 DEF KeptInv
      <3>5. QED BY <3>1, <3>2, <3>3, <3>4
    <2>3. QED BY <1>6, <2>1, <2>2
  <1>9. ASSUME NEW t \in Wanted, origin' < t, t <= chain'[RepoOf[t]] PROVE t \in Kept'
    <2>1. CASE RepoOf[t] = r
      <3>1. t <= s BY <1>6, <1>7, <1>9, <2>1
      <3>2. QED BY <1>1, <1>2, <1>5, <1>8, <1>9, <2>1, <3>1
    <2>2. CASE RepoOf[t] # r BY <1>1, <1>5, <1>6, <1>7, <1>9, <2>2 DEF KeptInv
    <2>3. QED BY <2>1, <2>2
  <1>10. \A q \in Repos : chain[q] > 0 => chain'[q] > 0 BY <1>6, <1>7
  <1>11. ASSUME NEW t \in Wanted, origin' < t, t <= ReadTo'
         PROVE  \/ t \in Kept' \cup Failing' \/ t \in job'[RepoOf[t]].buf
                \/ persistent' /\ chain'[RepoOf[t]] > 0
    <2>1. CASE t = s BY <1>5, <2>1
    <2>2. CASE t <= s - 1
      <3>1. \/ t \in Kept \cup Failing \/ t \in job[RepoOf[t]].buf
            \/ persistent /\ chain[RepoOf[t]] > 0
        BY <1>1, <1>2, <1>11, <2>2 DEF KeptInv
      <3>2. QED BY <1>1, <1>3, <1>5, <1>6, <1>10, <3>1
    <2>3. QED BY <1>2, <1>11, <2>1, <2>2
  <1>12. \A q \in Repos : chain'[q] > 0 => chain'[q] \in Of(q) /\ chain'[q] <= server'.head
    <2>1. s \in Of(r) BY <1>1 DEF Of, r
    <2>2. QED BY <1>1, <1>2, <1>7, <2>1 DEF KeptInv
  <1>13. \A t \in Failing' : chain'[RepoOf[t]] > 0
    <2>1. Failing \subseteq Wanted BY DEF Failing, SerialState
    <2>2. QED BY <1>3, <1>6, <1>10, <2>1 DEF KeptInv
  <1>14. QED BY <1>1, <1>9, <1>10, <1>11, <1>12, <1>13 DEF KeptInv

(* A commit that waits for a job. *)
LEMMA KeptQueued ==
  ASSUME SerialState, AheadOfCursor, KeptInv, NEW s \in Seqs, QueuedFrame(s)
  PROVE  KeptInv'
  <1> DEFINE r == RepoOf[s]
  <1>1. /\ UNCHANGED <<persistent, origin, server, chain, channel, atRisk>>
        /\ Incoming(s) /\ Read(s) /\ s \in Wanted
        /\ job[r].on \/ ~Chains(s)
        /\ job' = [job EXCEPT ![r] = [on |-> TRUE, buf |-> job[r].buf \cup {s}]]
    BY DEF QueuedFrame, confVars
  <1>2. /\ ReadTo = s - 1 /\ ReadTo' = s /\ s <= server.head
        /\ \A t \in Wanted : t <= s <=> t <= s - 1 \/ t = s
    BY <1>1, IncomingIs
  <1>3. Failing' = Failing /\ Arriving' = Arriving BY <1>1 DEF Failing, Arriving
  <1>4. Kept \subseteq Kept'
    <2>1. Held \subseteq Held' BY DropStep
    <2>2. QED BY <1>1, <1>3, <2>1, KeptIs
  <1>5. /\ r \in Repos /\ chain \in [Repos -> 0..MaxSeq] /\ MaxSeq \in Nat
        /\ job \in [Repos -> [on : BOOLEAN, buf : SUBSET Wanted]]
        /\ \A t \in Wanted : RepoOf[t] \in Repos
    BY <1>1, ConstantTypes DEF SerialState
  <1>6. \A q \in Repos : /\ q # r => job'[q] = job[q]
                         /\ q = r => job'[q].on /\ job'[q].buf = job[r].buf \cup {s}
    BY <1>1, <1>5
  <1>7. chain[r] > 0
    <2>1. CASE job[r].on BY <1>5, <2>1 DEF KeptInv
    <2>2. CASE ~Chains(s) BY <1>5, <2>2 DEF Chains
    <2>3. QED BY <1>1, <2>1, <2>2
  <1>8. s \in Of(r) BY <1>1 DEF Of
  <1> HIDE DEF r
  <1>9. \A t \in Wanted : origin' < t /\ t <= chain'[RepoOf[t]] => t \in Kept'
    BY <1>1, <1>4 DEF KeptInv
  <1>10. ASSUME NEW t \in Wanted, origin' < t, t <= ReadTo'
         PROVE  \/ t \in Kept' \cup Failing' \/ t \in job'[RepoOf[t]].buf
                \/ persistent' /\ chain'[RepoOf[t]] > 0
    <2>1. CASE t = s BY <1>5, <1>6, <2>1 DEF r
    <2>2. CASE t <= s - 1
      <3>1. \/ t \in Kept \cup Failing \/ t \in job[RepoOf[t]].buf
            \/ persistent /\ chain[RepoOf[t]] > 0
        BY <1>1, <1>2, <1>10, <2>2 DEF KeptInv
      <3>2. QED BY <1>1, <1>3, <1>4, <1>5, <1>6, <3>1
    <2>3. QED BY <1>2, <1>10, <2>1, <2>2
  <1>11. /\ \A q \in Repos : job'[q].on => chain'[q] > 0
         /\ \A q \in Repos : ~job'[q].on => job'[q].buf = {}
         /\ \A q \in Repos : \A t \in job'[q].buf : t \in Of(q) /\ t <= server'.head
    BY <1>1, <1>2, <1>5, <1>6, <1>7, <1>8 DEF KeptInv
  <1>12. QED BY <1>1, <1>3, <1>9, <1>10, <1>11 DEF KeptInv

(* A job that ends reports the whole repo: all that waited for it, and all  *)
(* that the new chain claims.                                              *)
LEMMA KeptJobDone ==
  ASSUME SerialState, AheadOfCursor, KeptInv, NEW r \in Repos, JobDone(r)
  PROVE  KeptInv'
  <1> DEFINE new == Top({s \in Of(r) : s <= server.head})
             content == {s \in Of(r) : s <= new}
  <1>1. /\ UNCHANGED <<persistent, origin, server, ws, cursor, batch, perr, listening,
                       got, healed, reported>>
        /\ job[r].on /\ chain' = [chain EXCEPT ![r] = new]
        /\ job' = [job EXCEPT ![r] = Idle]
        /\ \E ok \in BOOLEAN : Send("events", [content |-> content, ok |-> ok])
        /\ atRisk' = IF listening THEN atRisk ELSE atRisk \cup content
    BY DEF JobDone, confVars, batchVars, consumerVars
  <1>2. /\ chain \in [Repos -> 0..MaxSeq] /\ MaxSeq \in Nat
        /\ job \in [Repos -> [on : BOOLEAN, buf : SUBSET Wanted]]
        /\ channel \in [events : Seq([content : SUBSET Wanted, ok : BOOLEAN]),
                        errors : Seq(SUBSET Wanted)]
        /\ \A t \in Wanted : t \in Nat /\ RepoOf[t] \in Repos
    BY ConstantTypes DEF SerialState
  <1>3. /\ new \in 0..MaxSeq
        /\ \A s \in Of(r) : s <= server.head => s <= new
        /\ new = 0 \/ (new \in Of(r) /\ new <= server.head)
    BY JobContent
  <1>4. content \in SUBSET Wanted /\ \A s \in Of(r) : s <= new => s \in content BY DEF Of
  <1> HIDE DEF new, content
  <1>5. new > 0
    <2>1. chain[r] > 0 /\ chain[r] \in Of(r) /\ chain[r] <= server.head BY <1>1 DEF KeptInv
    <2>2. QED BY <1>2, <1>3, <2>1
  <1>6. Failing' = Failing /\ Arriving \subseteq Arriving'
        /\ (listening => content \subseteq Arriving')
    <2>1. PICK ok \in BOOLEAN : Send("events", [content |-> content, ok |-> ok]) BY <1>1
    <2>2. CASE ~listening BY <2>1, <2>2 DEF Send, Failing, Arriving
    <2>3. CASE listening
      <3> DEFINE q == channel.events
                 y == [content |-> content, ok |-> ok]
                 T == [content : SUBSET Wanted, ok : BOOLEAN]
      <3>1. channel' = [channel EXCEPT !.events = Append(@, y)] BY <2>1, <2>3 DEF Send
      <3>2. channel'.events = Append(q, y) /\ channel'.errors = channel.errors BY <1>2, <3>1
      <3>3. q \in Seq(T) /\ y \in T /\ y.content = content BY <1>2, <1>4
      <3>4. \A t : t \in Arriving <=> \E i \in 1..Len(q) : t \in q[i].content BY DEF Arriving
      <3> HIDE DEF q, y, T
      <3>5. \A t : t \in Arriving' <=> \E j \in 1..Len(Append(q, y)) : t \in Append(q, y)[j].content
        BY <3>2 DEF Arriving
      <3>6. /\ \A i \in 1..Len(q) : \E j \in 1..Len(Append(q, y)) : q[i] = Append(q, y)[j]
            /\ \E j \in 1..Len(Append(q, y)) : y = Append(q, y)[j]
        BY <3>3, QueueGrows
      <3>7. ASSUME NEW t \in Arriving PROVE t \in Arriving'
        <4>1. PICK i \in 1..Len(q) : t \in q[i].content BY <3>4, <3>7
        <4>2. QED BY <3>5, <3>6, <4>1
      <3>8. content \subseteq Arriving' BY <3>3, <3>5, <3>6
      <3>9. QED BY <3>2, <3>7, <3>8 DEF Failing
    <2>4. QED BY <2>2, <2>3 DEF SerialState
  <1>7. Kept \subseteq Kept' /\ content \subseteq Kept'
    <2>1. Held' = Held BY <1>1 DEF Held
    <2>2. QED BY <1>1, <1>6, <2>1, KeptIs
  <1>8. /\ \A q \in Repos : chain'[q] = IF q = r THEN new ELSE chain[q]
        /\ \A q \in Repos : job'[q] = IF q = r THEN Idle ELSE job[q]
    BY <1>1, <1>2
  <1>9. ASSUME NEW t \in Wanted, origin' < t, t <= chain'[RepoOf[t]] PROVE t \in Kept'
    <2>1. CASE RepoOf[t] = r BY <1>2, <1>4, <1>7, <1>8, <1>9, <2>1 DEF Of
    <2>2. CASE RepoOf[t] # r BY <1>1, <1>2, <1>7, <1>8, <1>9, <2>2 DEF KeptInv
    <2>3. QED BY <2>1, <2>2
  <1>10. ASSUME NEW t \in Wanted, origin' < t, t <= ReadTo'
         PROVE  \/ t \in Kept' \cup Failing' \/ t \in job'[RepoOf[t]].buf
                \/ persistent' /\ chain'[RepoOf[t]] > 0
    <2>0. ReadTo' = ReadTo BY <1>1 DEF ReadTo
    <2>1. \/ t \in Kept \cup Failing \/ t \in job[RepoOf[t]].buf
          \/ persistent /\ chain[RepoOf[t]] > 0
      BY <1>1, <1>10, <2>0 DEF KeptInv
    <2>2. CASE t \in job[RepoOf[t]].buf /\ RepoOf[t] = r
      <3>1. t \in Of(r) /\ t <= server.head BY <2>2 DEF KeptInv
      <3>2. QED BY <1>3, <1>4, <1>7, <3>1
    <2>3. CASE ~(t \in job[RepoOf[t]].buf /\ RepoOf[t] = r)
      BY <1>1, <1>2, <1>5, <1>6, <1>7, <1>8, <2>1, <2>3
    <2>4. QED BY <2>2, <2>3
  <1>11. \A q \in Repos : chain'[q] > 0 => chain'[q] \in Of(q) /\ chain'[q] <= server'.head
    BY <1>1, <1>3, <1>5, <1>8 DEF KeptInv
  <1>12. /\ \A q \in Repos : job'[q].on => chain'[q] > 0
         /\ \A q \in Repos : ~job'[q].on => job'[q].buf = {}
         /\ \A q \in Repos : \A t \in job'[q].buf : t \in Of(q) /\ t <= server'.head
    BY <1>1, <1>8, Literals DEF KeptInv
  <1>13. \A t \in Failing' : chain'[RepoOf[t]] > 0
    <2>1. Failing \subseteq Wanted BY DEF Failing, SerialState
    <2>2. QED BY <1>2, <1>5, <1>6, <1>8, <2>1 DEF KeptInv
  <1>14. QED BY <1>9, <1>10, <1>11, <1>12, <1>13 DEF KeptInv

(* A failed job names all that waited for it, to a stream that listens, and *)
(* leaves a chain that the next commit breaks on.                          *)
LEMMA KeptJobFails ==
  ASSUME SerialState, AheadOfCursor, KeptInv, NEW r \in Repos, JobFails(r)
  PROVE  KeptInv'
  <1> DEFINE y == job[r].buf
  <1>1. /\ UNCHANGED <<persistent, origin, server, ws, cursor, batch, perr, chain, listening,
                       got, healed, reported>>
        /\ job[r].on /\ job' = [job EXCEPT ![r] = Idle] /\ Send("errors", y)
        /\ atRisk' = IF listening \/ persistent THEN atRisk ELSE atRisk \cup y
    BY DEF JobFails, confVars, batchVars, consumerVars
  <1>2. /\ job \in [Repos -> [on : BOOLEAN, buf : SUBSET Wanted]]
        /\ channel \in [events : Seq([content : SUBSET Wanted, ok : BOOLEAN]),
                        errors : Seq(SUBSET Wanted)]
        /\ \A t \in Wanted : RepoOf[t] \in Repos
    BY ConstantTypes DEF SerialState
  <1>3. /\ chain[r] > 0 /\ \A t \in y : RepoOf[t] = r
    BY <1>1 DEF KeptInv, Of
  <1>4. y \in SUBSET Wanted BY <1>2
  <1> HIDE DEF y
  <1>5. /\ Arriving' = Arriving /\ Failing \subseteq Failing' /\ Failing' \subseteq Failing \cup y
        /\ listening => y \subseteq Failing'
    <2>1. CASE ~listening BY <1>1, <2>1 DEF Send, Failing, Arriving
    <2>2. CASE listening
      <3> DEFINE q == channel.errors
                 T == SUBSET Wanted
      <3>1. channel' = [channel EXCEPT !.errors = Append(@, y)] BY <1>1, <2>2 DEF Send
      <3>2. channel'.errors = Append(q, y) /\ channel'.events = channel.events BY <1>2, <3>1
      <3>3. q \in Seq(T) /\ y \in T BY <1>2, <1>4
      <3>4. \A t : t \in Failing <=> \E i \in 1..Len(q) : t \in q[i] BY DEF Failing
      <3> HIDE DEF q, T
      <3>5. \A t : t \in Failing' <=> \E j \in 1..Len(Append(q, y)) : t \in Append(q, y)[j]
        BY <3>2 DEF Failing
      <3>6. /\ \A i \in 1..Len(q) : \E j \in 1..Len(Append(q, y)) : q[i] = Append(q, y)[j]
            /\ \E j \in 1..Len(Append(q, y)) : y = Append(q, y)[j]
            /\ \A j \in 1..Len(Append(q, y)) :
                 Append(q, y)[j] = y \/ \E i \in 1..Len(q) : q[i] = Append(q, y)[j]
        BY <3>3, QueueGrows
      <3>7. ASSUME NEW t \in Failing PROVE t \in Failing'
        <4>1. PICK i \in 1..Len(q) : t \in q[i] BY <3>4, <3>7
        <4>2. QED BY <3>5, <3>6, <4>1
      <3>8. ASSUME NEW t \in Failing' PROVE t \in Failing \cup y
        <4>1. PICK j \in 1..Len(Append(q, y)) : t \in Append(q, y)[j] BY <3>5, <3>8
        <4>2. QED BY <3>4, <3>6, <4>1
      <3>9. y \subseteq Failing' BY <3>5, <3>6
      <3>10. Arriving' = Arriving BY <3>2 DEF Arriving
      <3>11. QED BY <3>7, <3>8, <3>9, <3>10
    <2>3. QED BY <2>1, <2>2
  <1>6. Kept \subseteq Kept' /\ (persistent \/ y \subseteq Kept' \cup Failing')
    <2>1. Held' = Held BY <1>1 DEF Held
    <2>2. Kept \subseteq Kept' BY <1>1, <1>5, <2>1, KeptIs
    <2>3. CASE listening BY <1>5, <2>2, <2>3
    <2>4. CASE ~listening /\ ~persistent BY <1>1, <2>2, <2>4, KeptIs
    <2>5. QED BY <2>2, <2>3, <2>4
  <1>7. \A q \in Repos : job'[q] = IF q = r THEN Idle ELSE job[q] BY <1>1, <1>2
  <1>8. \A t \in Wanted : origin' < t /\ t <= chain'[RepoOf[t]] => t \in Kept'
    BY <1>1, <1>6 DEF KeptInv
  <1>9. ASSUME NEW t \in Wanted, origin' < t, t <= ReadTo'
        PROVE  \/ t \in Kept' \cup Failing' \/ t \in job'[RepoOf[t]].buf
               \/ persistent' /\ chain'[RepoOf[t]] > 0
    <2>0. ReadTo' = ReadTo BY <1>1 DEF ReadTo
    <2>1. \/ t \in Kept \cup Failing \/ t \in job[RepoOf[t]].buf
          \/ persistent /\ chain[RepoOf[t]] > 0
      BY <1>1, <1>9, <2>0 DEF KeptInv
    <2>2. CASE t \in job[RepoOf[t]].buf /\ RepoOf[t] = r
      <3>1. t \in y BY <2>2 DEF y
      <3>2. QED BY <1>1, <1>3, <1>6, <2>2, <3>1
    <2>3. CASE ~(t \in job[RepoOf[t]].buf /\ RepoOf[t] = r)
      BY <1>1, <1>2, <1>5, <1>6, <1>7, <2>1, <2>3
    <2>4. QED BY <2>2, <2>3
  <1>10. /\ \A q \in Repos : job'[q].on => chain'[q] > 0
         /\ \A q \in Repos : ~job'[q].on => job'[q].buf = {}
         /\ \A q \in Repos : \A t \in job'[q].buf : t \in Of(q) /\ t <= server'.head
    BY <1>1, <1>7, Literals DEF KeptInv
  <1>11. \A t \in Failing' : chain'[RepoOf[t]] > 0
    BY <1>1, <1>3, <1>5 DEF KeptInv
  <1>12. QED BY <1>1, <1>8, <1>9, <1>10, <1>11 DEF KeptInv

(* What ends with the stream or the process, and only that, is at risk. *)
LEMMA KeptRestart ==
  ASSUME SerialState, AheadOfCursor, KeptInv, Resubscribe \/ Crash
  PROVE  KeptInv'
  <1>0. /\ MaxSeq \in Nat /\ \A t \in Wanted : t \in Nat /\ t > 0 /\ RepoOf[t] \in Repos
        /\ cursor \in 0..MaxSeq /\ saved \in 0..MaxSeq /\ ReadTo \in 0..MaxSeq
        /\ persistent \in BOOLEAN
    BY ConstantTypes DEF SerialState, ReadTo
  <1>1. /\ UNCHANGED <<persistent, origin, server, got, healed, reported>>
        /\ ws' = Offline /\ channel' = [events |-> <<>>, errors |-> <<>>]
        /\ atRisk \cup Arriving \cup perr.of \subseteq atRisk'
    BY DEF Resubscribe, Crash, confVars, consumerVars, Healing
  <1>2. Failing' = {} /\ Arriving' = {} BY <1>1 DEF Failing, Arriving
  <1>3. saved <= cursor /\ cursor <= ReadTo BY DEF AheadOfCursor
  <1>4. CASE Resubscribe
    <2>1. /\ UNCHANGED <<cursor, chain, job>>
          /\ Carried(batch) \cup (IF persistent THEN {} ELSE Failing) \subseteq atRisk'
      BY <1>4 DEF Resubscribe
    <2>2. Kept \subseteq Kept' BY <1>1, <2>1 DEF Kept
    <2>3. ReadTo' = cursor BY <1>1, <2>1 DEF ReadTo, Offline
    <2>4. \A t \in Wanted : origin' < t /\ t <= chain'[RepoOf[t]] => t \in Kept'
      BY <1>1, <2>1, <2>2 DEF KeptInv
    <2>5. ASSUME NEW t \in Wanted, origin' < t, t <= ReadTo'
          PROVE  \/ t \in Kept' \cup Failing' \/ t \in job'[RepoOf[t]].buf
                 \/ persistent' /\ chain'[RepoOf[t]] > 0
      <3>1. t <= ReadTo BY <1>0, <1>3, <2>3, <2>5
      <3>2. \/ t \in Kept \cup Failing \/ t \in job[RepoOf[t]].buf
            \/ persistent /\ chain[RepoOf[t]] > 0
        BY <1>1, <2>5, <3>1 DEF KeptInv
      <3>3. CASE t \in Failing
        <4>1. chain[RepoOf[t]] > 0 BY <3>3 DEF KeptInv
        <4>2. persistent \/ t \in Kept' BY <2>1, <3>3 DEF Kept
        <4>3. QED BY <1>1, <2>1, <4>1, <4>2
      <3>4. QED BY <1>1, <2>1, <2>2, <3>2, <3>3
    <2>6. QED BY <1>1, <1>2, <2>1, <2>4, <2>5 DEF KeptInv
  <1>5. CASE Crash /\ persistent
    <2>1. /\ chain' = chain /\ job' = [r \in Repos |-> Idle] /\ cursor' = saved
          /\ Carried(batch) \subseteq atRisk'
      BY <1>5 DEF Crash
    <2>2. Kept \subseteq Kept' BY <1>1, <2>1 DEF Kept
    <2>3. ReadTo' = saved BY <1>1, <2>1 DEF ReadTo, Offline
    <2>4. \A t \in Wanted : origin' < t /\ t <= chain'[RepoOf[t]] => t \in Kept'
      BY <1>1, <2>1, <2>2 DEF KeptInv
    <2>5. ASSUME NEW t \in Wanted, origin' < t, t <= ReadTo'
          PROVE  t \in Kept' \/ chain'[RepoOf[t]] > 0
      <3>1. t <= ReadTo BY <1>0, <1>3, <2>3, <2>5
      <3>2. \/ t \in Kept \cup Failing \/ t \in job[RepoOf[t]].buf \/ chain[RepoOf[t]] > 0
        BY <1>1, <2>5, <3>1 DEF KeptInv
      <3>3. t \in Failing \/ t \in job[RepoOf[t]].buf => chain[RepoOf[t]] > 0
        BY <1>0 DEF KeptInv
      <3>4. QED BY <2>1, <2>2, <3>2, <3>3
    <2>6. \A r \in Repos : ~job'[r].on /\ job'[r].buf = {} BY <2>1, Literals
    <2>7. QED BY <1>1, <1>2, <1>5, <2>1, <2>4, <2>5, <2>6 DEF KeptInv
  <1>6. CASE Crash /\ ~persistent
    <2>1. /\ chain' = [r \in Repos |-> 0] /\ job' = [r \in Repos |-> Idle] /\ cursor' = saved
          /\ atRisk \cup Healing \cup Waiting \subseteq atRisk'
      BY <1>6 DEF Crash
    <2>2. ReadTo' = saved BY <1>1, <2>1 DEF ReadTo, Offline
    <2>3. ASSUME NEW t \in Wanted, origin' < t, t <= ReadTo' PROVE t \in Kept'
      <3>1. t <= ReadTo /\ t <= cursor BY <1>0, <1>3, <2>2, <2>3
      <3>2. t \in Kept \cup Failing \/ t \in job[RepoOf[t]].buf
        BY <1>1, <1>6, <2>3, <3>1 DEF KeptInv
      <3>3. CASE t \in Failing \/ t \in job[RepoOf[t]].buf
        <4>1. t \in Waiting BY <1>0, <3>3 DEF Waiting
        <4>2. QED BY <2>1, <4>1 DEF Kept
      <3>4. CASE t \in Carried(batch)
        <4>1. PICK x \in Items(batch) : t \in x.content BY <3>4 DEF Carried
        <4>2. CASE x.seq = 0
          <5>1. t \in Healing BY <4>1, <4>2 DEF Healing
          <5>2. QED BY <2>1, <5>1 DEF Kept
        <4>3. CASE x.seq # 0
          <5>1. t = x.seq BY <4>1, <4>3, ItemsAre DEF SerialState
          <5>2. cursor < x.seq BY <4>3 DEF AheadOfCursor
          <5>3. QED BY <1>0, <3>1, <5>1, <5>2
        <4>4. QED BY <4>2, <4>3
      <3>5. CASE t \in got \cup healed \cup reported \cup Arriving \cup perr.of \cup atRisk
        BY <1>1, <3>5 DEF Kept
      <3>6. QED BY <3>2, <3>3, <3>4, <3>5 DEF Kept
    <2>4. \A r \in Repos : ~job'[r].on /\ job'[r].buf = {} BY <2>1, Literals
    <2>5. \A r \in Repos : chain'[r] = 0 /\ ~(chain'[r] > 0) BY <2>1
    <2>6. \A t \in Wanted : ~(t <= chain'[RepoOf[t]]) BY <1>0, <2>5
    <2>7. QED BY <1>1, <1>2, <2>3, <2>4, <2>5, <2>6 DEF KeptInv
  <1>7. QED BY <1>4, <1>5, <1>6

LEMMA KeptStep ==
  ASSUME SerialState, AheadOfCursor, KeptInv, [SerialNext]_vars
  PROVE  KeptInv'
  <1>1. CASE \/ Publish \/ Trim \/ Save \/ UNCHANGED vars
             \/ YieldPending \/ Timer \/ Closed \/ Broken \/ Connect
             \/ ConnectFails \/ TakeError \/ TakeResync
    BY <1>1, KeptUndisturbed
  <1>2. CASE Crash \/ Resubscribe BY <1>2, KeptRestart
  <1>3. ASSUME NEW s \in Seqs, FrameStep(s) PROVE KeptInv'
    <2>1. CASE VerifiedFrame(s) BY <2>1, KeptVerified
    <2>2. CASE QueuedFrame(s) BY <2>2, KeptQueued
    <2>3. CASE SkipFrame(s) \/ PlainFrame(s) \/ BadFrame(s) \/ RefusedFrame(s) \/ ReplayedFrame(s)
      BY <2>3, KeptFrames
    <2>4. QED BY <1>3, <2>1, <2>2, <2>3 DEF FrameStep
  <1>4. ASSUME NEW r \in Repos, JobDone(r) \/ JobFails(r) PROVE KeptInv'
    BY <1>4, KeptJobDone, KeptJobFails
  <1>5. QED BY <1>1, <1>2, <1>3, <1>4 DEF SerialNext, PollStep

(* What the inductive invariant says to the consumer. *)
LEMMA KeptBoundsLoss ==
  ASSUME SerialState, AheadOfCursor, KeptInv
  PROVE  SerialInv
  <1>1. SerialTypeOK
    <2>1. MaxSeq \in Nat /\ ReadTo \in 0..MaxSeq BY ConstantTypes DEF SerialState, ReadTo
    <2>2. cursor <= server.head /\ saved <= server.head
      BY <2>1 DEF SerialState, AheadOfCursor
    <2>3. \A x \in Items(batch) : x.seq \in Seqs \cup {0} /\ x.content \subseteq Seqs
      BY ItemsAre, ConstantTypes DEF SerialState
    <2>4. ws.at \in 0..MaxSeq /\ cursor \in 0..server.head /\ saved \in 0..server.head
      BY <2>1, <2>2 DEF SerialState
    <2>5. QED BY <2>3, <2>4 DEF SerialState, SerialTypeOK
  <1>2. LossIsBounded
    <2> SUFFICES ASSUME NEW s \in Lost PROVE s \in atRisk
      BY DEF LossIsBounded
    <2>1. s \in Wanted /\ origin < s /\ chain[RepoOf[s]] >= s BY DEF Lost
    <2>2. s <= chain[RepoOf[s]] BY <2>1, ConstantTypes DEF SerialState
    <2>3. s \in Kept BY <2>1, <2>2 DEF KeptInv
    <2>4. s \notin got \cup healed \cup reported \cup Carried(batch) \cup Arriving \cup perr.of
      BY DEF Lost, Healing, Waiting
    <2>5. QED BY <2>3, <2>4 DEF Kept
  <1>3. QED BY <1>1, <1>2 DEF SerialInv

(* Every event the cursor passed and no later commit would fetch reached    *)
(* the consumer, is on its way, or was in memory only when a stream or the  *)
(* process ended; and the state has its type, with a batch that never      *)
(* outgrows batch_size (verify_raw_event, take_resync_event, the verifier's *)
(* store).                                                                 *)
THEOREM SerialLossBounded == SerialSpec => []SerialInv
  <1>1. SerialInit => SerialState /\ AheadOfCursor /\ KeptInv BY SerialStarts, KeptStarts
  <1>2. SerialState /\ AheadOfCursor /\ KeptInv /\ [SerialNext]_vars
          => (SerialState /\ AheadOfCursor /\ KeptInv)'
    BY SerialStep, KeptStep
  <1>3. SerialState /\ AheadOfCursor /\ KeptInv => SerialInv BY KeptBoundsLoss
  <1>4. QED BY <1>1, <1>2, <1>3, PTL DEF SerialSpec

=============================================================================
