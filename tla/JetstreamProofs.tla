--------------------------- MODULE JetstreamProofs ---------------------------
(***************************************************************************)
(* Proofs about the Jetstream v2 engine: that it implements OrderedFeed,   *)
(* that its published cursors and the seam between archive and live tail   *)
(* cover nothing that was not delivered, pending or given up, and that it  *)
(* stops cleanly, for every number of events, segment, chunk, batch and    *)
(* page size, and every number of faults and restarts.                     *)
(***************************************************************************)
EXTENDS JetstreamEngine, TLAPS, SequenceTheorems, FiniteSetTheorems, WellFoundedInduction

-----------------------------------------------------------------------------
(* The inductive invariant. *)

Phases == {"top", "plan", "page", "entry", "rows", "cutover", "live", "ended"}
Results == {"none", "ok", "fatal", "no_progress"}
EntryOK == [idx : Nat, lo : Nat \ {0}, hi : Nat, whole : BOOLEAN]

(* The types, those of eng and page included. *)
EngineState ==
  /\ LiveTypeOK
  /\ mode \in {"live", "both", "snapshot"} /\ mode \in Modes
  /\ origin \in 0..MaxSeq /\ saved \in 0..MaxSeq /\ crashes \in 0..MaxCrashes
  /\ eng \in [phase : Phases, after : 0..MaxSeq, prev : (0..MaxSeq) \X (0..MaxSeq) \X (0..MaxSeq),
              stalls : 0..MaxStalls, result : Results]
  /\ sweep \in [tip : 0..NoTip, through : 0..MaxSeq, index : Nat, pages : 0..MaxPages,
                floor : 0..MaxSeq, after : 0..MaxSeq]
  /\ page \in [entries : Seq(EntryOK), entry : EntryOK, rows : SUBSET Wanted]
  /\ buf \in Seq(Wanted) /\ Len(buf) < MaxBatch
  /\ batch \in Seq(Wanted)
  /\ owed \subseteq Wanted /\ forgotten \subseteq Wanted
  /\ consumer.got \subseteq Wanted /\ consumer.lost \subseteq Wanted

(* Handed over in this life of the consumer, or given up. *)
Handled(s) == s <= consumer.mark \/ s \in Excused

(* Every wanted event up to n is handled, or in X, which waits. *)
Upto(n, X) == \A s \in Wanted : origin < s /\ s <= n => Handled(s) \/ s \in X

(* The same within the sweep. *)
UptoTip(n, X) == \A s \in Wanted : origin < s /\ s <= n /\ s <= sweep.tip => Handled(s) \/ s \in X

(* A batch that waits: above the cursor, and its last event is its highest. *)
Waits(b) == \A i \in 1..Len(b) : consumer.mark < b[i] /\ b[i] <= Last(b)

InTail == eng.phase = "live"
InRead == eng.phase = "live" /\ tail.pc = "read"

(* What the consumer holds, and what it may conclude from its cursors. *)
ConsumerInv ==
  /\ origin <= consumer.mark /\ origin <= saved
  /\ stats.processed = consumer.mark
  /\ ~consumer.late
  /\ consumer.gone => \/ eng.phase = "ended"
                      \/ InTail /\ tail.pc = "done" /\ tail.outcome = "stopped"
  /\ \A s \in Wanted : origin < s /\ (s <= consumer.mark \/ s <= saved) => Accounted(s)

(* The live tail: its batch, its high-water mark and its connection. *)
TailInv ==
  /\ ~InRead => batch = <<>>
  /\ Waits(batch)
  /\ batch # <<>> => Last(batch) < tail.next /\ Last(batch) <= tail.last
  /\ InTail => consumer.mark <= tail.last
  /\ InTail => Upto(tail.last, ToSet(batch))
  /\ InRead => Upto(tail.next - 1, ToSet(batch))
  /\ Upto(seen, ToSet(batch))

(* The archive's floors, and the batch of replay_page. *)
FloorInv ==
  /\ buf # <<>> => eng.phase = "rows" \/ (eng.phase = "ended" /\ eng.result = "fatal")
  /\ Waits(buf)
  /\ buf # <<>> => Last(buf) <= sweep.floor
  /\ eng.phase \in {"plan", "page", "entry", "rows"} =>
       consumer.mark <= sweep.floor /\ mode # "live"
  /\ eng.phase = "top" \/ (eng.phase = "cutover" /\ mode = "live") => consumer.mark <= eng.after
  /\ Upto(sweep.floor, ToSet(buf))
  /\ Upto(eng.after, {})
  /\ Upto(stats.through, {})

(* The sealed tip is covered, but for the sweep under way. *)
TipInv ==
  /\ eng.phase \in {"top", "cutover", "live"} => Upto(stats.tip, {})
  /\ eng.phase \in {"plan", "page", "entry", "rows"} =>
       \A s \in Wanted : origin < s /\ s <= stats.tip =>
         Handled(s) \/ (sweep.tip # NoTip /\ s <= sweep.tip)

(* Entries follow each other without a gap. *)
Chained(E) == \A i \in 1..Len(E) - 1 : E[i + 1].lo <= E[i].hi + 1

(* What is left of a page after n, gapless to its end. *)
Reaches(E, n) ==
  /\ Chained(E) /\ sweep.through <= sweep.tip
  /\ E = <<>> => sweep.through <= n
  /\ E # <<>> => E[1].lo <= n + 1 /\ sweep.through <= E[Len(E)].hi

(* The sweep: all up to where it stands is handled, waits or is a row. A page *)
(* without entries is covered.                                               *)
SweepInv ==
  /\ eng.phase = "plan" => Upto(sweep.through, {})
  /\ eng.phase \in {"page", "entry", "rows"} => Upto(sweep.after, {})
  /\ eng.phase = "page" =>
       IF page.entries = <<>> THEN Upto(sweep.through, {})
       ELSE /\ UptoTip(page.entries[1].lo - 1, {})
            /\ Reaches(page.entries, page.entries[1].lo - 1)
  /\ eng.phase \in {"entry", "rows"} =>
       /\ Reaches(page.entries, page.entry.hi)
       /\ UptoTip(page.entry.lo - 1, ToSet(buf) \cup page.rows)
       /\ \A s \in page.rows : s < page.entry.lo /\ s <= sweep.tip
  /\ eng.phase \in {"page", "entry"} => page.rows = {}

InductiveInv == EngineState /\ ConsumerInv /\ TailInv /\ FloorInv /\ TipInv /\ SweepInv

-----------------------------------------------------------------------------
(* Numbers and sequences. *)

LEMMA Numbers ==
  /\ MaxSeq \in Nat
  /\ \A s \in Wanted : s \in Nat /\ s \in Seqs /\ s \in 0..MaxSeq /\ 1 <= s /\ s <= MaxSeq
  /\ MaxBatch \in Nat /\ MaxBatch > 0 /\ SegSize \in Nat /\ SegSize > 0
  /\ MaxStalls \in Nat /\ MaxStalls > 0 /\ MaxPages \in Nat /\ MaxPages > 0
  /\ BeforeSeq \in 1..MaxSeq /\ NoTip = MaxSeq + 1
  BY LiveAssumption, EngineAssumption DEF Seqs, NoTip

LEMMA Max2Is ==
  ASSUME NEW a \in Nat, NEW b \in Nat
  PROVE  Max2(a, b) \in {a, b} /\ Max2(a, b) \in Nat /\ a <= Max2(a, b) /\ b <= Max2(a, b)
  BY DEF Max2

(* The events of a sequence. *)
LEMMA Events ==
  ASSUME NEW S, NEW b \in Seq(S)
  PROVE  /\ ToSet(b) \subseteq S
         /\ \A i \in 1..Len(b) : b[i] \in ToSet(b)
         /\ \A x \in ToSet(b) : \E i \in 1..Len(b) : b[i] = x
         /\ b # <<>> => Len(b) \in 1..Len(b) /\ Last(b) \in ToSet(b) /\ Last(b) \in S
         /\ ToSet(<<>>) = {}
  BY DEF ToSet, Last

LEMMA Appending ==
  ASSUME NEW S, NEW b \in Seq(S), NEW x \in S
  PROVE  /\ Append(b, x) \in Seq(S) /\ Append(b, x) # <<>> /\ Len(Append(b, x)) = Len(b) + 1
         /\ ToSet(Append(b, x)) = ToSet(b) \cup {x} /\ Last(Append(b, x)) = x
         /\ \A i \in 1..Len(b) + 1 : Append(b, x)[i] = IF i = Len(b) + 1 THEN x ELSE b[i]
  <1>1. /\ Append(b, x) \in Seq(S) /\ Append(b, x) # <<>> /\ Len(Append(b, x)) = Len(b) + 1
        /\ \A i \in 1..Len(b) + 1 : Append(b, x)[i] = IF i = Len(b) + 1 THEN x ELSE b[i]
    BY AppendProperties
  <1>2. Last(Append(b, x)) = x BY <1>1 DEF Last
  <1>3. ToSet(Append(b, x)) = ToSet(b) \cup {x}
    <2>1. DOMAIN Append(b, x) = 1..Len(b) + 1 /\ DOMAIN b = 1..Len(b) /\ Len(b) \in Nat BY <1>1
    <2>2. \A y \in ToSet(Append(b, x)) : y \in ToSet(b) \cup {x}
      BY <1>1, <2>1 DEF ToSet
    <2>3. \A y \in ToSet(b) : y \in ToSet(Append(b, x))
      <3> SUFFICES ASSUME NEW i \in 1..Len(b) PROVE b[i] \in ToSet(Append(b, x))
        BY <2>1 DEF ToSet
      <3>1. i \in 1..Len(b) + 1 /\ Append(b, x)[i] = b[i] BY <1>1, <2>1
      <3>2. QED BY <2>1, <3>1 DEF ToSet
    <2>4. x \in ToSet(Append(b, x))
      <3>1. Len(b) + 1 \in 1..Len(b) + 1 /\ Append(b, x)[Len(b) + 1] = x BY <1>1, <2>1
      <3>2. QED BY <2>1, <3>1 DEF ToSet
    <2>5. QED BY <2>2, <2>3, <2>4
  <1>4. QED BY <1>1, <1>2, <1>3

LEMMA HeadTail ==
  ASSUME NEW S, NEW E \in Seq(S), E # <<>>
  PROVE  /\ Head(E) = E[1] /\ E[1] \in S /\ Tail(E) \in Seq(S) /\ Len(Tail(E)) = Len(E) - 1
         /\ \A i \in 1..Len(E) - 1 : Tail(E)[i] = E[i + 1]
         /\ Tail(E) = <<>> <=> Len(E) = 1
         /\ Len(E) \in Nat /\ Len(E) >= 1
  <1>1. Len(E) \in Nat /\ Len(E) >= 1 /\ Head(E) = E[1] /\ E[1] \in S OBVIOUS
  <1>2. /\ Tail(E) \in Seq(S) /\ Len(Tail(E)) = Len(E) - 1
        /\ \A i \in 1..Len(Tail(E)) : Tail(E)[i] = E[i + 1]
    BY HeadTailProperties
  <1>3. \A T \in Seq(S) : T = <<>> <=> Len(T) = 0 OBVIOUS
  <1>4. QED BY <1>1, <1>2, <1>3

(* Products. *)
LEMMA Scaled ==
  ASSUME NEW i \in Nat, NEW j \in Nat, i < j
  PROVE  /\ i * SegSize \in Nat /\ j * SegSize \in Nat /\ (i + 1) * SegSize = i * SegSize + SegSize
         /\ (i + 1) * SegSize <= j * SegSize
  BY Numbers

(* The segment of an event. *)
LEMMA Segment ==
  ASSUME NEW s \in Nat, s >= 1
  PROVE  /\ SegIndex(s) \in Nat /\ SegIndex(s) >= 1
         /\ (SegIndex(s) - 1) * SegSize < s /\ s <= SegIndex(s) * SegSize
  BY Numbers DEF SegIndex

(* The plan of a page over (a, t] covers it without a gap, in the order of  *)
(* the segments.                                                            *)
LEMMA EntriesCover ==
  ASSUME NEW a \in Nat, NEW t \in Nat, a < t, NEW w \in BOOLEAN
  PROVE  /\ Entries(a, t, w) \in Seq(EntryOK) /\ Len(Entries(a, t, w)) \in Nat
         /\ Len(Entries(a, t, w)) >= 1 /\ Entries(a, t, w) # <<>>
         /\ Chained(Entries(a, t, w))
         /\ Entries(a, t, w)[1].lo <= a + 1
         /\ t <= Entries(a, t, w)[Len(Entries(a, t, w))].hi
         /\ \A k \in 1..Len(Entries(a, t, w)) - 1 :
              Entries(a, t, w)[k].idx < Entries(a, t, w)[k + 1].idx
  <1> DEFINE first == SegIndex(a + 1)
             last == SegIndex(t)
             E == Entries(a, t, w)
             n == last - first + 1
  <1>1. /\ first \in Nat /\ first >= 1 /\ (first - 1) * SegSize < a + 1 /\ a + 1 <= first * SegSize
        /\ last \in Nat /\ last >= 1 /\ (last - 1) * SegSize < t /\ t <= last * SegSize
    BY Segment
  <1> HIDE DEF first, last
  <1>2. first <= last
    <2> SUFFICES ASSUME last < first PROVE FALSE BY <1>1
    <2>1. last <= first - 1 /\ first - 1 \in Nat BY <1>1
    <2>2. last * SegSize <= (first - 1) * SegSize
      <3>1. CASE last = first - 1 BY <3>1, <1>1, Numbers
      <3>2. CASE last < first - 1
        <4>1. (last + 1) * SegSize <= (first - 1) * SegSize
              /\ (last + 1) * SegSize = last * SegSize + SegSize /\ last * SegSize \in Nat
              /\ (first - 1) * SegSize \in Nat
          BY <3>2, <2>1, <1>1, Scaled
        <4>2. QED BY <4>1, Numbers
      <3>3. QED BY <2>1, <3>1, <3>2, <1>1
    <2>3. last * SegSize \in Nat /\ (first - 1) * SegSize \in Nat BY <1>1, <2>1, Numbers
    <2>4. QED BY <1>1, <2>2, <2>3
  <1>3. E = [k \in 1..n |-> Entry(first + k - 1, a, t, w)] /\ n \in Nat /\ n >= 1
    BY <1>1, <1>2 DEF Entries, first, last
  <1>4. ASSUME NEW i \in Nat, first <= i, i <= last
        PROVE  /\ Entry(i, a, t, w) \in EntryOK /\ Entry(i, a, t, w).idx = i
               /\ i * SegSize \in Nat /\ (i - 1) * SegSize \in Nat
               /\ Entry(i, a, t, w).lo <= (i - 1) * SegSize + 1 \/ Entry(i, a, t, w).lo <= a + 1
               /\ Entry(i, a, t, w).hi >= t \/ Entry(i, a, t, w).hi >= i * SegSize
    <2>1. i - 1 \in Nat /\ i * SegSize \in Nat /\ (i - 1) * SegSize \in Nat BY <1>1, <1>4, Numbers
    <2> DEFINE x == i * SegSize
               y == (i - 1) * SegSize
    <2>2. x \in Nat /\ y \in Nat BY <2>1
    <2>3. Entry(i, a, t, w) = [idx |-> i, lo |-> IF w THEN y + 1 ELSE Max2(y + 1, a + 1),
                               hi |-> IF w \/ x < t THEN x ELSE t, whole |-> w]
      BY DEF Entry
    <2> HIDE DEF x, y
    <2>4. Max2(y + 1, a + 1) \in {y + 1, a + 1} BY <2>2, Max2Is
    <2>5. /\ Entry(i, a, t, w) \in EntryOK /\ Entry(i, a, t, w).idx = i
          /\ Entry(i, a, t, w).lo <= y + 1 \/ Entry(i, a, t, w).lo <= a + 1
          /\ Entry(i, a, t, w).hi >= t \/ Entry(i, a, t, w).hi >= x
      BY <2>2, <2>3, <2>4 DEF EntryOK
    <2>6. QED BY <2>1, <2>5 DEF x, y
  <1>5. \A k \in 1..n : first + k - 1 \in Nat /\ first <= first + k - 1 /\ first + k - 1 <= last
    BY <1>1, <1>2
  <1>6. E \in Seq(EntryOK) /\ Len(E) = n /\ \A k \in 1..n : E[k] = Entry(first + k - 1, a, t, w)
    <2>1. \A k \in 1..n : Entry(first + k - 1, a, t, w) \in EntryOK BY <1>4, <1>5
    <2> HIDE DEF n, E
    <2>2. QED BY <1>3, <2>1
  <1> HIDE DEF n, E
  <1>7. Chained(E)
    <2> SUFFICES ASSUME NEW k \in 1..Len(E) - 1 PROVE E[k + 1].lo <= E[k].hi + 1
      BY DEF Chained
    <2> DEFINE i == first + k - 1
    <2>1. /\ k \in 1..n /\ k + 1 \in 1..n /\ i \in Nat /\ first <= i /\ i < last
          /\ E[k] = Entry(i, a, t, w) /\ E[k + 1] = Entry(i + 1, a, t, w)
      <3>1. k \in Nat /\ k >= 1 /\ k + 1 <= n BY <1>3, <1>6
      <3>2. k \in 1..n /\ k + 1 \in 1..n BY <3>1, <1>3
      <3>3. i \in Nat /\ first <= i /\ i < last BY <3>1, <1>1 DEF n
      <3>4. first + (k + 1) - 1 = i + 1 BY <3>1, <1>1
      <3>5. QED BY <1>6, <3>2, <3>3, <3>4
    <2> HIDE DEF i
    <2>2. i + 1 \in Nat /\ first <= i + 1 /\ i + 1 <= last /\ (i + 1) - 1 = i /\ i <= last
      BY <1>1, <2>1
    <2>3. /\ E[k] \in EntryOK /\ E[k + 1] \in EntryOK
          /\ i * SegSize \in Nat
          /\ E[k + 1].lo <= i * SegSize + 1 \/ E[k + 1].lo <= a + 1
          /\ E[k].hi >= t \/ E[k].hi >= i * SegSize
      BY <1>4, <2>1, <2>2
    <2>4. i * SegSize < t
      <3>1. CASE i = last - 1 BY <1>1, <3>1
      <3>2. CASE i < last - 1
        <4>1. last - 1 \in Nat BY <1>1
        <4>2. (i + 1) * SegSize <= (last - 1) * SegSize /\ (i + 1) * SegSize = i * SegSize + SegSize
              /\ (last - 1) * SegSize \in Nat
          BY <2>1, <3>2, <4>1, Scaled
        <4>3. QED BY <1>1, <2>3, <4>2, Numbers
      <3>3. QED BY <1>1, <2>1, <3>1, <3>2
    <2>5. a + 1 <= i * SegSize
      <3>1. CASE i = first BY <1>1, <3>1
      <3>2. CASE first < i
        <4>1. (first + 1) * SegSize <= i * SegSize
              /\ (first + 1) * SegSize = first * SegSize + SegSize /\ first * SegSize \in Nat
          BY <1>1, <2>1, <3>2, Scaled
        <4>2. QED BY <1>1, <2>3, <4>1, Numbers
      <3>3. QED BY <1>1, <2>1, <3>1, <3>2
    <2>6. QED BY <2>3, <2>4, <2>5 DEF EntryOK
  <1>8. E[1].lo <= a + 1
    <2>1. 1 \in 1..n /\ first + 1 - 1 = first BY <1>1, <1>3
    <2>2. E[1] = Entry(first, a, t, w) BY <1>6, <2>1
    <2>3. QED BY <1>1, <1>2, <1>4, <2>2 DEF EntryOK
  <1>9. t <= E[Len(E)].hi
    <2>1. n \in 1..n /\ first + n - 1 = last BY <1>1, <1>3 DEF n
    <2>2. E[Len(E)] = Entry(last, a, t, w) BY <1>6, <2>1
    <2>3. QED BY <1>1, <1>2, <1>4, <2>2 DEF EntryOK
  <1>10. \A k \in 1..Len(E) - 1 : E[k].idx < E[k + 1].idx
    <2> SUFFICES ASSUME NEW k \in 1..Len(E) - 1 PROVE E[k].idx < E[k + 1].idx
      OBVIOUS
    <2>1. k \in 1..n /\ k + 1 \in 1..n /\ k \in Nat /\ k + 1 \in Nat BY <1>3, <1>6
    <2>2. E[k].idx = first + k - 1 BY <1>4, <1>5, <1>6, <2>1
    <2>3. E[k + 1].idx = first + (k + 1) - 1 BY <1>4, <1>5, <1>6, <2>1
    <2>4. QED BY <1>1, <2>1, <2>2, <2>3
  <1>11. E # <<>> BY <1>3, <1>6
  <1>12. QED BY <1>3, <1>6, <1>7, <1>8, <1>9, <1>10, <1>11 DEF E

(* A page of the plan as it may be absorbed: nothing to do, or entries that *)
(* take up after a and reach the end of the page.                           *)
PageOK(a, p) ==
  /\ p.tip \in 0..MaxSeq /\ p.through \in 0..MaxSeq /\ p.entries \in Seq(EntryOK)
  /\ \/ p.entries = <<>> /\ p.through <= a
     \/ /\ p.entries # <<>> /\ a < p.through /\ p.through <= p.tip /\ Chained(p.entries)
        /\ p.entries[1].lo <= a + 1 /\ p.through <= p.entries[Len(p.entries)].hi

LEMMA NothingPlanned ==
  ASSUME NEW a \in Nat, NEW t \in Nat, t <= a, NEW w \in BOOLEAN
  PROVE  Entries(a, t, w) = <<>>
  BY DEF Entries

(* An honest page. *)
LEMMA HonestPage ==
  ASSUME NEW a \in Nat, NEW tip \in 0..MaxSeq, NEW t \in 0..tip, NEW w \in BOOLEAN, NEW bad
  PROVE  PageOK(a, Answer(tip, t, Entries(a, t, w), bad))
  <1>0. MaxSeq \in Nat /\ tip \in Nat /\ t \in Nat /\ t \in 0..MaxSeq /\ t <= tip BY Numbers
  <1> DEFINE E == Entries(a, t, w)
  <1>1. CASE t <= a
    <2>1. E = <<>> BY <1>0, <1>1, NothingPlanned
    <2>2. QED BY <1>0, <1>1, <2>1 DEF PageOK, Answer
  <1>2. CASE a < t
    <2>1. E \in Seq(EntryOK) /\ E # <<>> /\ Chained(E) /\ E[1].lo <= a + 1 /\ t <= E[Len(E)].hi
      BY <1>0, <1>2, EntriesCover
    <2> HIDE DEF E
    <2>2. PageOK(a, Answer(tip, t, E, bad)) BY <1>0, <1>2, <2>1 DEF PageOK, Answer
    <2>3. QED BY <2>2 DEF E
  <1>3. QED BY <1>0, <1>1, <1>2

(* Entries that take up after a and reach t. *)
Covers(E, a, t) ==
  /\ E \in Seq(EntryOK) /\ E # <<>> /\ Chained(E) /\ Len(E) \in Nat /\ Len(E) >= 1
  /\ E[1].lo <= a + 1 /\ t <= E[Len(E)].hi

(* Entries twice over still leave no gap. *)
LEMMA Doubled ==
  ASSUME NEW a \in Nat, NEW t \in Nat, a < t, NEW E, Covers(E, a, t)
  PROVE  Covers(E \o E, a, t)
  <1> DEFINE D == E \o E
  <1>1. /\ E \in Seq(EntryOK) /\ E # <<>> /\ Chained(E) /\ E[1].lo <= a + 1 /\ t <= E[Len(E)].hi
        /\ Len(E) \in Nat /\ Len(E) >= 1
    BY DEF Covers
  <1>2. /\ D \in Seq(EntryOK) /\ Len(D) = Len(E) + Len(E)
        /\ \A i \in 1..Len(E) + Len(E) : D[i] = IF i <= Len(E) THEN E[i] ELSE E[i - Len(E)]
    BY <1>1, ConcatProperties
  <1> HIDE DEF D
  <1>3. D # <<>> BY <1>1, <1>2
  <1>4. D[1] = E[1] /\ D[Len(D)] = E[Len(E)]
    <2>1. 1 \in 1..Len(E) + Len(E) /\ Len(D) \in 1..Len(E) + Len(E) BY <1>1, <1>2
    <2>2. ~(Len(D) <= Len(E)) /\ Len(D) - Len(E) = Len(E) BY <1>1, <1>2
    <2>3. QED BY <1>1, <1>2, <2>1, <2>2
  <1>5. Chained(D)
    <2> SUFFICES ASSUME NEW i \in 1..Len(D) - 1 PROVE D[i + 1].lo <= D[i].hi + 1
      BY DEF Chained
    <2>0. /\ i \in 1..Len(E) + Len(E) /\ i + 1 \in 1..Len(E) + Len(E)
          /\ i \in Nat /\ i - Len(E) \in Int /\ i >= 1 /\ i + 1 <= Len(E) + Len(E)
      BY <1>1, <1>2
    <2>1. CASE i + 1 <= Len(E)
      <3>1. D[i + 1] = E[i + 1] /\ D[i] = E[i] /\ i \in 1..Len(E) - 1 BY <1>1, <1>2, <2>0, <2>1
      <3>2. QED BY <1>1, <3>1 DEF Chained
    <2>2. CASE i = Len(E)
      <3>1. i + 1 - Len(E) = 1 BY <2>0, <2>2, <1>1
      <3>2. D[i] = E[i] /\ D[i + 1] = E[1] BY <1>1, <1>2, <2>0, <2>2, <3>1
      <3>3. E[1] \in EntryOK /\ E[Len(E)] \in EntryOK BY <1>1
      <3>4. QED BY <1>1, <2>2, <3>2, <3>3 DEF EntryOK
    <2>3. CASE i > Len(E)
      <3> DEFINE j == i - Len(E)
      <3>1. j \in 1..Len(E) - 1 /\ i + 1 - Len(E) = j + 1 BY <1>1, <2>0, <2>3
      <3>2. ~(i <= Len(E)) /\ ~(i + 1 <= Len(E)) BY <1>1, <2>0, <2>3
      <3>3. D[i] = E[j] /\ D[i + 1] = E[j + 1] BY <1>2, <2>0, <3>1, <3>2
      <3> HIDE DEF j
      <3>4. QED BY <1>1, <3>1, <3>3 DEF Chained
    <2>4. QED BY <1>1, <2>0, <2>1, <2>2, <2>3
  <1>6. Len(D) \in Nat /\ Len(D) >= 1 BY <1>1, <1>2
  <1>7. Covers(D, a, t) BY <1>1, <1>2, <1>3, <1>4, <1>5, <1>6 DEF Covers
  <1>8. QED BY <1>7 DEF D

(* Entries in reverse have decreasing indices, unless there is only one. *)
LEMMA Reversed ==
  ASSUME NEW a \in Nat, NEW t \in Nat, NEW E, Covers(E, a, t),
         \A k \in 1..Len(E) - 1 : E[k].idx < E[k + 1].idx, NEW x,
         LET idxs == <<x>> \o [i \in DOMAIN Reverse(E) |-> Reverse(E)[i].idx]
         IN \A i \in 1..Len(idxs) - 1 : ~(idxs[i + 1] < idxs[i])
  PROVE  Covers(Reverse(E), a, t)
  <1> DEFINE R == Reverse(E)
  <1>1. /\ E \in Seq(EntryOK) /\ E # <<>> /\ Chained(E) /\ E[1].lo <= a + 1 /\ t <= E[Len(E)].hi
        /\ Len(E) \in Nat /\ Len(E) >= 1
    BY DEF Covers
  <1>2. /\ R \in Seq(EntryOK) /\ Len(R) = Len(E)
        /\ \A i \in 1..Len(E) : R[i] = E[Len(E) - i + 1]
    <2>1. \A i \in 1..Len(E) : Len(E) - i + 1 \in 1..Len(E) BY <1>1
    <2>2. \A i \in 1..Len(E) : E[Len(E) - i + 1] \in EntryOK BY <1>1, <2>1
    <2>3. R = [i \in 1..Len(E) |-> E[(Len(E) - i) + 1]] BY DEF Reverse
    <2> HIDE DEF R
    <2>4. QED BY <1>1, <2>2, <2>3
  <1> DEFINE I == [i \in DOMAIN R |-> R[i].idx]
             idxs == <<x>> \o I
  <1>3. \A i \in 1..Len(idxs) - 1 : ~(idxs[i + 1] < idxs[i]) OBVIOUS
  <1> HIDE DEF R
  <1>4. Len(E) = 1
    <2> SUFFICES ASSUME Len(E) # 1 PROVE FALSE OBVIOUS
    <2>0. Len(E) >= 2 BY <1>1
    <2>1. DOMAIN R = 1..Len(E) /\ \A i \in 1..Len(E) : R[i].idx \in Nat
      <3>1. \A i \in 1..Len(E) : R[i] \in EntryOK BY <1>2
      <3>2. DOMAIN R = 1..Len(E) BY <1>2
      <3>3. QED BY <3>1, <3>2 DEF EntryOK
    <2>2. Len(I) = Len(E) /\ I[1] = R[1].idx /\ I[2] = R[2].idx /\ I \in Seq(Nat)
      BY <1>1, <2>0, <2>1
    <2> HIDE DEF I
    <2>3. Len(idxs) = Len(E) + 1 /\ idxs[2] = I[1] /\ idxs[3] = I[2]
      BY <1>1, <2>0, <2>2
    <2> HIDE DEF idxs
    <2>4. R[1] = E[Len(E)] /\ R[2] = E[Len(E) - 1]
      <3>1. 1 \in 1..Len(E) /\ 2 \in 1..Len(E) BY <1>1, <2>0
      <3>2. Len(E) - 1 + 1 = Len(E) /\ Len(E) - 2 + 1 = Len(E) - 1 BY <1>1
      <3>3. QED BY <1>2, <3>1, <3>2
    <2>5. E[Len(E) - 1].idx < E[Len(E)].idx
      <3>1. Len(E) - 1 \in 1..Len(E) - 1 /\ (Len(E) - 1) + 1 = Len(E) BY <1>1, <2>0
      <3>2. QED BY <3>1
    <2>6. 2 \in 1..Len(idxs) - 1 /\ 2 + 1 = 3 BY <1>1, <2>0, <2>3
    <2>7. ~(idxs[3] < idxs[2]) BY <1>3, <2>6
    <2>8. QED BY <2>2, <2>3, <2>4, <2>5, <2>7
  <1>5. R[1] = E[1] /\ R[Len(R)] = E[Len(E)] /\ R # <<>> BY <1>1, <1>2, <1>4
  <1>6. Chained(R) BY <1>2, <1>4 DEF Chained
  <1>7. Covers(R, a, t) BY <1>1, <1>2, <1>5, <1>6 DEF Covers
  <1>8. QED BY <1>7 DEF R

(* A page made of such entries. *)
LEMMA CoveringPage ==
  ASSUME NEW a \in Nat, NEW t \in 0..MaxSeq, NEW E, NEW bad, a < t, Covers(E, a, t)
  PROVE  PageOK(a, Answer(t, t, E, bad))
  BY Numbers DEF PageOK, Answer, Covers

LEMMA EmptyPage ==
  ASSUME NEW a \in Nat, NEW tip \in 0..MaxSeq, NEW t \in 0..MaxSeq, NEW E, NEW bad, t <= a, E = <<>>
  PROVE  PageOK(a, Answer(tip, t, E, bad))
  BY Numbers DEF PageOK, Answer

LEMMA FaultyPage ==
  ASSUME NEW a \in Nat, NEW tip \in 0..MaxSeq, NEW w \in BOOLEAN, NEW bad, NEW E,
         E = Entries(a, tip, w)
  PROVE  /\ PageOK(a, Answer(tip, tip, E \o E, bad))
         /\ PageRejected(Answer(tip, tip, Reverse(E), bad)) \/ PageOK(a, Answer(tip, tip, Reverse(E), bad))
  <1>0. MaxSeq \in Nat /\ tip \in Nat BY Numbers
  <1>1. CASE tip <= a
    <2>1. E = <<>> BY <1>0, <1>1, NothingPlanned
    <2>2. <<>> \o <<>> = <<>> /\ Reverse(<<>>) = <<>> BY DEF Reverse
    <2>3. E \o E = <<>> /\ Reverse(E) = <<>> BY <2>1, <2>2, Zenon
    <2>4. QED BY <1>0, <1>1, <2>3, EmptyPage
  <1>2. CASE a < tip
    <2>1. Covers(E, a, tip) /\ \A k \in 1..Len(E) - 1 : E[k].idx < E[k + 1].idx
      BY <1>0, <1>2, EntriesCover DEF Covers
    <2>2. Covers(E \o E, a, tip) BY <1>0, <1>2, <2>1, Doubled
    <2>3. ASSUME ~PageRejected(Answer(tip, tip, Reverse(E), bad))
          PROVE  Covers(Reverse(E), a, tip)
      <3> DEFINE idxs == <<sweep.index>> \o [i \in DOMAIN Reverse(E) |-> Reverse(E)[i].idx]
      <3>1. Answer(tip, tip, Reverse(E), bad).entries = Reverse(E) BY DEF Answer
      <3>2. \A i \in 1..Len(idxs) - 1 : ~(idxs[i + 1] < idxs[i])
        BY <2>3, <3>1 DEF PageRejected
      <3>3. QED BY <1>0, <2>1, <3>2, Reversed
    <2>4. QED BY <1>0, <1>2, <2>2, <2>3, CoveringPage
  <1>3. QED BY <1>0, <1>1, <1>2

(* Whatever the server answers: what is absorbed is well formed. *)
LEMMA AbsorbedPage ==
  ASSUME EngineState, NEW p \in Pages, ~PageRejected(p)
  PROVE  /\ PageOK(sweep.through, p)
         /\ sweep.tip # NoTip => p.tip = sweep.tip
         /\ sweep.pages + 1 <= MaxPages
  <1>0. /\ MaxSeq \in Nat /\ NoTip = MaxSeq + 1 /\ BeforeSeq \in 0..MaxSeq
        /\ MaxPages \in Nat /\ sweep.pages \in Nat
        /\ server.sealed \in 0..MaxSeq /\ sweep.through \in 0..MaxSeq /\ sweep.through \in Nat
        /\ sweep.tip \in 0..NoTip
    BY Numbers DEF EngineState, LiveTypeOK
  <1> DEFINE a == sweep.through
             tip == IF sweep.tip # NoTip THEN sweep.tip
                    ELSE IF mode = "snapshot" /\ BeforeSeq < server.sealed THEN BeforeSeq
                    ELSE server.sealed
             ends == {t \in 0..tip : t > a \/ t = tip}
             sealedEnds == {t \in ends : t = tip \/ t % SegSize = 0}
             whole == Entries(a, tip, TRUE)
  <1>1. tip \in 0..MaxSeq BY <1>0
  <1>2. \/ \E t \in ends : p = Answer(tip, t, Entries(a, t, FALSE), FALSE)
        \/ \E t \in sealedEnds : p = Answer(tip, t, Entries(a, t, TRUE), FALSE)
        \/ p = Answer(server.sealed, a, <<>>, TRUE)
        \/ p = Answer(tip, tip, whole \o whole, TRUE)
        \/ p = Answer(tip, tip, Reverse(whole), TRUE)
    BY DEF Pages
  <1> HIDE DEF tip
  <1>3. PageOK(a, p)
    <2>1. CASE \E t \in ends : p = Answer(tip, t, Entries(a, t, FALSE), FALSE)
      BY <1>0, <1>1, <2>1, HonestPage
    <2>2. CASE \E t \in sealedEnds : p = Answer(tip, t, Entries(a, t, TRUE), FALSE)
      BY <1>0, <1>1, <2>2, HonestPage
    <2>3. CASE p = Answer(server.sealed, a, <<>>, TRUE)
      BY <1>0, <2>3 DEF PageOK, Answer
    <2>4. CASE p = Answer(tip, tip, whole \o whole, TRUE)
      BY <1>0, <1>1, <2>4, FaultyPage
    <2>5. CASE p = Answer(tip, tip, Reverse(whole), TRUE)
      BY <1>0, <1>1, <2>5, FaultyPage
    <2>6. QED BY <1>2, <2>1, <2>2, <2>3, <2>4, <2>5
  <1>4. QED BY <1>0, <1>3 DEF PageRejected

-----------------------------------------------------------------------------
(* The sink. *)

(* A step that hands over b, nothing if it is empty, and may give up events  *)
(* above it.                                                                *)
HandsOver(b) ==
  /\ origin' = origin /\ saved' = saved
  /\ consumer'.got = consumer.got \cup ToSet(b)
  /\ consumer'.mark = IF b = <<>> THEN consumer.mark ELSE Last(b)
  /\ ~consumer'.late
  /\ stats'.processed = consumer'.mark
  /\ Excused \subseteq Excused' /\ Excused' \subseteq Wanted
  /\ b # <<>> => \A s \in Excused' \ Excused : Last(b) < s

(* A batch that may be handed over: it leaves nothing out. *)
Ready(b) == b \in Seq(Wanted) /\ Waits(b) /\ (b # <<>> => Upto(Last(b), ToSet(b)))

(* Upto, of the next state. *)
UptoNext(n, X) ==
  \A s \in Wanted : origin' < s /\ s <= n => s <= consumer'.mark \/ s \in Excused' \/ s \in X

LEMMA MarkTypes ==
  ASSUME EngineState
  PROVE  /\ consumer.mark \in Nat /\ consumer.mark <= MaxSeq /\ origin \in Nat /\ saved \in Nat
         /\ Excused \subseteq Wanted /\ Excused \subseteq Nat
  <1>1. consumer.mark \in 0..MaxSeq /\ origin \in 0..MaxSeq /\ saved \in 0..MaxSeq
    BY DEF EngineState, LiveTypeOK
  <1>2. consumer.lost \subseteq Wanted /\ owed \subseteq Wanted /\ forgotten \subseteq Wanted
    BY DEF EngineState
  <1>3. QED BY <1>1, <1>2, Numbers DEF Excused

(* The mark moves up over a batch that is handed over. *)
LEMMA MarkMoves ==
  ASSUME EngineState, NEW b, Ready(b), HandsOver(b)
  PROVE  /\ consumer'.mark \in 0..MaxSeq /\ consumer'.mark \in Nat
         /\ consumer.mark <= consumer'.mark /\ (b # <<>> => consumer.mark < consumer'.mark)
         /\ \A s \in ToSet(b) : s \in Wanted /\ consumer.mark < s /\ s <= consumer'.mark
  <1>1. b \in Seq(Wanted) /\ Waits(b) BY DEF Ready
  <1>2. CASE b = <<>>
    <2>1. ToSet(b) = {} BY <1>1, <1>2, Events
    <2>2. QED BY <1>2, <2>1, MarkTypes, Numbers DEF HandsOver
  <1>3. CASE b # <<>>
    <2>1. Len(b) \in 1..Len(b) /\ b[Len(b)] \in Wanted BY <1>1, <1>3
    <2>2. consumer'.mark = Last(b) BY <1>3 DEF HandsOver
    <2>3. consumer.mark < Last(b) /\ Last(b) \in Wanted BY <1>1, <2>1 DEF Waits, Last
    <2>4. \A s \in ToSet(b) : consumer.mark < s /\ s <= Last(b)
      BY <1>1, Events DEF Waits
    <2>5. ToSet(b) \subseteq Wanted BY <1>1, Events
    <2>6. Last(b) \in 0..MaxSeq /\ Last(b) \in Nat BY <2>3, Numbers
    <2>7. QED BY <2>2, <2>3, <2>4, <2>5, <2>6, MarkTypes
  <1>4. QED BY <1>2, <1>3

(* What was covered stays covered, and what was handed over need no longer  *)
(* wait.                                                                    *)
LEMMA Carried ==
  ASSUME EngineState, NEW b, Ready(b), HandsOver(b), NEW n, NEW X, Upto(n, X \cup ToSet(b))
  PROVE  UptoNext(n, X)
  <1>1. /\ consumer'.mark \in Nat /\ consumer.mark <= consumer'.mark
        /\ \A s \in ToSet(b) : s <= consumer'.mark
    BY MarkMoves
  <1> SUFFICES ASSUME NEW s \in Wanted, origin' < s, s <= n
               PROVE  s <= consumer'.mark \/ s \in Excused' \/ s \in X
    BY DEF UptoNext
  <1>2. Handled(s) \/ s \in X \/ s \in ToSet(b) BY DEF Upto, HandsOver
  <1>3. s \in Nat BY Numbers
  <1>4. QED BY <1>1, <1>2, <1>3, MarkTypes DEF Handled, HandsOver

(* A part of what was covered. *)
LEMMA Lower ==
  ASSUME NEW n \in Nat, NEW m \in Nat, m <= n, NEW X, Upto(n, X)
  PROVE  Upto(m, X)
  BY Numbers DEF Upto

LEMMA CarriedAlone ==
  ASSUME EngineState, NEW b, Ready(b), HandsOver(b), NEW n, NEW X, Upto(n, X)
  PROVE  UptoNext(n, X)
  <1>1. Upto(n, X \cup ToSet(b)) BY DEF Upto
  <1>2. QED BY <1>1, Carried

(* Where the engine is when the consumer has left. *)
LeftAlone == \/ eng.phase = "ended"
             \/ InTail /\ tail.pc = "done" /\ tail.outcome = "stopped"

LEMMA ConsumerKept ==
  ASSUME EngineState, ConsumerInv, NEW b, Ready(b), HandsOver(b), consumer'.gone => LeftAlone'
  PROVE  ConsumerInv'
  <1>1. /\ consumer'.mark \in Nat /\ consumer.mark <= consumer'.mark
        /\ \A s \in ToSet(b) : s <= consumer'.mark
    BY MarkMoves
  <1>2. origin' <= consumer'.mark /\ origin' <= saved'
    BY <1>1, MarkTypes DEF ConsumerInv, HandsOver
  <1>3. ASSUME NEW s \in Wanted, origin' < s, s <= consumer'.mark \/ s <= saved'
        PROVE  s \in consumer'.got \cup Excused'
    <2>1. s \in Nat BY Numbers
    <2>2. CASE s <= consumer.mark \/ s <= saved
      BY <1>3, <2>2 DEF ConsumerInv, HandsOver, Accounted
    <2>3. CASE ~(s <= consumer.mark) /\ ~(s <= saved)
      <3>1. s <= consumer'.mark BY <1>3, <2>3 DEF HandsOver
      <3>2. b # <<>> /\ consumer'.mark = Last(b) BY <2>3, <3>1 DEF HandsOver
      <3>3. Handled(s) \/ s \in ToSet(b) BY <1>3, <3>1, <3>2 DEF Ready, Upto, HandsOver
      <3>4. QED BY <2>3, <3>3 DEF Handled, HandsOver
    <2>4. QED BY <2>2, <2>3
  <1>4. QED BY <1>2, <1>3 DEF ConsumerInv, HandsOver, Accounted, LeftAlone

(* Handing over a batch is a step of the feed. *)
LEMMA FeedKept ==
  ASSUME EngineState, ConsumerInv, NEW b, Ready(b), HandsOver(b)
  PROVE  [Feed!FeedNext]_(Feed!feedVars)
  <1>1. CASE b = <<>>
    <2>1. ToSet(b) = {} BY <1>1, Events DEF Ready
    <2>2. /\ consumer'.mark = consumer.mark /\ consumer'.got = consumer.got
          /\ origin' = origin /\ saved' = saved
          /\ Excused \subseteq Excused' /\ Excused' \subseteq Nat
      BY <1>1, <2>1, Numbers DEF HandsOver
    <2>3. QED BY <2>2 DEF Feed!FeedNext, Feed!FeedExcuse
  <1>2. CASE b # <<>>
    <2>1. /\ consumer'.mark \in Nat /\ consumer.mark < consumer'.mark /\ consumer'.mark = Last(b)
          /\ \A s \in ToSet(b) : s \in Wanted /\ consumer.mark < s /\ s <= consumer'.mark
      BY <1>2, MarkMoves DEF HandsOver
    <2>2. ToSet(b) \in SUBSET {s \in Wanted : consumer.mark < s /\ s <= consumer'.mark}
      BY <2>1
    <2>3. ASSUME NEW s \in Wanted, consumer.mark < s, s <= consumer'.mark
          PROVE  s \in ToSet(b) \cup Excused
      <3>1. s \in Nat /\ origin < s BY <2>3, Numbers, MarkTypes DEF ConsumerInv
      <3>2. Handled(s) \/ s \in ToSet(b) BY <1>2, <2>1, <2>3, <3>1 DEF Ready, Upto
      <3>3. QED BY <2>3, <3>1, <3>2, MarkTypes DEF Handled
    <2>4. consumer'.got = consumer.got \cup ToSet(b) BY DEF HandsOver
    <2> DEFINE later == Excused' \ Excused
    <2>5. later \in SUBSET {s \in Wanted : s > consumer'.mark} /\ Excused' = Excused \cup later
      BY <1>2, <2>1, Numbers DEF HandsOver
    <2>6. origin' = origin /\ saved' = saved BY DEF HandsOver
    <2> HIDE DEF later
    <2>7. Feed!FeedDeliver
      BY <2>1, <2>2, <2>3, <2>4, <2>5, <2>6 DEF Feed!FeedDeliver
    <2>8. QED BY <2>7 DEF Feed!FeedNext
  <1>3. QED BY <1>1, <1>2

ConsumerOK == [got : SUBSET Wanted, mark : 0..MaxSeq, lost : SUBSET Wanted,
               gone : BOOLEAN, late : BOOLEAN]
StatsOK == [processed : 0..MaxSeq, tip : 0..MaxSeq, through : 0..MaxSeq]

LEMMA SinkTypes ==
  ASSUME EngineState
  PROVE  consumer \in ConsumerOK /\ stats \in StatsOK
  BY DEF EngineState, LiveTypeOK, ConsumerOK, StatsOK

(* The consumer c after a callback: r. *)
AfterCall(c, r, b, L) ==
  /\ r \in ConsumerOK
  /\ r.got = c.got \cup ToSet(b)
  /\ r.mark = IF b = <<>> THEN c.mark ELSE Last(b)
  /\ r.lost = c.lost \cup L
  /\ ~r.late

LEMMA OneCall ==
  ASSUME NEW c \in ConsumerOK, ~c.gone, ~c.late, NEW b \in Seq(Wanted), NEW L \in SUBSET Wanted,
         NEW ok, NEW r, r = Called(c, b, L, ok)
  PROVE  AfterCall(c, r, b, L)
  <1> DEFINE m == IF b = <<>> THEN c.mark ELSE Last(b)
             g == c.got \cup ToSet(b)
             l == c.lost \cup L
             h == c.gone \/ ~ok
             y == c.late \/ c.gone
  <1>1. m \in 0..MaxSeq
    <2>1. CASE b = <<>> BY <2>1 DEF ConsumerOK
    <2>2. CASE b # <<>>
      <3>1. Last(b) \in Wanted BY <2>2, Events
      <3>2. QED BY <2>2, <3>1, Numbers
    <2>3. QED BY <2>1, <2>2
  <1>2. g \in SUBSET Wanted /\ l \in SUBSET Wanted
    <2>1. ToSet(b) \subseteq Wanted BY Events
    <2>2. c.got \in SUBSET Wanted /\ c.lost \in SUBSET Wanted BY DEF ConsumerOK
    <2>3. QED BY <2>1, <2>2
  <1>3. r = [got |-> g, mark |-> m, lost |-> l, gone |-> h, late |-> y]
    BY DEF Called
  <1>4. h \in BOOLEAN /\ y \in BOOLEAN OBVIOUS
  <1>5. y = FALSE OBVIOUS
  <1> HIDE DEF m, g, l, h, y
  <1>6. /\ r.got = g /\ r.mark = m /\ r.lost = l /\ r.late = FALSE /\ r \in ConsumerOK
    BY <1>1, <1>2, <1>3, <1>4, <1>5 DEF ConsumerOK
  <1>7. QED BY <1>6 DEF m, g, l, AfterCall

LEMMA OneFlush ==
  ASSUME NEW c \in ConsumerOK, ~c.gone, ~c.late, NEW b \in Seq(Wanted), NEW ok,
         NEW r, r = Flushed(c, b, ok)
  PROVE  AfterCall(c, r, b, {})
  <1>1. CASE b = <<>>
    <2>1. ToSet(b) = {} BY <1>1, Events
    <2>2. r = c BY <1>1 DEF Flushed
    <2>3. QED BY <1>1, <2>1, <2>2 DEF AfterCall
  <1>2. CASE b # <<>>
    <2>1. r = Called(c, b, {}, ok) BY <1>2 DEF Flushed
    <2>2. {} \in SUBSET Wanted OBVIOUS
    <2>3. \A L \in SUBSET Wanted : r = Called(c, b, L, ok) => AfterCall(c, r, b, L) BY OneCall
    <2>4. QED BY <2>1, <2>2, <2>3
  <1>3. QED BY <1>1, <1>2

(* The consumer and the published cursors after a delivery of b and a report *)
(* of L.                                                                     *)
Delivered(b, L) ==
  /\ consumer' \in ConsumerOK
  /\ consumer'.got = consumer.got \cup ToSet(b)
  /\ consumer'.mark = IF b = <<>> THEN consumer.mark ELSE Last(b)
  /\ ~consumer'.late
  /\ consumer.lost \subseteq consumer'.lost /\ consumer'.lost \subseteq consumer.lost \cup L
  /\ ~consumer'.gone => consumer'.lost = consumer.lost \cup L
  /\ stats' \in StatsOK /\ stats'.processed = consumer'.mark
  /\ stats'.tip = stats.tip /\ stats'.through = stats.through

(* deliver_batch(b), alone or with an error report behind it. *)
LEMMA Delivery ==
  ASSUME EngineState, ConsumerInv, ~consumer.gone, NEW b \in Seq(Wanted), Waits(b),
         NEW L \in SUBSET Wanted, (Flush(b) /\ L = {}) \/ FlushAndReport(b, L)
  PROVE  Delivered(b, L)
  <1>0. /\ consumer \in ConsumerOK /\ ~consumer.late /\ stats \in StatsOK
        /\ stats.processed = consumer.mark
    BY SinkTypes DEF ConsumerInv
  <1>1. stats' = Processed(b) BY DEF Flush, FlushAndReport
  <1> DEFINE m == IF b = <<>> THEN consumer.mark ELSE Last(b)
  <1>2. m \in 0..MaxSeq /\ stats' = [stats EXCEPT !.processed = m]
    <2>1. CASE b = <<>>
      <3>1. stats' = [stats EXCEPT !.processed = stats.processed] BY <1>1, <2>1 DEF Processed
      <3>2. QED BY <1>0, <2>1, <3>1 DEF ConsumerOK
    <2>2. CASE b # <<>>
      <3>1. Len(b) \in 1..Len(b) BY <2>2
      <3>2. Last(b) \in Wanted /\ consumer.mark < Last(b) BY <2>2, <3>1, Events DEF Waits, Last
      <3>3. Last(b) \in Nat /\ Last(b) \in 0..MaxSeq /\ consumer.mark \in Nat
        BY <3>2, Numbers, MarkTypes
      <3>4. Max2(stats.processed, Last(b)) = Last(b) BY <1>0, <3>2, <3>3 DEF Max2
      <3>5. QED BY <1>1, <2>2, <3>3, <3>4 DEF Processed
    <2>3. QED BY <2>1, <2>2
  <1> HIDE DEF m
  <1>3. /\ stats' \in StatsOK /\ stats'.processed = m
        /\ stats'.tip = stats.tip /\ stats'.through = stats.through
    BY <1>0, <1>2 DEF StatsOK
  <1>5. CASE Flush(b) /\ L = {}
    <2>1. PICK ok \in Answers : consumer' = Flushed(consumer, b, ok) BY <1>5 DEF Flush
    <2>2. AfterCall(consumer, consumer', b, {}) BY <1>0, <2>1, OneFlush
    <2>3. QED BY <1>3, <1>5, <2>2 DEF m, AfterCall, Delivered
  <1>6. CASE FlushAndReport(b, L)
    <2>1. PICK ok1 \in Answers, ok2 \in Answers :
            consumer' = IF Flushed(consumer, b, ok1).gone THEN Flushed(consumer, b, ok1)
                        ELSE Called(Flushed(consumer, b, ok1), <<>>, L, ok2)
      BY <1>6 DEF FlushAndReport
    <2> DEFINE c == Flushed(consumer, b, ok1)
    <2>2. AfterCall(consumer, c, b, {}) BY <1>0, OneFlush
    <2>3. consumer' = IF c.gone THEN c ELSE Called(c, <<>>, L, ok2) BY <2>1
    <2> HIDE DEF c
    <2>4. CASE c.gone BY <1>3, <2>2, <2>3, <2>4 DEF m, AfterCall, Delivered
    <2>5. CASE ~c.gone
      <3>1. consumer' = Called(c, <<>>, L, ok2) BY <2>3, <2>5
      <3>2. <<>> \in Seq(Wanted) /\ ToSet(<<>>) = {} BY Events
      <3>3. c \in ConsumerOK /\ ~c.late BY <2>2 DEF AfterCall
      <3>4. \A e \in Seq(Wanted) : consumer' = Called(c, e, L, ok2) => AfterCall(c, consumer', e, L)
        BY <2>5, <3>3, OneCall
      <3>5. AfterCall(c, consumer', <<>>, L) BY <3>1, <3>2, <3>4
      <3>6. QED BY <1>3, <2>2, <3>2, <3>5 DEF m, AfterCall, Delivered
    <2>6. QED BY <2>4, <2>5
  <1>7. QED BY <1>5, <1>6

(* A step that does not call the sink. *)
LEMMA NoDelivery ==
  ASSUME EngineState, ConsumerInv, UNCHANGED <<consumer, stats>>
  PROVE  Delivered(<<>>, {})
  <1>1. consumer \in ConsumerOK /\ stats \in StatsOK BY SinkTypes
  <1>2. ToSet(<<>>) = {} BY DEF ToSet
  <1>3. QED BY <1>1, <1>2 DEF Delivered, ConsumerInv

(* The sink's part of a step, when the reports of the current entry stay as *)
(* they are.                                                                *)
LEMMA DeliveryHandsOver ==
  ASSUME EngineState, NEW b, NEW L \in SUBSET Wanted, Delivered(b, L),
         UNCHANGED <<origin, saved, owed, forgotten>>,
         b # <<>> => \A s \in L : Last(b) < s
  PROVE  HandsOver(b)
  <1>1. Excused' = consumer'.lost \cup owed \cup forgotten BY DEF Excused
  <1>2. Excused \subseteq Excused' /\ Excused' \subseteq Excused \cup L
    BY <1>1 DEF Excused, Delivered
  <1>3. Excused' \subseteq Wanted BY <1>2, MarkTypes
  <1>4. b # <<>> => \A s \in Excused' \ Excused : Last(b) < s BY <1>2
  <1>5. QED BY <1>2, <1>3, <1>4 DEF HandsOver, Delivered

LEMMA EmptyReady == Ready(<<>>)
  <1>1. <<>> \in Seq(Wanted) /\ Len(<<>>) = 0 OBVIOUS
  <1>2. Waits(<<>>) BY <1>1 DEF Waits
  <1>3. QED BY <1>1, <1>2 DEF Ready

(* The batch of the tail, and that of replay_page, may be handed over. *)
LEMMA BatchReady ==
  ASSUME EngineState, TailInv
  PROVE  Ready(batch)
  <1>1. batch \in Seq(Wanted) /\ Waits(batch) BY DEF EngineState, TailInv
  <1>2. ASSUME batch # <<>> PROVE Upto(Last(batch), ToSet(batch))
    <2>1. InRead /\ Last(batch) < tail.next /\ Upto(tail.next - 1, ToSet(batch))
      BY <1>2 DEF TailInv
    <2>2. Last(batch) \in Nat BY <1>1, <1>2, Events, Numbers
    <2>3. tail.next \in 1..MaxSeq + 1 BY DEF EngineState, LiveTypeOK
    <2>4. tail.next - 1 \in Nat /\ Last(batch) <= tail.next - 1 BY <2>1, <2>2, <2>3, Numbers
    <2>5. QED BY <2>1, <2>2, <2>4, Lower
  <1>3. QED BY <1>1, <1>2 DEF Ready

LEMMA BufReady ==
  ASSUME EngineState, FloorInv
  PROVE  Ready(buf)
  <1>1. buf \in Seq(Wanted) /\ Waits(buf) BY DEF EngineState, FloorInv
  <1>2. ASSUME buf # <<>> PROVE Upto(Last(buf), ToSet(buf))
    <2>1. Last(buf) <= sweep.floor /\ Upto(sweep.floor, ToSet(buf)) BY <1>2 DEF FloorInv
    <2>2. Last(buf) \in Nat BY <1>1, <1>2, Events, Numbers
    <2>3. sweep.floor \in 0..MaxSeq BY DEF EngineState
    <2>4. QED BY <2>1, <2>2, <2>3, Lower, Numbers
  <1>3. QED BY <1>1, <1>2 DEF Ready

-----------------------------------------------------------------------------
(* The live tail. *)

ServerOK == [written : 0..MaxSeq, trimmed : 0..MaxSeq, sealed : 0..MaxSeq, dict : Dicts]
TailOK == [pc : TailPcs, last : 0..MaxSeq, next : 1..MaxSeq + 1,
           dict : Dicts \cup {NoDict}, outcome : Outcomes]

(* The variables of the live tail after a step. *)
LiveNext ==
  /\ server' \in ServerOK /\ faults' \in Nat /\ cancelled' \in BOOLEAN
  /\ seen' \in 0..MaxSeq /\ tail' \in TailOK
  /\ batch' \in Seq(Wanted) /\ Len(batch') < MaxBatch

(* The tail's bookkeeping after a step, and that a consumer that left is    *)
(* left alone.                                                              *)
TailNext ==
  /\ tail'.pc # "read" => batch' = <<>>
  /\ \A i \in 1..Len(batch') : consumer'.mark < batch'[i] /\ batch'[i] <= Last(batch')
  /\ batch' # <<>> => Last(batch') < tail'.next /\ Last(batch') <= tail'.last
  /\ consumer'.mark <= tail'.last
  /\ UptoNext(tail'.last, ToSet(batch'))
  /\ tail'.pc = "read" => UptoNext(tail'.next - 1, ToSet(batch'))
  /\ UptoNext(seen', ToSet(batch'))
  /\ consumer'.gone => tail'.pc = "done" /\ tail'.outcome = "stopped"

(* Upto of the next state, for a value that is known. *)
LEMMA UptoPrimed ==
  /\ Upto(tail.last, ToSet(batch))' <=> UptoNext(tail'.last, ToSet(batch'))
  /\ Upto(tail.next - 1, ToSet(batch))' <=> UptoNext(tail'.next - 1, ToSet(batch'))
  /\ Upto(seen, ToSet(batch))' <=> UptoNext(seen', ToSet(batch'))
  /\ Upto(sweep.floor, ToSet(buf))' <=> UptoNext(sweep'.floor, ToSet(buf'))
  /\ Upto(eng.after, {})' <=> UptoNext(eng'.after, {})
  /\ Upto(stats.through, {})' <=> UptoNext(stats'.through, {})
  /\ Upto(stats.tip, {})' <=> UptoNext(stats'.tip, {})
  /\ Upto(sweep.through, {})' <=> UptoNext(sweep'.through, {})
  /\ Upto(sweep.after, {})' <=> UptoNext(sweep'.after, {})
  BY DEF Upto, UptoNext, Handled

LEMMA WaitsPrimed ==
  /\ Waits(batch)' <=> \A i \in 1..Len(batch') : consumer'.mark < batch'[i] /\ batch'[i] <= Last(batch')
  /\ Waits(buf)' <=> \A i \in 1..Len(buf') : consumer'.mark < buf'[i] /\ buf'[i] <= Last(buf')
  BY DEF Waits

(* A step of the tail preserves the invariant, and is a step of the feed.  *)
LEMMA TailKept ==
  ASSUME InductiveInv, eng.phase = "live", UNCHANGED engineVars, NEW b, Ready(b), HandsOver(b),
         consumer' \in ConsumerOK, stats' \in StatsOK,
         stats'.tip = stats.tip, stats'.through = stats.through, LiveNext, TailNext
  PROVE  InductiveInv' /\ [Feed!FeedNext]_(Feed!feedVars)
  <1>0. EngineState /\ ConsumerInv /\ TailInv /\ FloorInv /\ TipInv /\ SweepInv BY DEF InductiveInv
  <1>a. /\ UNCHANGED <<mode, origin, saved, crashes, eng, sweep, page, buf, owed, forgotten>>
        /\ eng.phase = "live"
    BY DEF engineVars
  <1>1. EngineState'
    <2>1. LiveTypeOK'
      <3>1. consumer' \in [got : SUBSET Seqs, mark : 0..MaxSeq, lost : SUBSET Seqs,
                           gone : BOOLEAN, late : BOOLEAN]
        <4>1. Wanted \subseteq Seqs BY Numbers
        <4>2. QED BY <4>1 DEF ConsumerOK
      <3>2. batch' \in Seq(Seqs)
        <4>1. Wanted \subseteq Seqs BY Numbers
        <4>2. QED BY <4>1 DEF LiveNext
      <3>3. QED BY <3>1, <3>2 DEF LiveTypeOK, LiveNext, ServerOK, TailOK, StatsOK
    <2>2. batch' \in Seq(Wanted) /\ consumer'.got \subseteq Wanted /\ consumer'.lost \subseteq Wanted
      BY DEF LiveNext, ConsumerOK
    <2>3. QED BY <1>0, <1>a, <2>1, <2>2 DEF EngineState
  <1>2. ConsumerInv'
    <2>1. consumer'.gone => LeftAlone' BY <1>a DEF TailNext, LeftAlone, InTail
    <2>2. QED BY <1>0, <2>1, ConsumerKept
  <1>3. TailInv' BY <1>a, UptoPrimed, WaitsPrimed DEF TailNext, TailInv, InTail, InRead
  <1>4. buf = <<>> BY <1>0, <1>a DEF FloorInv
  <1>5. FloorInv'
    <2>1. UptoNext(sweep.floor, ToSet(buf)) /\ UptoNext(eng.after, {}) /\ UptoNext(stats.through, {})
      BY <1>0, CarriedAlone DEF FloorInv
    <2>2. Waits(buf)' BY <1>4, <1>a, WaitsPrimed
    <2>3. QED BY <1>4, <1>a, <2>1, <2>2, UptoPrimed DEF FloorInv
  <1>6. TipInv'
    <2>1. UptoNext(stats.tip, {}) BY <1>0, <1>a, CarriedAlone DEF TipInv
    <2>2. QED BY <1>a, <2>1, UptoPrimed DEF TipInv
  <1>7. SweepInv' BY <1>a DEF SweepInv
  <1>8. QED BY <1>0, <1>1, <1>2, <1>3, <1>5, <1>6, <1>7, FeedKept DEF InductiveInv

(* The consumer is still there as long as the tail runs. *)
LEMMA TailRuns ==
  ASSUME InductiveInv, eng.phase = "live"
  PROVE  /\ EngineState /\ ConsumerInv /\ TailInv
         /\ tail.pc # "done" => ~consumer.gone
         /\ server \in ServerOK /\ faults \in Nat /\ cancelled \in BOOLEAN /\ seen \in 0..MaxSeq
         /\ tail \in TailOK /\ tail.last \in Nat /\ tail.next \in Nat /\ tail.next - 1 \in Nat
         /\ batch \in Seq(Wanted) /\ Len(batch) < MaxBatch
         /\ batch # <<>> => Last(batch) \in Nat
  <1>1. EngineState /\ ConsumerInv /\ TailInv BY DEF InductiveInv
  <1>2. tail.pc # "done" => ~consumer.gone BY <1>1 DEF ConsumerInv, InTail
  <1>3. /\ server \in ServerOK /\ faults \in Nat /\ cancelled \in BOOLEAN /\ seen \in 0..MaxSeq
        /\ tail \in TailOK /\ batch \in Seq(Wanted) /\ Len(batch) < MaxBatch
    BY <1>1 DEF EngineState, LiveTypeOK, ServerOK, TailOK
  <1>4. tail.last \in Nat /\ tail.next \in Nat /\ tail.next - 1 \in Nat
    BY <1>3, Numbers DEF TailOK
  <1>5. batch # <<>> => Last(batch) \in Nat BY <1>3, Events, Numbers
  <1>6. QED BY <1>1, <1>2, <1>3, <1>4, <1>5

(* A step of the tail that neither calls the sink nor touches its batch. *)
LEMMA QuietTail ==
  ASSUME InductiveInv, eng.phase = "live", UNCHANGED engineVars, tail.pc # "done",
         UNCHANGED <<server, cancelled, consumer, stats, seen, batch>>, faults' \in Nat,
         tail' \in TailOK, tail'.last = tail.last,
         tail'.pc # "read" => batch = <<>>,
         batch # <<>> => Last(batch) < tail'.next,
         tail'.pc = "read" => Upto(tail'.next - 1, ToSet(batch))
  PROVE  InductiveInv' /\ [Feed!FeedNext]_(Feed!feedVars)
  <1>0. /\ EngineState /\ ConsumerInv /\ TailInv /\ ~consumer.gone
        /\ server \in ServerOK /\ cancelled \in BOOLEAN /\ seen \in 0..MaxSeq
        /\ batch \in Seq(Wanted) /\ Len(batch) < MaxBatch
    BY TailRuns
  <1>1. consumer \in ConsumerOK /\ stats \in StatsOK BY <1>0, SinkTypes
  <1>2. \A e \in Seq(Wanted) : e = <<>> => Ready(e) /\ HandsOver(e)
    <2> SUFFICES ASSUME NEW e \in Seq(Wanted), e = <<>> PROVE Ready(e) /\ HandsOver(e) OBVIOUS
    <2>1. Ready(e) BY EmptyReady
    <2>2. ToSet(e) = {} BY Events
    <2>3. Excused' = Excused /\ Excused \subseteq Wanted BY <1>0, MarkTypes DEF Excused, engineVars
    <2>4. origin' = origin /\ saved' = saved BY DEF engineVars
    <2>5. QED BY <1>0, <2>1, <2>2, <2>3, <2>4 DEF HandsOver, ConsumerInv
  <1>3. PICK e \in Seq(Wanted) : e = <<>>
    <2>1. <<>> \in Seq(Wanted) OBVIOUS
    <2>2. QED BY <2>1
  <1>4. Ready(e) /\ HandsOver(e) BY <1>2, <1>3
  <1>5. LiveNext BY <1>0 DEF LiveNext
  <1>6. TailNext
    <2>1. \A n, X : Upto(n, X) => UptoNext(n, X) BY <1>0, <1>4, CarriedAlone
    <2>2. UptoNext(tail'.last, ToSet(batch)) BY <1>0, <2>1 DEF TailInv, InTail
    <2>3. UptoNext(seen, ToSet(batch)) BY <1>0, <2>1 DEF TailInv
    <2>4. tail'.pc = "read" => UptoNext(tail'.next - 1, ToSet(batch)) BY <2>1
    <2>5. /\ Waits(batch) /\ consumer.mark <= tail.last
          /\ batch # <<>> => Last(batch) <= tail.last
      BY <1>0 DEF TailInv, InTail
    <2>6. QED BY <1>0, <2>2, <2>3, <2>4, <2>5 DEF TailNext, Waits
  <1>7. QED BY <1>1, <1>4, <1>5, <1>6, TailKept

(* A step that hands over the whole batch, with a report of later events    *)
(* perhaps behind it.                                                       *)
LEMMA FlushingTail ==
  ASSUME InductiveInv, eng.phase = "live", UNCHANGED engineVars, tail.pc # "done",
         UNCHANGED <<server, cancelled, seen>>, faults' \in Nat, batch' = <<>>,
         NEW L \in SUBSET Wanted, (Flush(batch) /\ L = {}) \/ FlushAndReport(batch, L),
         \A s \in L : tail.next <= s,
         tail' \in TailOK, tail'.last = tail.last,
         consumer'.gone => tail'.pc = "done" /\ tail'.outcome = "stopped",
         tail'.pc = "read" =>
           /\ tail.pc = "read"
           /\ \/ tail'.next = tail.next
              \/ tail'.next = tail.next + 1 /\ (tail.next \in Wanted => tail.next \in L)
  PROVE  InductiveInv' /\ [Feed!FeedNext]_(Feed!feedVars)
  <1>0. /\ EngineState /\ ConsumerInv /\ TailInv /\ ~consumer.gone
        /\ server \in ServerOK /\ cancelled \in BOOLEAN /\ seen \in 0..MaxSeq
        /\ batch \in Seq(Wanted) /\ tail.last \in Nat /\ tail.next \in Nat /\ tail.next - 1 \in Nat
        /\ batch # <<>> => Last(batch) \in Nat
    BY TailRuns
  <1>1. Ready(batch) /\ Waits(batch) BY <1>0, BatchReady DEF Ready
  <1>2. Delivered(batch, L) BY <1>0, <1>1, Delivery
  <1>3. UNCHANGED <<origin, saved, owed, forgotten>> BY DEF engineVars
  <1>4. batch # <<>> => \A s \in L : Last(batch) < s
    <2> SUFFICES ASSUME batch # <<>>, NEW s \in L PROVE Last(batch) < s OBVIOUS
    <2>1. s \in Nat /\ tail.next <= s /\ Last(batch) < tail.next BY <1>0, Numbers DEF TailInv
    <2>2. QED BY <1>0, <2>1
  <1>5. HandsOver(batch) BY <1>0, <1>2, <1>3, <1>4, DeliveryHandsOver
  <1>6. /\ consumer' \in ConsumerOK /\ stats' \in StatsOK
        /\ stats'.tip = stats.tip /\ stats'.through = stats.through
    BY <1>2 DEF Delivered
  <1>7. batch' \in Seq(Wanted) /\ Len(batch') = 0 /\ ToSet(batch') = {}
    <2>1. <<>> \in Seq(Wanted) /\ Len(<<>>) = 0 OBVIOUS
    <2>2. ToSet(<<>>) = {} BY <2>1, Events
    <2>3. QED BY <2>1, <2>2
  <1>8. LiveNext BY <1>0, <1>7, Numbers DEF LiveNext
  <1>9. TailNext
    <2>1. ASSUME NEW n, Upto(n, ToSet(batch)) PROVE UptoNext(n, ToSet(batch'))
      <3>1. Upto(n, ToSet(batch') \cup ToSet(batch)) BY <2>1 DEF Upto
      <3>2. QED BY <1>0, <1>1, <1>5, <3>1, Carried
    <2>2. UptoNext(tail'.last, ToSet(batch')) BY <1>0, <2>1 DEF TailInv, InTail
    <2>3. UptoNext(seen', ToSet(batch')) BY <1>0, <2>1 DEF TailInv
    <2>4. ASSUME tail'.pc = "read" PROVE UptoNext(tail'.next - 1, ToSet(batch'))
      <3>1. UptoNext(tail.next - 1, ToSet(batch')) BY <1>0, <2>1, <2>4 DEF TailInv, InRead
      <3>2. CASE tail'.next = tail.next BY <3>1, <3>2
      <3>3. CASE tail'.next = tail.next + 1 /\ (tail.next \in Wanted => tail.next \in L)
        <4>1. ~consumer'.gone BY <2>4
        <4>2. tail.next \in Wanted => tail.next \in Excused'
          BY <1>2, <3>3, <4>1 DEF Delivered, Excused
        <4>3. tail'.next - 1 = tail.next BY <1>0, <3>3
        <4>4. \A s \in Wanted : s <= tail.next => s <= tail.next - 1 \/ s = tail.next
          BY <1>0, Numbers
        <4>5. QED BY <3>1, <4>2, <4>3, <4>4 DEF UptoNext
      <3>4. QED BY <2>4, <3>2, <3>3
    <2>5. consumer'.mark <= tail'.last
      <3>1. consumer.mark <= tail.last /\ (batch # <<>> => Last(batch) <= tail.last)
        BY <1>0 DEF TailInv, InTail
      <3>2. QED BY <1>2, <3>1 DEF Delivered
    <2>6. QED BY <1>7, <2>2, <2>3, <2>4, <2>5 DEF TailNext
  <1>10. QED BY <1>1, <1>5, <1>6, <1>8, <1>9, TailKept

(* What is shown of every step: the invariant is kept, and the consumer sees *)
(* a step of the feed, or nothing.                                           *)
StepKept == InductiveInv' /\ [Feed!FeedNext]_(Feed!feedVars)

LEMMA FetchDictKept ==
  ASSUME InductiveInv, eng.phase = "live", UNCHANGED engineVars, FetchDict
  PROVE  StepKept
  <1>0. /\ TailInv /\ tail \in TailOK /\ faults \in Nat /\ server \in ServerOK /\ tail.pc = "dict"
    BY TailRuns DEF FetchDict
  <1>1. batch = <<>> BY <1>0 DEF TailInv, InRead
  <1>2. server.dict \in Dicts BY <1>0 DEF ServerOK
  <1>3. tail' \in TailOK /\ tail'.last = tail.last /\ tail'.pc # "read"
    BY <1>0, <1>2 DEF FetchDict, Done, TailOK, TailPcs, Outcomes
  <1>4. faults' \in Nat BY <1>0 DEF FetchDict, Fault
  <1>5. UNCHANGED <<server, cancelled, consumer, stats, seen, batch>> BY DEF FetchDict
  <1>6. QED BY <1>0, <1>1, <1>3, <1>4, <1>5, QuietTail DEF StepKept

LEMMA RecoverDictKept ==
  ASSUME InductiveInv, eng.phase = "live", UNCHANGED engineVars, RecoverDict
  PROVE  StepKept
  <1>0. /\ TailInv /\ tail \in TailOK /\ faults \in Nat /\ server \in ServerOK /\ tail.pc = "redict"
    BY TailRuns DEF RecoverDict
  <1>1. batch = <<>> BY <1>0 DEF TailInv, InRead
  <1>2. server.dict \in Dicts BY <1>0 DEF ServerOK
  <1>3. tail' \in TailOK /\ tail'.last = tail.last /\ tail'.pc # "read"
    BY <1>0, <1>2 DEF RecoverDict, Done, TailOK, TailPcs, Outcomes
  <1>4. faults' \in Nat BY <1>0 DEF RecoverDict, Fault
  <1>5. UNCHANGED <<server, cancelled, consumer, stats, seen, batch>> BY DEF RecoverDict
  <1>6. QED BY <1>0, <1>1, <1>3, <1>4, <1>5, QuietTail DEF StepKept

LEMMA DialKept ==
  ASSUME InductiveInv, eng.phase = "live", UNCHANGED engineVars, NEW c \in BOOLEAN, Dial(c)
  PROVE  StepKept
  <1>0. /\ EngineState /\ TailInv /\ tail \in TailOK /\ faults \in Nat /\ server \in ServerOK
        /\ tail.pc = "dial" /\ tail.last \in Nat /\ tail.last \in 0..MaxSeq
    BY TailRuns DEF Dial, TailOK
  <1>1. batch = <<>> BY <1>0 DEF TailInv, InRead
  <1>2. server.trimmed \in 0..MaxSeq /\ server.trimmed \in Nat /\ MaxSeq \in Nat
    BY <1>0, Numbers DEF ServerOK
  <1>3. faults' \in Nat BY <1>0 DEF Dial, Fault
  <1>4. UNCHANGED <<server, cancelled, consumer, stats, seen, batch>> BY DEF Dial
  <1>5. CASE tail'.pc # "read"
    <2>1. tail' \in TailOK /\ tail'.last = tail.last
      <3>1. TooOldOutcome(c) \in Outcomes BY DEF TooOldOutcome, Outcomes
      <3>2. \/ tail' = Done(tail, "open") \/ tail' = Done(tail, TooOldOutcome(c))
            \/ tail' = [tail EXCEPT !.pc = "redict"] \/ tail' = [tail EXCEPT !.pc = "report"]
        BY <1>0, <1>5 DEF Dial, TailOK
      <3>3. QED BY <1>0, <3>1, <3>2 DEF Done, TailOK, TailPcs, Outcomes
    <2>2. QED BY <1>0, <1>1, <1>3, <1>4, <1>5, <2>1, QuietTail DEF StepKept
  <1>6. CASE tail'.pc = "read"
    <2> DEFINE n == Max2(tail.last, server.trimmed + 1)
    <2>1. tail' = [tail EXCEPT !.pc = "read", !.next = n] /\ ~TooOld
      BY <1>0, <1>6 DEF Dial, Done, TailOK
    <2>2. ~(tail.last < server.trimmed) BY <2>1 DEF TooOld
    <2>3. n \in {tail.last, server.trimmed + 1} /\ n \in Nat /\ server.trimmed + 1 <= n
      <3>1. server.trimmed + 1 \in Nat BY <1>2
      <3>2. QED BY <1>0, <3>1, Max2Is
    <2>4. n \in 1..MaxSeq + 1 /\ n - 1 \in Nat /\ n - 1 <= tail.last
      BY <1>0, <1>2, <2>2, <2>3
    <2> HIDE DEF n
    <2>5. tail' \in TailOK /\ tail'.last = tail.last /\ tail'.next = n
      BY <1>0, <2>1, <2>4 DEF TailOK, TailPcs
    <2>6. Upto(tail.last, ToSet(batch)) BY <1>0 DEF TailInv, InTail
    <2>7. Upto(n - 1, ToSet(batch)) BY <1>0, <2>4, <2>6, Lower
    <2>8. QED BY <1>0, <1>1, <1>3, <1>4, <2>5, <2>7, QuietTail DEF StepKept
  <1>7. QED BY <1>5, <1>6

LEMMA SkipFrameKept ==
  ASSUME InductiveInv, eng.phase = "live", UNCHANGED engineVars, SkipFrame
  PROVE  StepKept
  <1>0. /\ TailInv /\ tail \in TailOK /\ faults \in Nat /\ server \in ServerOK /\ tail.pc = "read"
        /\ tail.next \in Nat /\ (batch # <<>> => Last(batch) \in Nat)
    BY TailRuns DEF SkipFrame, Incoming, Reading
  <1>1. tail.next <= MaxSeq /\ tail.next \notin Wanted
    BY <1>0, Numbers DEF SkipFrame, Incoming, ServerOK
  <1>2. tail' \in TailOK /\ tail'.last = tail.last /\ tail'.pc = "read" /\ tail'.next = tail.next + 1
    BY <1>0, <1>1, Numbers DEF SkipFrame, TailOK
  <1>3. Upto(tail'.next - 1, ToSet(batch))
    <2>1. Upto(tail.next - 1, ToSet(batch)) BY <1>0 DEF TailInv, InRead
    <2>2. \A s \in Wanted : s <= tail'.next - 1 => s <= tail.next - 1 BY <1>0, <1>1, <1>2, Numbers
    <2>3. QED BY <2>1, <2>2 DEF Upto
  <1>4. batch # <<>> => Last(batch) < tail'.next BY <1>0, <1>2 DEF TailInv
  <1>5. UNCHANGED <<server, cancelled, consumer, stats, seen, batch>> /\ faults' \in Nat
    BY <1>0 DEF SkipFrame
  <1>6. QED BY <1>0, <1>2, <1>3, <1>4, <1>5, QuietTail DEF StepKept

(* sink.recoverable: no batch waits, and no event is given up. *)
LEMMA ReportAndBackoffKept ==
  ASSUME InductiveInv, eng.phase = "live", UNCHANGED engineVars, ReportAndBackoff
  PROVE  StepKept
  <1>0. TailInv /\ tail \in TailOK /\ faults \in Nat /\ tail.pc = "report"
    BY TailRuns DEF ReportAndBackoff
  <1>1. batch = <<>> BY <1>0 DEF TailInv, InRead
  <1>2. tail' \in TailOK /\ tail'.last = tail.last /\ tail'.pc # "read"
    BY <1>0 DEF ReportAndBackoff, Done, TailOK, TailPcs, Outcomes
  <1>3. consumer'.gone => tail'.pc = "done" /\ tail'.outcome = "stopped"
    BY <1>0 DEF ReportAndBackoff, Done, TailOK
  <1>4. FlushAndReport(batch, {}) /\ batch' = <<>> /\ faults' \in Nat /\ UNCHANGED <<server, cancelled, seen>>
    BY <1>0, <1>1 DEF ReportAndBackoff
  <1>5. \E L \in SUBSET Wanted : L = {} OBVIOUS
  <1>6. PICK L \in SUBSET Wanted : L = {} BY <1>5
  <1>7. FlushAndReport(batch, L) /\ \A s \in L : tail.next <= s BY <1>4, <1>6
  <1>8. QED BY <1>0, <1>2, <1>3, <1>4, <1>7, FlushingTail DEF StepKept

(* A step of the session that flushes its batch, and gives up nothing. *)
LEMMA SessionFlush ==
  ASSUME InductiveInv, eng.phase = "live", UNCHANGED engineVars, tail.pc = "read",
         UNCHANGED <<server, cancelled, seen>>, faults' \in Nat, batch' = <<>>,
         Flush(batch) \/ FlushAndReport(batch, {}),
         tail' \in TailOK, tail'.last = tail.last, tail'.next = tail.next,
         consumer'.gone => tail'.pc = "done" /\ tail'.outcome = "stopped"
  PROVE  StepKept
  <1>1. \E L \in SUBSET Wanted : L = {} OBVIOUS
  <1>2. PICK L \in SUBSET Wanted : L = {} BY <1>1
  <1>3. (Flush(batch) /\ L = {}) \/ FlushAndReport(batch, L) BY <1>2
  <1>4. \A s \in L : tail.next <= s BY <1>2
  <1>5. QED BY <1>3, <1>4, FlushingTail DEF StepKept

LEMMA FlushTimerKept ==
  ASSUME InductiveInv, eng.phase = "live", UNCHANGED engineVars, FlushTimer
  PROVE  StepKept
  <1>0. tail \in TailOK /\ faults \in Nat /\ tail.pc = "read" BY TailRuns DEF FlushTimer, Reading
  <1>1. /\ tail' \in TailOK /\ tail'.last = tail.last /\ tail'.next = tail.next
        /\ consumer'.gone => tail'.pc = "done" /\ tail'.outcome = "stopped"
    BY <1>0 DEF FlushTimer, GoOn, Done, TailOK, TailPcs, Outcomes
  <1>2. Flush(batch) /\ batch' = <<>> /\ faults' \in Nat /\ UNCHANGED <<server, cancelled, seen>>
    BY <1>0 DEF FlushTimer
  <1>3. QED BY <1>0, <1>1, <1>2, SessionFlush

LEMMA InfoFrameKept ==
  ASSUME InductiveInv, eng.phase = "live", UNCHANGED engineVars, InfoFrame
  PROVE  StepKept
  <1>0. tail \in TailOK /\ faults \in Nat /\ tail.pc = "read" BY TailRuns DEF InfoFrame, Reading
  <1>1. /\ tail' \in TailOK /\ tail'.last = tail.last /\ tail'.next = tail.next
        /\ consumer'.gone => tail'.pc = "done" /\ tail'.outcome = "stopped"
    BY <1>0 DEF InfoFrame, GoOn, Done, TailOK, TailPcs, Outcomes
  <1>2. /\ FlushAndReport(batch, {}) /\ batch' = <<>> /\ faults' \in Nat
        /\ UNCHANGED <<server, cancelled, seen>>
    BY <1>0 DEF InfoFrame, Fault
  <1>3. QED BY <1>0, <1>1, <1>2, SessionFlush

LEMMA ConnectionLostKept ==
  ASSUME InductiveInv, eng.phase = "live", UNCHANGED engineVars, ConnectionLost
  PROVE  StepKept
  <1>0. tail \in TailOK /\ faults \in Nat /\ tail.pc = "read" BY TailRuns DEF ConnectionLost, Reading
  <1>1. /\ tail' \in TailOK /\ tail'.last = tail.last /\ tail'.next = tail.next
        /\ consumer'.gone => tail'.pc = "done" /\ tail'.outcome = "stopped"
    BY <1>0 DEF ConnectionLost, GoOn, Done, TailOK, TailPcs, Outcomes
  <1>2. Flush(batch) /\ batch' = <<>> /\ faults' \in Nat /\ UNCHANGED <<server, cancelled, seen>>
    BY <1>0 DEF ConnectionLost, Fault
  <1>3. QED BY <1>0, <1>1, <1>2, SessionFlush

LEMMA DictRejectedKept ==
  ASSUME InductiveInv, eng.phase = "live", UNCHANGED engineVars, DictRejected
  PROVE  StepKept
  <1>0. tail \in TailOK /\ faults \in Nat /\ tail.pc = "read" BY TailRuns DEF DictRejected, Reading
  <1>1. /\ tail' \in TailOK /\ tail'.last = tail.last /\ tail'.next = tail.next
        /\ consumer'.gone => tail'.pc = "done" /\ tail'.outcome = "stopped"
    BY <1>0 DEF DictRejected, GoOn, Done, TailOK, TailPcs, Outcomes
  <1>2. Flush(batch) /\ batch' = <<>> /\ faults' \in Nat /\ UNCHANGED <<server, cancelled, seen>>
    BY <1>0 DEF DictRejected
  <1>3. QED BY <1>0, <1>1, <1>2, SessionFlush

LEMMA FatalFrameKept ==
  ASSUME InductiveInv, eng.phase = "live", UNCHANGED engineVars, NEW c \in BOOLEAN, FatalFrame(c)
  PROVE  StepKept
  <1>0. tail \in TailOK /\ faults \in Nat /\ tail.pc = "read" BY TailRuns DEF FatalFrame, Reading
  <1>1. PICK o \in Outcomes : tail' = Done(tail, IF consumer'.gone THEN "stopped" ELSE o)
    BY DEF FatalFrame, TooOldOutcome, Outcomes
  <1>2. /\ tail' \in TailOK /\ tail'.last = tail.last /\ tail'.next = tail.next
        /\ consumer'.gone => tail'.pc = "done" /\ tail'.outcome = "stopped"
    BY <1>0, <1>1 DEF Done, TailOK, TailPcs, Outcomes
  <1>3. Flush(batch) /\ batch' = <<>> /\ faults' \in Nat /\ UNCHANGED <<server, cancelled, seen>>
    BY <1>0 DEF FatalFrame, Fault
  <1>4. QED BY <1>0, <1>2, <1>3, SessionFlush

LEMMA ReadCancelledKept ==
  ASSUME InductiveInv, eng.phase = "live", UNCHANGED engineVars, ReadCancelled
  PROVE  StepKept
  <1>0. tail \in TailOK /\ faults \in Nat /\ tail.pc = "read"
    BY TailRuns DEF ReadCancelled, StopReading, Reading
  <1>1. /\ tail' \in TailOK /\ tail'.last = tail.last /\ tail'.next = tail.next
        /\ consumer'.gone => tail'.pc = "done" /\ tail'.outcome = "stopped"
    BY <1>0 DEF ReadCancelled, StopReading, Done, TailOK, TailPcs, Outcomes
  <1>2. Flush(batch) /\ batch' = <<>> /\ faults' \in Nat /\ UNCHANGED <<server, cancelled, seen>>
    BY <1>0 DEF ReadCancelled, StopReading
  <1>3. QED BY <1>0, <1>1, <1>2, SessionFlush

(* A frame that does not decode: its event is given up, behind the batch. *)
LEMMA BadFrameKept ==
  ASSUME InductiveInv, eng.phase = "live", UNCHANGED engineVars, BadFrame
  PROVE  StepKept
  <1>0. /\ tail \in TailOK /\ faults \in Nat /\ server \in ServerOK /\ tail.pc = "read"
        /\ tail.next \in Nat /\ tail.next <= server.written /\ server.written \in 0..MaxSeq
    BY TailRuns DEF BadFrame, Incoming, Reading, ServerOK
  <1>1. /\ tail' \in TailOK /\ tail'.last = tail.last
        /\ consumer'.gone => tail'.pc = "done" /\ tail'.outcome = "stopped"
        /\ tail'.pc = "read" => tail'.next = tail.next + 1
    <2>1. tail.next + 1 \in 1..MaxSeq + 1 BY <1>0, Numbers
    <2>2. QED BY <1>0, <2>1 DEF BadFrame, Done, TailOK, TailPcs, Outcomes
  <1>2. /\ FlushAndReport(batch, {tail.next} \cap Wanted) /\ batch' = <<>> /\ faults' \in Nat
        /\ UNCHANGED <<server, cancelled, seen>>
    BY <1>0 DEF BadFrame, Fault
  <1> DEFINE L == {tail.next} \cap Wanted
  <1>3. /\ L \in SUBSET Wanted /\ (\A s \in L : tail.next <= s)
        /\ (tail.next \in Wanted => tail.next \in L) /\ FlushAndReport(batch, L)
    BY <1>0, <1>2
  <1> HIDE DEF L
  <1>4. QED BY <1>0, <1>1, <1>2, <1>3, FlushingTail DEF StepKept

(* The tail's batch b, its marks and its connection after an event: all that *)
(* was accepted is handled, or in b.                                         *)
Accepted(b, last, new) ==
  /\ b \in Seq(Wanted) /\ Waits(b)
  /\ b # <<>> => Last(b) <= tail.next /\ Last(b) <= last
  /\ Upto(tail.next, ToSet(b)) /\ Upto(last, ToSet(b)) /\ Upto(new, ToSet(b))
  /\ last \in 0..MaxSeq /\ consumer.mark <= last /\ new \in 0..MaxSeq

(* An event below the high-water mark is dropped. *)
LEMMA AcceptStale ==
  ASSUME InductiveInv, eng.phase = "live", tail.pc = "read", ~(tail.next > tail.last)
  PROVE  Accepted(batch, tail.last, seen)
  <1>1. /\ EngineState /\ TailInv /\ tail \in TailOK /\ tail.last \in Nat /\ tail.next \in Nat
        /\ batch \in Seq(Wanted) /\ (batch # <<>> => Last(batch) \in Nat) /\ seen \in 0..MaxSeq
        /\ tail.last \in 0..MaxSeq
    BY TailRuns DEF TailOK
  <1>2. /\ Waits(batch) /\ consumer.mark <= tail.last
        /\ batch # <<>> => Last(batch) < tail.next /\ Last(batch) <= tail.last
        /\ Upto(tail.last, ToSet(batch)) /\ Upto(seen, ToSet(batch))
    BY <1>1 DEF TailInv, InTail
  <1>3. Upto(tail.next, ToSet(batch)) BY <1>1, <1>2, Lower
  <1>4. QED BY <1>1, <1>2, <1>3 DEF Accepted

(* A new event is batched if it is wanted. *)
LEMMA AcceptFresh ==
  ASSUME InductiveInv, eng.phase = "live", tail.pc = "read", tail.next > tail.last,
         tail.next <= MaxSeq, NEW b,
         b = IF tail.next \in Wanted THEN Append(batch, tail.next) ELSE batch
  PROVE  Accepted(b, tail.next, Max2(seen, tail.next)) /\ Len(b) <= Len(batch) + 1
  <1>1. /\ EngineState /\ TailInv /\ tail.last \in Nat /\ tail.next \in Nat /\ tail.next - 1 \in Nat
        /\ batch \in Seq(Wanted) /\ (batch # <<>> => Last(batch) \in Nat) /\ seen \in 0..MaxSeq
        /\ MaxSeq \in Nat /\ seen \in Nat /\ Len(batch) \in Nat
    BY TailRuns, Numbers
  <1>2. /\ Waits(batch) /\ consumer.mark <= tail.last
        /\ batch # <<>> => Last(batch) < tail.next /\ Last(batch) <= tail.last
        /\ Upto(tail.next - 1, ToSet(batch)) /\ Upto(seen, ToSet(batch))
    BY <1>1 DEF TailInv, InTail, InRead
  <1>3. consumer.mark \in Nat /\ consumer.mark < tail.next BY <1>1, <1>2, MarkTypes
  <1>4. /\ b \in Seq(Wanted) /\ Waits(b) /\ (b # <<>> => Last(b) <= tail.next)
        /\ ToSet(b) = IF tail.next \in Wanted THEN ToSet(batch) \cup {tail.next} ELSE ToSet(batch)
        /\ Len(b) <= Len(batch) + 1
    <2>1. CASE tail.next \in Wanted
      <3>1. /\ b \in Seq(Wanted) /\ b # <<>> /\ Len(b) = Len(batch) + 1
            /\ ToSet(b) = ToSet(batch) \cup {tail.next} /\ Last(b) = tail.next
            /\ \A i \in 1..Len(batch) + 1 : b[i] = IF i = Len(batch) + 1 THEN tail.next ELSE batch[i]
        BY <1>1, <2>1, Appending
      <3>2. Waits(b)
        <4> SUFFICES ASSUME NEW i \in 1..Len(b) PROVE consumer.mark < b[i] /\ b[i] <= Last(b)
          BY DEF Waits
        <4>1. CASE i = Len(batch) + 1 BY <1>1, <1>3, <3>1, <4>1
        <4>2. CASE i # Len(batch) + 1
          <5>1. i \in 1..Len(batch) /\ b[i] = batch[i] /\ batch # <<>> BY <1>1, <3>1, <4>2
          <5>2. consumer.mark < batch[i] /\ batch[i] <= Last(batch) /\ batch[i] \in Nat
            BY <1>1, <1>2, <5>1, Numbers DEF Waits
          <5>3. QED BY <1>1, <1>2, <3>1, <5>1, <5>2
        <4>3. QED BY <4>1, <4>2
      <3>3. QED BY <1>1, <2>1, <3>1, <3>2
    <2>2. CASE tail.next \notin Wanted BY <1>1, <1>2, <2>2
    <2>3. QED BY <2>1, <2>2
  <1>5. Upto(tail.next, ToSet(b))
    <2>1. \A s \in Wanted : s <= tail.next => s <= tail.next - 1 \/ s = tail.next BY <1>1, Numbers
    <2>2. QED BY <1>2, <1>4, <2>1 DEF Upto
  <1>6. Upto(seen, ToSet(b)) BY <1>2, <1>4 DEF Upto
  <1>7. Max2(seen, tail.next) \in {seen, tail.next} BY <1>1, Max2Is
  <1>8. Upto(Max2(seen, tail.next), ToSet(b)) BY <1>5, <1>6, <1>7
  <1>9. QED BY <1>1, <1>3, <1>4, <1>5, <1>7, <1>8 DEF Accepted

(* accept_event. *)
LEMMA AcceptKept ==
  ASSUME InductiveInv, eng.phase = "live", UNCHANGED engineVars, AcceptEvent
  PROVE  StepKept
  <1> DEFINE s == tail.next
             fresh == s > tail.last
             b == IF fresh /\ s \in Wanted THEN Append(batch, s) ELSE batch
             full == Len(b) >= MaxBatch
             last == IF fresh THEN s ELSE tail.last
             new == IF fresh THEN Max2(seen, s) ELSE seen
             d == IF full THEN b ELSE <<>>
  <1>0. /\ EngineState /\ ConsumerInv /\ TailInv /\ server \in ServerOK /\ faults \in Nat
        /\ cancelled \in BOOLEAN /\ tail \in TailOK /\ tail.next \in Nat /\ tail.last \in Nat
        /\ batch \in Seq(Wanted) /\ Len(batch) < MaxBatch /\ Len(batch) \in Nat /\ ~consumer.gone
        /\ tail.pc = "read"
    BY TailRuns DEF AcceptEvent, Accept, Incoming, Reading
  <1>1. tail.next <= MaxSeq
    BY <1>0, Numbers DEF AcceptEvent, Accept, Incoming, ServerOK
  <1>2. /\ seen' = new /\ batch' = (IF full THEN <<>> ELSE b) /\ Flush(d)
        /\ UNCHANGED <<server, faults, cancelled>>
        /\ LET t == [tail EXCEPT !.next = s + 1, !.last = last]
           IN tail' = IF full /\ consumer'.gone THEN Done(t, "stopped") ELSE t
    BY DEF AcceptEvent, Accept
  <1>3. Accepted(b, last, new) /\ Len(b) <= Len(batch) + 1
    <2>1. CASE fresh BY <1>0, <1>1, <2>1, AcceptFresh
    <2>2. CASE ~fresh BY <1>0, <2>2, AcceptStale
    <2>3. QED BY <2>1, <2>2
  <1> HIDE DEF b, last, new, fresh
  <1>4. /\ b \in Seq(Wanted) /\ Waits(b) /\ Len(b) \in Nat
        /\ b # <<>> => Last(b) <= s /\ Last(b) <= last
        /\ Upto(s, ToSet(b)) /\ Upto(last, ToSet(b)) /\ Upto(new, ToSet(b))
        /\ last \in 0..MaxSeq /\ consumer.mark <= last /\ new \in 0..MaxSeq
    BY <1>3 DEF Accepted
  <1>5. full => b # <<>> BY <1>4, Numbers
  <1>6. d \in Seq(Wanted) /\ d \in {b, <<>>} /\ (~full => d = <<>>) /\ (full => d = b) /\ (full \/ Len(b) < MaxBatch)
    <2>1. <<>> \in Seq(Wanted) OBVIOUS
    <2>2. full \/ Len(b) < MaxBatch BY <1>4, Numbers
    <2>3. QED BY <1>4, <2>1, <2>2
  <1> HIDE DEF d, full
  <1>7. Ready(d)
    <2>1. CASE ~full BY <1>6, <2>1, EmptyReady
    <2>2. CASE full
      <3>1. Last(b) \in Nat BY <1>4, <1>5, <2>2, Events, Numbers
      <3>2. Upto(Last(b), ToSet(b)) BY <1>0, <1>4, <1>5, <2>2, <3>1, Lower
      <3>3. QED BY <1>4, <1>6, <2>2, <3>2 DEF Ready
    <2>3. QED BY <2>1, <2>2
  <1>8. PICK L \in SUBSET Wanted : L = {}
    <2>1. \E L \in SUBSET Wanted : L = {} OBVIOUS
    <2>2. QED BY <2>1
  <1>9. Delivered(d, L) BY <1>0, <1>2, <1>6, <1>7, <1>8, Delivery DEF Ready
  <1>10. HandsOver(d)
    <2>1. UNCHANGED <<origin, saved, owed, forgotten>> BY DEF engineVars
    <2>2. d # <<>> => \A x \in L : Last(d) < x BY <1>8
    <2>3. QED BY <1>0, <1>9, <2>1, <2>2, DeliveryHandsOver
  <1>11. /\ consumer' \in ConsumerOK /\ stats' \in StatsOK
         /\ stats'.tip = stats.tip /\ stats'.through = stats.through
         /\ consumer'.mark = IF d = <<>> THEN consumer.mark ELSE Last(d)
    BY <1>9 DEF Delivered
  <1>12. ~full => consumer' = consumer
    BY <1>2, <1>6 DEF Flush, Flushed
  <1>13. /\ tail' \in TailOK /\ tail'.last = last /\ tail'.next = s + 1
         /\ tail'.pc # "read" => full
         /\ full /\ consumer'.gone => tail'.pc = "done" /\ tail'.outcome = "stopped"
    <2>1. s + 1 \in 1..MaxSeq + 1 BY <1>0, <1>1, Numbers
    <2> DEFINE t == [tail EXCEPT !.next = s + 1, !.last = last]
    <2>2. t \in TailOK /\ t.last = last /\ t.next = s + 1 /\ t.pc = "read"
      BY <1>0, <1>4, <2>1 DEF TailOK
    <2>3. tail' = IF full /\ consumer'.gone THEN Done(t, "stopped") ELSE t BY <1>2
    <2> HIDE DEF t
    <2>4. QED BY <2>2, <2>3 DEF Done, TailOK, TailPcs, Outcomes
  <1>14. batch' \in Seq(Wanted) /\ Len(batch') < MaxBatch
    <2>1. CASE full
      <3>1. <<>> \in Seq(Wanted) /\ Len(<<>>) = 0 OBVIOUS
      <3>2. QED BY <1>2, <2>1, <3>1, Numbers
    <2>2. CASE ~full BY <1>2, <1>4, <1>6, <2>2
    <2>3. QED BY <2>1, <2>2
  <1>15. LiveNext BY <1>0, <1>2, <1>4, <1>13, <1>14 DEF LiveNext
  <1>16. ASSUME NEW n, Upto(n, ToSet(b)) PROVE UptoNext(n, ToSet(batch'))
    <2>1. CASE full
      <3>1. Upto(n, ToSet(batch') \cup ToSet(d)) BY <1>6, <1>16, <2>1 DEF Upto
      <3>2. QED BY <1>0, <1>7, <1>10, <3>1, Carried
    <2>2. CASE ~full
      <3>1. batch' = b BY <1>2, <2>2
      <3>2. QED BY <1>0, <1>7, <1>10, <1>16, <3>1, CarriedAlone
    <2>3. QED BY <2>1, <2>2
  <1>17. TailNext
    <2>1. UptoNext(tail'.last, ToSet(batch')) /\ UptoNext(seen', ToSet(batch'))
      BY <1>2, <1>4, <1>13, <1>16
    <2>2. UptoNext(tail'.next - 1, ToSet(batch'))
      <3>1. tail'.next - 1 = s BY <1>0, <1>13
      <3>2. QED BY <1>4, <1>16, <3>1
    <2>3. consumer'.mark <= tail'.last
      BY <1>4, <1>5, <1>6, <1>11, <1>13
    <2>4. consumer'.gone => tail'.pc = "done" /\ tail'.outcome = "stopped"
      BY <1>0, <1>12, <1>13
    <2>5. /\ \A i \in 1..Len(batch') : consumer'.mark < batch'[i] /\ batch'[i] <= Last(batch')
          /\ batch' # <<>> => Last(batch') < tail'.next /\ Last(batch') <= tail'.last
      <3>1. CASE full
        <4>1. batch' = <<>> /\ Len(<<>>) = 0 BY <1>2, <3>1
        <4>2. QED BY <4>1
      <3>2. CASE ~full
        <4>1. batch' = b /\ consumer'.mark = consumer.mark BY <1>2, <1>12, <3>2
        <4>2. b # <<>> => Last(b) \in Nat BY <1>4, Events, Numbers
        <4>3. b # <<>> => Last(b) < tail'.next BY <1>0, <1>4, <1>13, <4>2
        <4>4. QED BY <1>4, <1>13, <4>1, <4>3 DEF Waits
      <3>3. QED BY <3>1, <3>2
    <2>6. QED BY <1>2, <1>13, <2>1, <2>2, <2>3, <2>4, <2>5 DEF TailNext
  <1>18. QED BY <1>7, <1>10, <1>11, <1>15, <1>17, TailKept DEF StepKept

(* Every step of the live tail. *)
LEMMA LiveStepKept ==
  ASSUME InductiveInv, LiveStep
  PROVE  StepKept
  <1>1. eng.phase = "live" /\ UNCHANGED engineVars /\ TailStep(CanBackfill) /\ CanBackfill \in BOOLEAN
    BY DEF LiveStep, CanBackfill
  <1>2. ASSUME NEW c \in BOOLEAN, TailStep(c) PROVE StepKept
    BY <1>1, <1>2, FetchDictKept, DialKept, RecoverDictKept, ReportAndBackoffKept, AcceptKept,
       SkipFrameKept, FlushTimerKept, DictRejectedKept, ReadCancelledKept, BadFrameKept,
       InfoFrameKept, ConnectionLostKept, FatalFrameKept DEF TailStep
  <1>3. QED BY <1>1, <1>2

-----------------------------------------------------------------------------
(* The server and the token. *)

LEMMA EnvironmentKept ==
  ASSUME InductiveInv, UNCHANGED <<consumer, stats, seen, tail, batch, engineVars>>,
         server' \in ServerOK, faults' \in Nat, cancelled' \in BOOLEAN
  PROVE  StepKept
  <1>0. EngineState /\ ConsumerInv /\ TailInv /\ FloorInv /\ TipInv /\ SweepInv BY DEF InductiveInv
  <1>1. /\ UNCHANGED <<mode, origin, saved, crashes, eng, sweep, page, buf, owed, forgotten>>
        /\ UNCHANGED <<consumer, stats, seen, tail, batch>>
    BY DEF engineVars
  <1>2. EngineState' BY <1>0, <1>1 DEF EngineState, LiveTypeOK, ServerOK
  <1>3. ConsumerInv' BY <1>0, <1>1 DEF ConsumerInv, InTail, Accounted, Excused
  <1>4. \A n, X : Upto(n, X) <=> UptoNext(n, X) BY <1>1 DEF Upto, UptoNext, Handled, Excused
  <1>5. TailInv'
    <2>1. Waits(batch)' BY <1>0, <1>1 DEF TailInv, Waits
    <2>2. QED BY <1>0, <1>1, <1>4, <2>1, UptoPrimed DEF TailInv, InTail, InRead
  <1>6. FloorInv'
    <2>1. Waits(buf)' BY <1>0, <1>1 DEF FloorInv, Waits
    <2>2. QED BY <1>0, <1>1, <1>4, <2>1, UptoPrimed DEF FloorInv
  <1>7. TipInv' BY <1>0, <1>1 DEF TipInv, Upto, Handled, Excused
  <1>8. SweepInv' BY <1>0, <1>1 DEF SweepInv, Upto, UptoTip, Reaches, Chained, Handled, Excused
  <1>9. UNCHANGED Feed!feedVars BY <1>1 DEF Feed!feedVars, Excused
  <1>10. QED BY <1>2, <1>3, <1>5, <1>6, <1>7, <1>8, <1>9 DEF StepKept, InductiveInv

LEMMA ServerKept ==
  ASSUME InductiveInv, (Environment /\ UNCHANGED engineVars) \/ ServerSeal
  PROVE  StepKept
  <1>0. EngineState /\ server \in ServerOK /\ faults \in Nat /\ cancelled \in BOOLEAN
    BY DEF InductiveInv, EngineState, LiveTypeOK, ServerOK
  <1>1. UNCHANGED <<consumer, stats, seen, tail, batch, engineVars>>
    BY DEF Environment, ServerIssue, ServerTrim, ServerRotateDict, Cancel, ServerSeal
  <1>2. faults' \in Nat /\ cancelled' \in BOOLEAN
    <2>1. faults' = faults \/ (faults > 0 /\ faults' = faults - 1)
      BY DEF Environment, ServerIssue, ServerTrim, ServerRotateDict, Cancel, ServerSeal
    <2>2. cancelled' = cancelled \/ cancelled' = TRUE
      BY DEF Environment, ServerIssue, ServerTrim, ServerRotateDict, Cancel, ServerSeal
    <2>3. faults' \in Nat BY <1>0, <2>1
    <2>4. cancelled' \in BOOLEAN BY <1>0, <2>2, Zenon
    <2>5. QED BY <2>3, <2>4
  <1>3. server' \in ServerOK
    <2>0. /\ server.written \in 0..MaxSeq /\ server.trimmed \in 0..MaxSeq
          /\ server.sealed \in 0..MaxSeq /\ server.dict \in Dicts
      BY <1>0 DEF ServerOK
    <2>1. CASE ServerIssue BY <1>0, <2>0, <2>1, Numbers DEF ServerIssue, ServerOK
    <2>2. CASE ServerTrim BY <1>0, <2>0, <2>2, Numbers DEF ServerTrim, ServerOK
    <2>3. CASE ServerRotateDict BY <1>0, <2>3 DEF ServerRotateDict, ServerOK
    <2>4. CASE Cancel BY <1>0, <2>4 DEF Cancel
    <2>5. CASE ServerSeal BY <1>0, <2>0, <2>5, Numbers DEF ServerSeal, ServerOK
    <2>6. QED BY <2>1, <2>2, <2>3, <2>4, <2>5 DEF Environment
  <1>4. QED BY <1>1, <1>2, <1>3, EnvironmentKept

-----------------------------------------------------------------------------
(* The archive. *)

EngOK == [phase : Phases, after : 0..MaxSeq, prev : (0..MaxSeq) \X (0..MaxSeq) \X (0..MaxSeq),
          stalls : 0..MaxStalls, result : Results]
SweepOK == [tip : 0..NoTip, through : 0..MaxSeq, index : Nat, pages : 0..MaxPages,
            floor : 0..MaxSeq, after : 0..MaxSeq]
PageStates == [entries : Seq(EntryOK), entry : EntryOK, rows : SUBSET Wanted]

(* What no step of run_projected outside of the live tail touches. *)
EngineFrame == UNCHANGED <<server, cancelled, seen, batch, mode, origin, saved, crashes, forgotten>>

(* The engine's variables after a step. *)
EngineNextOK ==
  /\ faults' \in Nat /\ consumer' \in ConsumerOK /\ stats' \in StatsOK /\ tail' \in TailOK
  /\ eng' \in EngOK /\ sweep' \in SweepOK /\ page' \in PageStates
  /\ buf' \in Seq(Wanted) /\ Len(buf') < MaxBatch /\ owed' \subseteq Wanted

LEMMA EngineTypes ==
  ASSUME EngineState
  PROVE  /\ faults \in Nat /\ consumer \in ConsumerOK /\ stats \in StatsOK /\ tail \in TailOK
         /\ eng \in EngOK /\ sweep \in SweepOK /\ page \in PageStates
         /\ buf \in Seq(Wanted) /\ Len(buf) < MaxBatch /\ owed \subseteq Wanted
         /\ seen \in 0..MaxSeq /\ seen \in Nat
  <1>1. consumer \in ConsumerOK /\ stats \in StatsOK BY SinkTypes
  <1>2. /\ faults \in Nat /\ tail \in TailOK /\ eng \in EngOK /\ sweep \in SweepOK
        /\ page \in PageStates /\ seen \in 0..MaxSeq
    BY DEF EngineState, LiveTypeOK, TailOK, EngOK, SweepOK, PageStates
  <1>3. buf \in Seq(Wanted) /\ Len(buf) < MaxBatch /\ owed \subseteq Wanted BY DEF EngineState
  <1>4. QED BY <1>1, <1>2, <1>3, Numbers

(* A step of run_projected while no live event waits. *)
LEMMA EngineKept ==
  ASSUME InductiveInv, batch = <<>>, EngineFrame, EngineNextOK, NEW b, Ready(b), HandsOver(b),
         consumer'.gone => eng'.phase = "ended",
         eng'.phase = "live" =>
           tail'.pc # "read" /\ consumer'.mark <= tail'.last /\ UptoNext(tail'.last, {}),
         FloorInv', TipInv', SweepInv'
  PROVE  StepKept
  <1>0. EngineState /\ ConsumerInv /\ TailInv BY DEF InductiveInv
  <1>1. EngineState'
    <2>1. LiveTypeOK'
      <3>1. Wanted \subseteq Seqs BY Numbers
      <3>2. consumer' \in [got : SUBSET Seqs, mark : 0..MaxSeq, lost : SUBSET Seqs,
                           gone : BOOLEAN, late : BOOLEAN]
        BY <3>1 DEF ConsumerOK, EngineNextOK
      <3>3. /\ UNCHANGED <<server, cancelled, seen, batch>> /\ faults' \in Nat
            /\ stats' \in StatsOK /\ tail' \in TailOK
        BY DEF EngineFrame, EngineNextOK
      <3>4. QED BY <1>0, <3>2, <3>3 DEF EngineState, LiveTypeOK, StatsOK, TailOK
    <2>2. eng' \in EngOK /\ sweep' \in SweepOK /\ page' \in PageStates BY DEF EngineNextOK
    <2>3. /\ UNCHANGED <<mode, origin, saved, crashes, batch, forgotten>>
          /\ buf' \in Seq(Wanted) /\ Len(buf') < MaxBatch /\ owed' \subseteq Wanted
          /\ consumer'.got \subseteq Wanted /\ consumer'.lost \subseteq Wanted
      BY DEF EngineFrame, EngineNextOK, ConsumerOK
    <2>4. QED BY <1>0, <2>1, <2>2, <2>3 DEF EngineState, EngOK, SweepOK, PageStates
  <1>2. ConsumerInv' BY <1>0, ConsumerKept DEF LeftAlone
  <1>3. TailInv'
    <2>1. batch' = <<>> /\ seen' = seen /\ Len(<<>>) = 0 BY DEF EngineFrame
    <2>2. ToSet(batch) = {} /\ ToSet(batch') = {} BY <2>1, Events DEF ToSet
    <2>3. UptoNext(seen, {}) BY <1>0, <2>2, CarriedAlone DEF TailInv
    <2>4. Waits(batch)' BY <2>1, WaitsPrimed
    <2>5. QED BY <2>1, <2>2, <2>3, <2>4, UptoPrimed DEF TailInv, InTail, InRead
  <1>4. [Feed!FeedNext]_(Feed!feedVars) BY <1>0, FeedKept
  <1>5. QED BY <1>1, <1>2, <1>3, <1>4 DEF StepKept, InductiveInv

SweepPhases == {"plan", "page", "entry", "rows"}

(* During a sweep no live event waits, the consumer is there, and replay_page *)
(* has a batch only while it goes through rows.                               *)
LEMMA Sweeping ==
  ASSUME InductiveInv, eng.phase \in SweepPhases
  PROVE  /\ batch = <<>> /\ ~consumer.gone /\ consumer.mark <= sweep.floor /\ mode # "live"
         /\ eng.phase # "rows" => buf = <<>>
         /\ EngineState /\ ConsumerInv /\ TailInv /\ FloorInv /\ TipInv /\ SweepInv
         /\ Ready(buf)
  <1>1. EngineState /\ ConsumerInv /\ TailInv /\ FloorInv /\ TipInv /\ SweepInv BY DEF InductiveInv
  <1>2. batch = <<>> BY <1>1 DEF TailInv, InRead, SweepPhases
  <1>3. ~consumer.gone BY <1>1 DEF ConsumerInv, InTail, SweepPhases
  <1>4. consumer.mark <= sweep.floor /\ mode # "live" /\ (eng.phase # "rows" => buf = <<>>)
    BY <1>1 DEF FloorInv, SweepPhases
  <1>5. QED BY <1>1, <1>2, <1>3, <1>4, BufReady

(* The floors, when replay_page hands over its batch. *)
LEMMA FloorKept ==
  ASSUME InductiveInv, eng.phase \in SweepPhases, HandsOver(buf), buf' = <<>>,
         mode' = mode, sweep'.floor = sweep.floor, eng'.after = eng.after, stats'.through = stats.through,
         eng'.phase \in SweepPhases \cup {"ended"}
  PROVE  FloorInv'
  <1>1. EngineState /\ FloorInv /\ consumer.mark <= sweep.floor /\ Ready(buf) BY Sweeping
  <1>2. ToSet(buf') = {} /\ Len(buf') = 0 BY DEF ToSet
  <1>3. Waits(buf)' BY <1>2, WaitsPrimed
  <1>4. UptoNext(eng'.after, {}) /\ UptoNext(stats'.through, {})
    BY <1>1, CarriedAlone DEF FloorInv
  <1>5. UptoNext(sweep'.floor, ToSet(buf'))
    <2>1. Upto(sweep.floor, ToSet(buf') \cup ToSet(buf)) BY <1>1 DEF FloorInv, Upto
    <2>2. QED BY <1>1, <2>1, Carried
  <1>6. consumer'.mark <= sweep'.floor /\ mode' # "live"
    BY <1>1 DEF HandsOver, FloorInv, SweepPhases
  <1>7. QED BY <1>3, <1>4, <1>5, <1>6, UptoPrimed DEF FloorInv, SweepPhases

(* The sealed tip, while the sweep goes on. *)
LEMMA TipKept ==
  ASSUME InductiveInv, eng.phase \in SweepPhases, NEW b, Ready(b), HandsOver(b),
         sweep'.tip = sweep.tip, stats'.tip = stats.tip, eng'.phase \in SweepPhases \cup {"ended"}
  PROVE  TipInv'
  <1>1. EngineState /\ TipInv BY Sweeping
  <1>2. consumer.mark <= consumer'.mark /\ consumer.mark \in Nat /\ consumer'.mark \in Nat
    BY <1>1, MarkMoves, MarkTypes
  <1>3. ASSUME NEW s \in Wanted, origin' < s, s <= stats'.tip
        PROVE  (s <= consumer'.mark \/ s \in Excused') \/ (sweep'.tip # NoTip /\ s <= sweep'.tip)
    <2>1. Handled(s) \/ (sweep.tip # NoTip /\ s <= sweep.tip)
      BY <1>1, <1>3 DEF TipInv, HandsOver, SweepPhases
    <2>2. s \in Nat BY Numbers
    <2>3. QED BY <1>2, <2>1, <2>2 DEF Handled, HandsOver
  <1>4. QED BY <1>3 DEF TipInv, Handled, SweepPhases

(* UptoTip and Reaches, of the next state. *)
UptoTipNext(n, X) ==
  \A s \in Wanted : origin' < s /\ s <= n /\ s <= sweep'.tip =>
    s <= consumer'.mark \/ s \in Excused' \/ s \in X

ReachesNext(E, n) ==
  /\ Chained(E) /\ sweep'.through <= sweep'.tip
  /\ E = <<>> => sweep'.through <= n
  /\ E # <<>> => E[1].lo <= n + 1 /\ sweep'.through <= E[Len(E)].hi

LEMMA TipCarried ==
  ASSUME EngineState, NEW b, Ready(b), HandsOver(b), NEW n, NEW X,
         sweep'.tip = sweep.tip, UptoTip(n, X \cup ToSet(b))
  PROVE  UptoTipNext(n, X)
  <1>1. /\ consumer'.mark \in Nat /\ consumer.mark <= consumer'.mark /\ consumer.mark \in Nat
        /\ \A s \in ToSet(b) : s <= consumer'.mark
    BY MarkMoves, MarkTypes
  <1> SUFFICES ASSUME NEW s \in Wanted, origin' < s, s <= n, s <= sweep'.tip
               PROVE  s <= consumer'.mark \/ s \in Excused' \/ s \in X
    BY DEF UptoTipNext
  <1>2. Handled(s) \/ s \in X \/ s \in ToSet(b) BY DEF UptoTip, HandsOver
  <1>3. s \in Nat BY Numbers
  <1>4. QED BY <1>1, <1>2, <1>3 DEF Handled, HandsOver

LEMMA SweepPrimed ==
  /\ UptoTip(page.entries[1].lo - 1, {})' <=> UptoTipNext(page'.entries[1].lo - 1, {})
  /\ UptoTip(page.entry.lo - 1, ToSet(buf) \cup page.rows)'
       <=> UptoTipNext(page'.entry.lo - 1, ToSet(buf') \cup page'.rows)
  /\ Reaches(page.entries, page.entries[1].lo - 1)'
       <=> ReachesNext(page'.entries, page'.entries[1].lo - 1)
  /\ Reaches(page.entries, page.entry.hi)' <=> ReachesNext(page'.entries, page'.entry.hi)
  BY DEF UptoTip, UptoTipNext, Reaches, ReachesNext, Chained, Handled

(* The sweep at the start of the rest of a page: all up to n is done. *)
LEMMA AtPage ==
  ASSUME eng'.phase = "page", page'.rows = {}, UptoNext(sweep'.after, {}),
         sweep' \in SweepOK, page' \in PageStates,
         \/ page'.entries = <<>> /\ UptoNext(sweep'.through, {})
         \/ \E n \in Nat : UptoTipNext(n, {}) /\ ReachesNext(page'.entries, n)
  PROVE  SweepInv'
  <1> DEFINE E == page'.entries
  <1>0. /\ sweep'.through \in Nat /\ sweep'.tip \in Nat /\ E \in Seq(EntryOK)
    BY Numbers DEF SweepOK, PageStates
  <1>1. CASE E = <<>>
    <2>1. UptoNext(sweep'.through, {})
      <3>1. CASE \E n \in Nat : UptoTipNext(n, {}) /\ ReachesNext(E, n)
        <4>1. PICK n \in Nat : UptoTipNext(n, {}) /\ ReachesNext(E, n) BY <3>1
        <4>2. sweep'.through <= sweep'.tip /\ sweep'.through <= n BY <1>1, <4>1 DEF ReachesNext
        <4>3. \A s \in Wanted : s <= sweep'.through => s <= n /\ s <= sweep'.tip
          BY <1>0, <4>2, Numbers
        <4>4. QED BY <4>1, <4>3 DEF UptoTipNext, UptoNext
      <3>2. QED BY <3>1
    <2>2. QED BY <1>1, <2>1, UptoPrimed DEF SweepInv
  <1>2. CASE E # <<>>
    <2>1. PICK n \in Nat : UptoTipNext(n, {}) /\ ReachesNext(E, n) BY <1>2
    <2>2. E[1] \in EntryOK /\ Len(E) \in Nat /\ Len(E) >= 1 BY <1>0, <1>2, HeadTail
    <2>3. E[1].lo \in Nat /\ E[1].lo >= 1 BY <2>2 DEF EntryOK
    <2>4. E[1].lo <= n + 1 BY <1>2, <2>1 DEF ReachesNext
    <2>5. UptoTipNext(E[1].lo - 1, {})
      <3>1. \A s \in Wanted : s <= E[1].lo - 1 => s <= n BY <2>3, <2>4, Numbers
      <3>2. QED BY <2>1, <3>1 DEF UptoTipNext
    <2>6. ReachesNext(E, E[1].lo - 1)
      <3>1. E[1].lo <= (E[1].lo - 1) + 1 BY <2>3
      <3>2. QED BY <1>2, <2>1, <3>1 DEF ReachesNext
    <2> HIDE DEF E
    <2>7. QED BY <1>2, <2>5, <2>6, UptoPrimed, SweepPrimed DEF SweepInv, E
  <1>3. QED BY <1>1, <1>2

(* The sweep within an entry. *)
LEMMA AtEntry ==
  ASSUME eng'.phase \in {"entry", "rows"}, UptoNext(sweep'.after, {}),
         UptoTipNext(page'.entry.lo - 1, ToSet(buf') \cup page'.rows),
         ReachesNext(page'.entries, page'.entry.hi),
         \A s \in page'.rows : s < page'.entry.lo /\ s <= sweep'.tip,
         eng'.phase = "entry" => page'.rows = {}
  PROVE  SweepInv'
  BY UptoPrimed, SweepPrimed DEF SweepInv

(* End and To. *)
LEMMA Moves ==
  ASSUME eng \in EngOK
  PROVE  /\ \A ph \in Phases : To(ph) => /\ eng' \in EngOK /\ eng'.phase = ph
                                         /\ eng'.after = eng.after /\ eng'.result = eng.result
         /\ \A r \in Results : End(r) => /\ eng' \in EngOK /\ eng'.phase = "ended"
                                         /\ eng'.after = eng.after /\ eng'.result = r
  BY DEF EngOK, To, End, Phases

(* A step in which the sink is not called. *)
LEMMA Silent ==
  ASSUME EngineState, ConsumerInv, UNCHANGED <<consumer, origin, saved, forgotten>>,
         stats'.processed = stats.processed, owed \subseteq owed', owed' \subseteq Wanted,
         NEW e, e = <<>>
  PROVE  Ready(e) /\ HandsOver(e)
  <1>1. Ready(e) BY EmptyReady
  <1>2. ToSet(e) = {} BY DEF ToSet
  <1>3. Excused \subseteq Excused' /\ Excused' \subseteq Wanted
    <2>1. Excused' = consumer.lost \cup owed' \cup forgotten BY DEF Excused
    <2>2. Excused \subseteq Wanted BY MarkTypes
    <2>3. QED BY <2>1, <2>2 DEF Excused
  <1>4. QED BY <1>1, <1>2, <1>3 DEF HandsOver, ConsumerInv

(* Nothing is left to do in phases outside of a sweep. *)
LEMMA Idle ==
  ASSUME eng'.phase \in {"top", "cutover", "live", "ended"}
  PROVE  SweepInv'
  BY DEF SweepInv

LEMMA StartSweepKept ==
  ASSUME InductiveInv, StartSweep
  PROVE  StepKept
  <1>0. EngineState /\ ConsumerInv /\ TailInv /\ FloorInv /\ TipInv /\ SweepInv /\ eng.phase = "top"
    BY DEF InductiveInv, StartSweep
  <1>1. /\ consumer \in ConsumerOK /\ stats \in StatsOK /\ tail \in TailOK /\ eng \in EngOK
        /\ sweep \in SweepOK /\ page \in PageStates /\ buf \in Seq(Wanted) /\ Len(buf) < MaxBatch
        /\ owed \subseteq Wanted /\ faults \in Nat
    BY <1>0, EngineTypes
  <1>2. batch = <<>> /\ buf = <<>> /\ ~consumer.gone
    BY <1>0 DEF TailInv, FloorInv, InRead, ConsumerInv, InTail
  <1>3. UNCHANGED <<liveVars, mode, origin, saved, crashes, page, buf, owed, forgotten>>
    BY DEF StartSweep
  <1>4. UNCHANGED <<server, faults, cancelled, consumer, stats, seen, tail, batch>>
    BY <1>3 DEF liveVars
  <1>5. Ready(buf) /\ HandsOver(buf) BY <1>0, <1>1, <1>2, <1>3, <1>4, Silent
  <1>6. EngineFrame BY <1>3, <1>4 DEF EngineFrame
  <1>7. /\ eng' \in EngOK /\ eng'.phase \in {"ended", "cutover", "plan"} /\ eng'.after = eng.after
        /\ eng'.phase # "plan" => sweep' = sweep
        /\ eng'.phase = "plan" =>
             sweep' = [tip |-> NoTip, through |-> eng.after, index |-> 0, pages |-> 0,
                       floor |-> eng.after, after |-> eng.after]
    <2>1. "cutover" \in Phases /\ "plan" \in Phases /\ "ok" \in Results BY DEF Phases, Results
    <2>2. QED BY <1>1, <2>1, Moves DEF StartSweep
  <1>8. eng.after \in 0..MaxSeq /\ eng.after \in Nat BY <1>1, Numbers DEF EngOK
  <1>9. sweep' \in SweepOK
    <2>1. NoTip \in 0..NoTip /\ 0 \in 0..MaxPages /\ 0 \in Nat BY Numbers
    <2>2. QED BY <1>1, <1>7, <1>8, <2>1 DEF SweepOK
  <1>10. EngineNextOK BY <1>1, <1>3, <1>4, <1>7, <1>9 DEF EngineNextOK
  <1>11. \A n, X : Upto(n, X) => UptoNext(n, X) BY <1>0, <1>5, CarriedAlone
  <1>12. ToSet(buf) = {} BY <1>2 DEF ToSet
  <1>13. FloorInv'
    <2>1. UptoNext(eng.after, {}) /\ UptoNext(stats.through, {}) BY <1>0, <1>11 DEF FloorInv
    <2>2. UptoNext(sweep.floor, {}) BY <1>0, <1>11, <1>12 DEF FloorInv
    <2>3. UptoNext(sweep'.floor, ToSet(buf'))
      BY <1>3, <1>7, <1>12, <2>1, <2>2
    <2>4. Waits(buf)' BY <1>0, <1>3, <1>4 DEF FloorInv, Waits
    <2>5. consumer.mark <= eng.after BY <1>0 DEF FloorInv
    <2>6. eng'.phase = "plan" => consumer'.mark <= sweep'.floor /\ mode' # "live"
      <3>1. eng'.phase = "plan" => mode # "live" BY <1>1 DEF StartSweep, CanBackfill, End, To, EngOK
      <3>2. QED BY <1>3, <1>4, <1>7, <2>5, <3>1
    <2>7. QED BY <1>2, <1>3, <1>4, <1>7, <2>1, <2>3, <2>4, <2>5, <2>6, UptoPrimed DEF FloorInv
  <1>14. TipInv'
    <2>1. UptoNext(stats.tip, {}) BY <1>0, <1>11 DEF TipInv
    <2>2. \A s \in Wanted : origin' < s /\ s <= stats'.tip => s <= consumer'.mark \/ s \in Excused'
      BY <1>4, <2>1 DEF UptoNext
    <2>3. QED BY <1>4, <2>1, <2>2, UptoPrimed DEF TipInv, Handled
  <1>15. SweepInv'
    <2>1. CASE eng'.phase # "plan" BY <1>7, <2>1, Idle
    <2>2. CASE eng'.phase = "plan"
      <3>1. sweep'.through = eng.after BY <1>7, <2>2
      <3>2. UptoNext(eng.after, {}) BY <1>0, <1>11 DEF FloorInv
      <3>3. QED BY <2>2, <3>1, <3>2, UptoPrimed DEF SweepInv
    <2>3. QED BY <2>1, <2>2
  <1>16. QED BY <1>2, <1>4, <1>5, <1>6, <1>7, <1>10, <1>13, <1>14, <1>15, EngineKept

LEMMA PlanPageKept ==
  ASSUME InductiveInv, PlanPage
  PROVE  StepKept
  <1>0. eng.phase = "plan" /\ eng.phase \in SweepPhases BY DEF PlanPage, SweepPhases
  <1>1. /\ EngineState /\ ConsumerInv /\ TailInv /\ FloorInv /\ TipInv /\ SweepInv
        /\ batch = <<>> /\ buf = <<>> /\ ~consumer.gone /\ consumer.mark <= sweep.floor
    BY <1>0, Sweeping
  <1>2. /\ consumer \in ConsumerOK /\ stats \in StatsOK /\ tail \in TailOK /\ eng \in EngOK
        /\ sweep \in SweepOK /\ page \in PageStates /\ buf \in Seq(Wanted) /\ Len(buf) < MaxBatch
        /\ owed \subseteq Wanted /\ faults \in Nat
    BY <1>1, EngineTypes
  <1>3. UNCHANGED <<server, cancelled, consumer, seen, tail, batch,
                    mode, origin, saved, crashes, buf, owed, forgotten>>
    BY DEF PlanPage
  <1>4. EngineFrame BY <1>3 DEF EngineFrame
  <1>5. faults' \in Nat
    <2>1. faults' = faults \/ Fault BY DEF PlanPage
    <2>2. QED BY <1>2, <2>1 DEF Fault
  <1>6. "page" \in Phases /\ "ok" \in Results /\ "fatal" \in Results BY DEF Phases, Results
  <1>7. CASE (End("ok") \/ End("fatal")) /\ UNCHANGED <<stats, sweep, page>>
    <2>1. eng' \in EngOK /\ eng'.phase = "ended" /\ eng'.after = eng.after
      BY <1>2, <1>6, <1>7, Moves
    <2>2. Ready(buf) /\ HandsOver(buf) BY <1>1, <1>2, <1>3, <1>7, Silent
    <2>3. EngineNextOK BY <1>2, <1>3, <1>5, <1>7, <2>1 DEF EngineNextOK
    <2>4. FloorInv' BY <1>0, <1>1, <1>3, <1>7, <2>1, <2>2, FloorKept
    <2>5. TipInv' BY <1>0, <1>1, <1>7, <2>1, <2>2, TipKept
    <2>6. SweepInv' BY <2>1, Idle
    <2>7. QED BY <1>1, <1>4, <2>1, <2>2, <2>3, <2>4, <2>5, <2>6, EngineKept
  <1>8. ASSUME NEW p \in Pages, ~PageRejected(p), To("page"),
               sweep' = [sweep EXCEPT
                  !.tip = p.tip, !.pages = @ + 1, !.after = sweep.through,
                  !.through = Max2(@, p.through),
                  !.index = IF p.entries = <<>> THEN @ ELSE Last(p.entries).idx],
               stats' = [stats EXCEPT !.tip = Max2(@, p.tip)],
               page' = [entries |-> p.entries, entry |-> NoEntry, rows |-> {}]
        PROVE  StepKept
    <2>1. /\ PageOK(sweep.through, p) /\ (sweep.tip # NoTip => p.tip = sweep.tip)
          /\ sweep.pages + 1 <= MaxPages
      BY <1>1, <1>8, AbsorbedPage
    <2>2. /\ p.tip \in 0..MaxSeq /\ p.through \in 0..MaxSeq /\ p.entries \in Seq(EntryOK)
          /\ p.tip \in Nat /\ p.through \in Nat /\ MaxSeq \in Nat
      BY <2>1, Numbers DEF PageOK
    <2>3. /\ sweep.through \in 0..MaxSeq /\ sweep.through \in Nat /\ sweep.pages \in Nat
          /\ stats.tip \in 0..MaxSeq /\ stats.tip \in Nat /\ sweep.index \in Nat
      BY <1>2, Numbers DEF SweepOK, StatsOK
    <2> DEFINE thr == Max2(sweep.through, p.through)
               tp == Max2(stats.tip, p.tip)
               ix == IF p.entries = <<>> THEN sweep.index ELSE Last(p.entries).idx
    <2>4. thr \in {sweep.through, p.through} /\ tp \in {stats.tip, p.tip}
          /\ sweep.through <= thr /\ p.through <= thr /\ thr \in 0..MaxSeq /\ tp \in 0..MaxSeq
      BY <2>2, <2>3, Max2Is
    <2>5. ix \in Nat
      <3>1. p.entries # <<>> => Last(p.entries) \in EntryOK BY <2>2, Events
      <3>2. QED BY <2>3, <3>1 DEF EntryOK
    <2>6. /\ sweep' = [sweep EXCEPT !.tip = p.tip, !.pages = @ + 1, !.after = sweep.through,
                                    !.through = thr, !.index = ix]
          /\ stats' = [stats EXCEPT !.tip = tp]
      BY <1>8
    <2> HIDE DEF thr, tp, ix
    <2>7. /\ sweep' \in SweepOK /\ sweep'.tip = p.tip /\ sweep'.after = sweep.through
          /\ sweep'.through = thr /\ sweep'.floor = sweep.floor
      <3>1. p.tip \in 0..NoTip /\ sweep.pages + 1 \in 0..MaxPages BY <2>1, <2>2, <2>3, Numbers
      <3>2. QED BY <1>2, <2>3, <2>4, <2>5, <2>6, <3>1 DEF SweepOK
    <2>8. /\ stats' \in StatsOK /\ stats'.tip = tp /\ stats'.through = stats.through
          /\ stats'.processed = stats.processed
      BY <1>2, <2>4, <2>6 DEF StatsOK
    <2>9. eng' \in EngOK /\ eng'.phase = "page" /\ eng'.after = eng.after
      BY <1>2, <1>6, <1>8, Moves
    <2>10. page' \in PageStates /\ page'.entries = p.entries /\ page'.rows = {}
      <3>1. NoEntry \in EntryOK BY DEF NoEntry, EntryOK
      <3>2. QED BY <1>8, <2>2, <3>1 DEF PageStates
    <2>11. EngineNextOK BY <1>2, <1>3, <1>5, <2>7, <2>8, <2>9, <2>10 DEF EngineNextOK
    <2>12. Ready(buf) /\ HandsOver(buf) BY <1>1, <1>2, <1>3, <2>8, Silent
    <2>13. FloorInv' BY <1>0, <1>1, <1>3, <2>7, <2>8, <2>9, <2>12, FloorKept DEF SweepPhases
    <2>14. \A n, X : Upto(n, X) => UptoNext(n, X) BY <1>1, <2>12, CarriedAlone
    <2>15. UptoNext(sweep.through, {}) BY <1>0, <1>1, <2>14 DEF SweepInv
    <2>16. TipInv'
      <3>1. \A s \in Wanted : Handled(s) => s <= consumer'.mark \/ s \in Excused'
        BY <1>3, <2>12 DEF Handled, HandsOver
      <3>2. ASSUME NEW s \in Wanted, origin' < s, s <= stats'.tip
            PROVE  (s <= consumer'.mark \/ s \in Excused') \/ (sweep'.tip # NoTip /\ s <= sweep'.tip)
        <4>1. p.tip # NoTip /\ sweep'.tip = p.tip /\ stats'.tip = tp BY <2>2, <2>7, <2>8, Numbers
        <4>2. CASE tp = p.tip BY <3>2, <4>1, <4>2
        <4>3. CASE tp = stats.tip
          <5>1. Handled(s) \/ (sweep.tip # NoTip /\ s <= sweep.tip)
            BY <1>0, <1>1, <1>3, <2>8, <3>2, <4>3 DEF TipInv
          <5>2. QED BY <2>1, <2>7, <3>1, <4>1, <5>1
        <4>4. QED BY <2>4, <4>2, <4>3
      <3>3. QED BY <2>9, <3>2 DEF TipInv, Handled
    <2>17. SweepInv'
      <3>1. CASE p.entries = <<>> /\ p.through <= sweep.through
        <4>1. thr = sweep.through BY <2>2, <2>3, <3>1 DEF thr, Max2
        <4>2. QED BY <2>7, <2>9, <2>10, <2>15, <3>1, <4>1, AtPage
      <3>2. CASE /\ p.entries # <<>> /\ sweep.through < p.through /\ p.through <= p.tip
                 /\ Chained(p.entries) /\ p.entries[1].lo <= sweep.through + 1
                 /\ p.through <= p.entries[Len(p.entries)].hi
        <4>1. thr = p.through BY <2>2, <2>3, <3>2 DEF thr, Max2
        <4>2. ReachesNext(p.entries, sweep.through) BY <2>7, <3>2, <4>1 DEF ReachesNext
        <4>3. UptoTipNext(sweep.through, {}) BY <2>15 DEF UptoNext, UptoTipNext
        <4>4. QED BY <2>3, <2>7, <2>9, <2>10, <2>15, <4>2, <4>3, AtPage
      <3>3. QED BY <2>1, <3>1, <3>2 DEF PageOK
    <2>18. QED BY <1>1, <1>3, <1>4, <2>9, <2>11, <2>12, <2>13, <2>16, <2>17, EngineKept
  <1>9. QED BY <1>7, <1>8 DEF PlanPage

(* Only now is the page counted as covered: all of it is. *)
LEMMA FinishPageKept ==
  ASSUME InductiveInv, FinishPage
  PROVE  StepKept
  <1>0. eng.phase = "page" /\ eng.phase \in SweepPhases /\ page.entries = <<>>
    BY DEF FinishPage, SweepPhases
  <1>1. /\ EngineState /\ ConsumerInv /\ TailInv /\ FloorInv /\ TipInv /\ SweepInv
        /\ batch = <<>> /\ buf = <<>> /\ ~consumer.gone /\ consumer.mark <= sweep.floor
        /\ mode # "live"
    BY <1>0, Sweeping
  <1>2. /\ consumer \in ConsumerOK /\ stats \in StatsOK /\ tail \in TailOK /\ eng \in EngOK
        /\ sweep \in SweepOK /\ page \in PageStates /\ buf \in Seq(Wanted) /\ Len(buf) < MaxBatch
        /\ owed \subseteq Wanted /\ faults \in Nat
    BY <1>1, EngineTypes
  <1>3. UNCHANGED <<server, faults, cancelled, consumer, seen, tail, batch,
                    mode, origin, saved, crashes, sweep, page, buf, owed, forgotten>>
    BY DEF FinishPage
  <1>4. EngineFrame BY <1>3 DEF EngineFrame
  <1>5. /\ sweep.through \in 0..MaxSeq /\ sweep.through \in Nat /\ sweep.tip \in Nat
        /\ stats.through \in 0..MaxSeq /\ stats.through \in Nat /\ stats.tip \in Nat
    BY <1>2, Numbers DEF SweepOK, StatsOK
  <1> DEFINE thr == Max2(stats.through, sweep.through)
  <1>6. thr \in {stats.through, sweep.through} BY <1>5, Max2Is
  <1>7. stats' = [stats EXCEPT !.through = thr] BY DEF FinishPage
  <1> HIDE DEF thr
  <1>8. /\ stats' \in StatsOK /\ stats'.through = thr /\ stats'.tip = stats.tip
        /\ stats'.processed = stats.processed
    BY <1>2, <1>5, <1>6, <1>7 DEF StatsOK
  <1>9. /\ eng' \in EngOK /\ eng'.after = eng.after
        /\ \/ eng'.phase = "plan" \/ eng'.phase = "ended"
           \/ eng'.phase = "cutover" /\ ~(sweep.through < sweep.tip) /\ mode # "live"
    <2>1. "cutover" \in Phases /\ "plan" \in Phases /\ "ok" \in Results BY DEF Phases, Results
    <2>2. CASE sweep.through < sweep.tip BY <1>2, <2>1, <2>2, Moves DEF FinishPage
    <2>3. CASE ~(sweep.through < sweep.tip) /\ mode = "snapshot"
      BY <1>2, <2>1, <2>3, Moves DEF FinishPage
    <2>4. CASE ~(sweep.through < sweep.tip) /\ mode # "snapshot"
      <3>1. To("cutover") BY <2>4 DEF FinishPage
      <3>2. eng' \in EngOK /\ eng'.after = eng.after /\ eng'.phase = "cutover"
        BY <1>2, <2>1, <3>1, Moves
      <3>3. mode # "live" BY <1>0, Sweeping
      <3>4. QED BY <2>4, <3>2, <3>3
    <2>5. QED BY <2>2, <2>3, <2>4
  <1>10. EngineNextOK BY <1>2, <1>3, <1>8, <1>9 DEF EngineNextOK
  <1>11. Ready(buf) /\ HandsOver(buf) BY <1>1, <1>2, <1>3, <1>8, Silent
  <1>12. \A n, X : Upto(n, X) => UptoNext(n, X) BY <1>1, <1>11, CarriedAlone
  <1>13. Upto(sweep.through, {}) BY <1>0, <1>1 DEF SweepInv
  <1>14. FloorInv'
    <2>1. UptoNext(eng.after, {}) /\ UptoNext(stats.through, {}) /\ UptoNext(sweep.through, {})
          /\ UptoNext(sweep.floor, ToSet(buf))
      BY <1>1, <1>12, <1>13 DEF FloorInv
    <2>2. UptoNext(stats'.through, {}) BY <1>6, <1>8, <2>1
    <2>3. Waits(buf)' BY <1>1, <1>3 DEF FloorInv, Waits
    <2>4. QED BY <1>1, <1>3, <1>9, <2>1, <2>2, <2>3, UptoPrimed DEF FloorInv
  <1>15. TipInv'
    <2>1. CASE eng'.phase \in {"plan", "ended"}
      BY <1>0, <1>1, <1>3, <1>8, <1>11, <2>1, TipKept DEF SweepPhases
    <2>2. CASE eng'.phase = "cutover" /\ ~(sweep.through < sweep.tip)
      <3>1. ASSUME NEW s \in Wanted, origin < s, s <= stats.tip PROVE Handled(s)
        <4>1. Handled(s) \/ s <= sweep.tip BY <1>0, <1>1, <3>1 DEF TipInv
        <4>2. s <= sweep.tip => s <= sweep.through BY <1>5, <2>2, Numbers
        <4>3. QED BY <1>13, <3>1, <4>1, <4>2 DEF Upto
      <3>2. Upto(stats.tip, {}) BY <3>1 DEF Upto
      <3>3. UptoNext(stats'.tip, {}) BY <1>8, <1>12, <3>2
      <3>4. QED BY <2>2, <3>3, UptoPrimed DEF TipInv
    <2>3. QED BY <1>9, <2>1, <2>2
  <1>16. SweepInv'
    <2>1. CASE eng'.phase = "plan"
      <3>1. UptoNext(sweep'.through, {}) BY <1>3, <1>12, <1>13
      <3>2. QED BY <2>1, <3>1, UptoPrimed DEF SweepInv
    <2>2. CASE eng'.phase # "plan" BY <1>9, <2>2, Idle
    <2>3. QED BY <2>1, <2>2
  <1>17. QED BY <1>1, <1>3, <1>4, <1>9, <1>10, <1>11, <1>14, <1>15, <1>16, EngineKept

(* A step of replay_page that leaves its batch handed over and its floor    *)
(* where it was.                                                            *)
LEMMA SweepStep ==
  ASSUME InductiveInv, eng.phase \in SweepPhases, EngineFrame, tail' = tail, faults' \in Nat,
         sweep' = sweep, page' \in PageStates, buf' = <<>>, owed' \subseteq Wanted,
         eng' \in EngOK, eng'.after = eng.after, eng'.phase \in SweepPhases \cup {"ended"},
         HandsOver(buf), consumer' \in ConsumerOK, stats' \in StatsOK,
         stats'.tip = stats.tip, stats'.through = stats.through,
         consumer'.gone => eng'.phase = "ended", SweepInv'
  PROVE  StepKept
  <1>1. EngineState /\ batch = <<>> /\ Ready(buf) BY Sweeping
  <1>2. tail \in TailOK /\ sweep \in SweepOK BY <1>1, EngineTypes
  <1>3. buf' \in Seq(Wanted) /\ Len(buf') < MaxBatch
    <2>1. <<>> \in Seq(Wanted) /\ Len(<<>>) = 0 OBVIOUS
    <2>2. QED BY <2>1, Numbers
  <1>4. EngineNextOK BY <1>2, <1>3 DEF EngineNextOK
  <1>5. FloorInv' BY FloorKept DEF EngineFrame
  <1>6. TipInv' BY <1>1, TipKept
  <1>7. eng'.phase # "live" BY DEF SweepPhases
  <1>8. QED BY <1>1, <1>4, <1>5, <1>6, <1>7, EngineKept

(* The sink's part of such a step. *)
LEMMA SweepDelivery ==
  ASSUME InductiveInv, eng.phase \in SweepPhases, UNCHANGED <<origin, saved, owed, forgotten>>,
         NEW L \in SUBSET Wanted, (Flush(buf) /\ L = {}) \/ (FlushAndReport(buf, L) /\ buf = <<>>)
  PROVE  Delivered(buf, L) /\ HandsOver(buf)
  <1>1. EngineState /\ ConsumerInv /\ ~consumer.gone /\ Ready(buf) BY Sweeping
  <1>2. Delivered(buf, L) BY <1>1, Delivery DEF Ready
  <1>3. buf # <<>> => \A s \in L : Last(buf) < s OBVIOUS
  <1>4. QED BY <1>1, <1>2, <1>3, DeliveryHandsOver

LEMMA FlushSweep ==
  ASSUME InductiveInv, eng.phase \in SweepPhases, UNCHANGED <<origin, saved, owed, forgotten>>,
         Flush(buf)
  PROVE  /\ HandsOver(buf) /\ consumer' \in ConsumerOK /\ stats' \in StatsOK
         /\ stats'.tip = stats.tip /\ stats'.through = stats.through
  <1>1. \E L \in SUBSET Wanted : L = {} OBVIOUS
  <1>2. PICK L \in SUBSET Wanted : L = {} BY <1>1
  <1>3. Delivered(buf, L) /\ HandsOver(buf) BY <1>2, SweepDelivery
  <1>4. QED BY <1>3 DEF Delivered

LEMMA EntryCancelledKept ==
  ASSUME InductiveInv, EntryCancelled
  PROVE  StepKept
  <1>1. eng.phase \in SweepPhases /\ EngineFrame /\ tail' = tail /\ sweep' = sweep /\ page' = page
        /\ buf' = <<>> /\ owed' = owed /\ faults' = faults /\ End("ok") /\ Flush(buf)
    BY DEF EntryCancelled, SweepPhases, EngineFrame
  <1>2. EngineState BY DEF InductiveInv
  <1>3. faults \in Nat /\ page \in PageStates /\ owed \subseteq Wanted /\ eng \in EngOK
    BY <1>2, EngineTypes
  <1>4. eng' \in EngOK /\ eng'.phase = "ended" /\ eng'.after = eng.after
    <2>1. "ok" \in Results BY DEF Results
    <2>2. QED BY <1>1, <1>3, <2>1, Moves
  <1>5. UNCHANGED <<origin, saved, owed, forgotten>> BY <1>1 DEF EngineFrame
  <1>6. /\ HandsOver(buf) /\ consumer' \in ConsumerOK /\ stats' \in StatsOK
        /\ stats'.tip = stats.tip /\ stats'.through = stats.through
    BY <1>1, <1>5, FlushSweep
  <1>7. SweepInv' BY <1>4, Idle
  <1>8. QED BY <1>1, <1>3, <1>4, <1>6, <1>7, SweepStep

LEMMA FinishChunkKept ==
  ASSUME InductiveInv, FinishChunk
  PROVE  StepKept
  <1>1. eng.phase = "rows" /\ eng.phase \in SweepPhases /\ EngineFrame /\ tail' = tail
        /\ sweep' = sweep /\ page' = page /\ page.rows = {}
        /\ buf' = <<>> /\ owed' = owed /\ faults' = faults /\ ToOrStop("entry") /\ Flush(buf)
    BY DEF FinishChunk, SweepPhases, EngineFrame
  <1>2. EngineState /\ SweepInv /\ Ready(buf) BY <1>1, Sweeping
  <1>3. faults \in Nat /\ page \in PageStates /\ owed \subseteq Wanted /\ eng \in EngOK
    BY <1>2, EngineTypes
  <1>4. /\ eng' \in EngOK /\ eng'.phase \in {"entry", "ended"} /\ eng'.after = eng.after
        /\ consumer'.gone => eng'.phase = "ended"
    <2>1. "ok" \in Results /\ "entry" \in Phases BY DEF Results, Phases
    <2>2. QED BY <1>1, <1>3, <2>1, Moves DEF ToOrStop
  <1>5. UNCHANGED <<origin, saved, owed, forgotten>> BY <1>1 DEF EngineFrame
  <1>6. /\ HandsOver(buf) /\ consumer' \in ConsumerOK /\ stats' \in StatsOK
        /\ stats'.tip = stats.tip /\ stats'.through = stats.through
    BY <1>1, <1>5, FlushSweep
  <1>7. SweepInv'
    <2>1. CASE eng'.phase = "ended" BY <2>1, Idle
    <2>2. CASE eng'.phase = "entry"
      <3>1. /\ Upto(sweep.after, {}) /\ Reaches(page.entries, page.entry.hi)
            /\ UptoTip(page.entry.lo - 1, ToSet(buf) \cup page.rows)
        BY <1>1, <1>2 DEF SweepInv
      <3>2. ReachesNext(page'.entries, page'.entry.hi)
        BY <1>1, <3>1 DEF Reaches, ReachesNext
      <3>3. UptoNext(sweep'.after, {}) BY <1>1, <1>2, <1>6, <3>1, CarriedAlone
      <3>4. ToSet(buf') = {} BY <1>1 DEF ToSet
      <3>5. UptoTip(page.entry.lo - 1, (ToSet(buf') \cup page.rows) \cup ToSet(buf))
        BY <3>1 DEF UptoTip
      <3>6. UptoTipNext(page'.entry.lo - 1, ToSet(buf') \cup page'.rows)
        BY <1>1, <1>2, <1>6, <3>5, TipCarried
      <3>7. QED BY <1>1, <2>2, <3>2, <3>3, <3>6, AtEntry
    <2>3. QED BY <1>4, <2>1, <2>2
  <1>8. eng'.phase \in SweepPhases \cup {"ended"} BY <1>4 DEF SweepPhases
  <1>9. QED BY <1>1, <1>3, <1>4, <1>6, <1>7, <1>8, SweepStep

(* The rest of a page follows on its first entry. *)
LEMMA RestReaches ==
  ASSUME NEW E \in Seq(EntryOK), E # <<>>, NEW n, Reaches(E, n), sweep' = sweep
  PROVE  ReachesNext(Tail(E), E[1].hi)
  <1>1. /\ Tail(E) \in Seq(EntryOK) /\ Len(Tail(E)) = Len(E) - 1 /\ Len(E) \in Nat /\ Len(E) >= 1
        /\ \A i \in 1..Len(E) - 1 : Tail(E)[i] = E[i + 1]
        /\ Tail(E) = <<>> <=> Len(E) = 1
    BY HeadTail
  <1> DEFINE T == Tail(E)
  <1>2. Chained(E) /\ sweep.through <= sweep.tip /\ sweep.through <= E[Len(E)].hi
    BY DEF Reaches
  <1> HIDE DEF T
  <1>3. Chained(T)
    <2> SUFFICES ASSUME NEW i \in 1..Len(T) - 1 PROVE T[i + 1].lo <= T[i].hi + 1
      BY DEF Chained
    <2>1. /\ i \in 1..Len(E) - 1 /\ i + 1 \in 1..Len(E) - 1 /\ (i + 1) + 1 \in Nat BY <1>1 DEF T
    <2>2. T[i] = E[i + 1] /\ T[i + 1] = E[(i + 1) + 1] BY <1>1, <2>1 DEF T
    <2>3. E[(i + 1) + 1].lo <= E[i + 1].hi + 1 BY <1>2, <2>1 DEF Chained
    <2>4. QED BY <2>2, <2>3
  <1>4. CASE T = <<>>
    <2>1. Len(E) = 1 BY <1>1, <1>4 DEF T
    <2>2. ReachesNext(T, E[1].hi) BY <1>2, <1>3, <1>4, <2>1 DEF ReachesNext
    <2>3. QED BY <2>2 DEF T
  <1>5. CASE T # <<>>
    <2>1. Len(E) >= 2 BY <1>1, <1>5 DEF T
    <2>2. 1 \in 1..Len(E) - 1 /\ Len(E) - 1 \in 1..Len(E) - 1 /\ (Len(E) - 1) + 1 = Len(E)
      BY <1>1, <2>1
    <2>3. T[1] = E[1 + 1] /\ T[Len(T)] = E[Len(E)] BY <1>1, <2>2 DEF T
    <2>4. E[1 + 1].lo <= E[1].hi + 1 BY <1>2, <2>2 DEF Chained
    <2>5. ReachesNext(T, E[1].hi) BY <1>2, <1>3, <1>5, <2>3, <2>4 DEF ReachesNext
    <2>6. QED BY <2>5 DEF T
  <1>6. QED BY <1>4, <1>5

(* An entry is dealt with once its rows in the window are given up. *)
LEMMA Settled ==
  ASSUME EngineState, NEW b, b = <<>>, Ready(b), HandsOver(b), sweep' = sweep,
         NEW e \in EntryOK, UptoTip(e.lo - 1, {}), Upto(sweep.after, {}),
         \A s \in InWindow(e) : s \in Excused'
  PROVE  UptoTipNext(e.hi, {}) /\ UptoNext(sweep'.after, {})
  <1>1. ToSet(b) = {} /\ e.lo \in Nat /\ e.hi \in Nat BY DEF ToSet, EntryOK
  <1>2. UptoTipNext(e.lo - 1, {})
    <2>1. UptoTip(e.lo - 1, {} \cup ToSet(b)) BY <1>1
    <2>2. QED BY <2>1, TipCarried
  <1>3. UptoNext(sweep.after, {}) BY CarriedAlone
  <1>4. sweep.after \in Nat BY EngineTypes, Numbers DEF SweepOK
  <1>5. ASSUME NEW s \in Wanted, origin' < s, s <= e.hi, s <= sweep'.tip
        PROVE  s <= consumer'.mark \/ s \in Excused'
    <2>0. s \in Nat BY Numbers
    <2>1. CASE s <= e.lo - 1 BY <1>2, <1>5, <2>1 DEF UptoTipNext
    <2>2. CASE s <= sweep.after BY <1>3, <1>5, <2>2 DEF UptoNext
    <2>3. CASE ~(s <= e.lo - 1) /\ ~(s <= sweep.after)
      <3>1. s \in e.lo..e.hi /\ s > sweep.after BY <1>1, <1>4, <1>5, <2>0, <2>3
      <3>2. s \in InWindow(e) BY <1>5, <3>1 DEF InWindow
      <3>3. QED BY <3>2
    <2>4. QED BY <2>1, <2>2, <2>3
  <1>6. QED BY <1>3, <1>5 DEF UptoTipNext

LEMMA NextEntryKept ==
  ASSUME InductiveInv, NextEntry
  PROVE  StepKept
  <1> DEFINE E == page.entries
             e == Head(page.entries)
  <1>0. /\ eng.phase = "page" /\ eng.phase \in SweepPhases /\ EngineFrame /\ tail' = tail
        /\ sweep' = sweep /\ E # <<>> /\ owed' = owed
    BY DEF NextEntry, SweepPhases, EngineFrame
  <1>1. EngineState /\ ConsumerInv /\ SweepInv /\ Ready(buf) /\ buf = <<>> BY <1>0, Sweeping
  <1>2. /\ faults \in Nat /\ page \in PageStates /\ owed \subseteq Wanted /\ eng \in EngOK
        /\ consumer \in ConsumerOK /\ stats \in StatsOK
    BY <1>1, EngineTypes
  <1>3. /\ "ok" \in Results /\ "page" \in Phases /\ "entry" \in Phases
        /\ "page" \in SweepPhases /\ "entry" \in SweepPhases
    BY DEF Results, Phases, SweepPhases
  <1>4. UNCHANGED <<origin, saved, owed, forgotten>> BY <1>0 DEF EngineFrame
  <1>5. E \in Seq(EntryOK) /\ page.rows = {} BY <1>0, <1>1, <1>2 DEF PageStates, SweepInv
  <1>6. e = E[1] /\ e \in EntryOK /\ Tail(E) \in Seq(EntryOK) BY <1>0, <1>5, HeadTail
  <1>7. /\ Upto(sweep.after, {}) /\ UptoTip(e.lo - 1, {}) /\ Reaches(E, e.lo - 1)
    BY <1>0, <1>1, <1>6 DEF SweepInv
  <1>8. ReachesNext(Tail(E), e.hi) BY <1>0, <1>5, <1>6, <1>7, RestReaches
  <1>9. CASE cancelled /\ Flush(buf) /\ buf' = <<>> /\ End("ok") /\ UNCHANGED <<faults, page>>
    <2>1. eng' \in EngOK /\ eng'.phase = "ended" /\ eng'.after = eng.after
      BY <1>2, <1>3, <1>9, Moves
    <2>2. /\ HandsOver(buf) /\ consumer' \in ConsumerOK /\ stats' \in StatsOK
          /\ stats'.tip = stats.tip /\ stats'.through = stats.through
      BY <1>0, <1>4, <1>9, FlushSweep
    <2>3. SweepInv' BY <2>1, Idle
    <2>4. QED BY <1>0, <1>2, <1>9, <2>1, <2>2, <2>3, SweepStep
  <1>10. CASE /\ ~cancelled /\ Fault /\ FlushAndReport(buf, InWindow(e)) /\ buf' = <<>>
              /\ page' = [page EXCEPT !.entries = Tail(@)] /\ ToOrStop("page")
    <2> DEFINE L == InWindow(e)
    <2>1. L \in SUBSET Wanted BY DEF InWindow
    <2>2. Delivered(buf, L) /\ HandsOver(buf) BY <1>0, <1>1, <1>4, <1>10, <2>1, SweepDelivery
    <2> HIDE DEF L
    <2>3. /\ consumer' \in ConsumerOK /\ stats' \in StatsOK
          /\ stats'.tip = stats.tip /\ stats'.through = stats.through
          /\ ~consumer'.gone => L \subseteq consumer'.lost
      BY <2>2 DEF Delivered
    <2>4. /\ eng' \in EngOK /\ eng'.phase \in {"page", "ended"} /\ eng'.after = eng.after
          /\ consumer'.gone <=> eng'.phase = "ended"
      BY <1>2, <1>3, <1>10, Moves DEF ToOrStop
    <2>5. page' \in PageStates /\ page'.entries = Tail(E) /\ page'.rows = {}
      BY <1>2, <1>5, <1>6, <1>10 DEF PageStates
    <2>6. faults' \in Nat BY <1>2, <1>10 DEF Fault
    <2>7. SweepInv'
      <3>1. CASE eng'.phase = "ended" BY <3>1, Idle
      <3>2. CASE eng'.phase = "page"
        <4>1. \A s \in InWindow(e) : s \in Excused'
          BY <2>3, <2>4, <3>2 DEF Excused, L
        <4>2. UptoTipNext(e.hi, {}) /\ UptoNext(sweep'.after, {})
          BY <1>0, <1>1, <1>6, <1>7, <2>2, <4>1, Settled
        <4>3. e.hi \in Nat /\ sweep' \in SweepOK
          <5>1. sweep \in SweepOK BY <1>1, EngineTypes
          <5>2. QED BY <1>0, <1>6, <5>1 DEF EntryOK
        <4> HIDE DEF e, E
        <4>4. QED BY <1>8, <2>5, <3>2, <4>2, <4>3, AtPage
      <3>3. QED BY <2>4, <3>1, <3>2
    <2>8. QED BY <1>0, <1>2, <1>3, <1>10, <2>2, <2>3, <2>4, <2>5, <2>6, <2>7, SweepStep
  <1>11. CASE /\ ~cancelled /\ page' = [page EXCEPT !.entries = Tail(@), !.entry = e]
              /\ To("entry") /\ UNCHANGED <<faults, consumer, stats, buf>>
    <2>1. eng' \in EngOK /\ eng'.phase = "entry" /\ eng'.after = eng.after
      BY <1>2, <1>3, <1>11, Moves
    <2>2. HandsOver(buf)
      <3>1. stats'.processed = stats.processed /\ owed \subseteq owed' /\ owed' \subseteq Wanted
        BY <1>0, <1>2, <1>11
      <3>2. QED BY <1>1, <1>4, <1>11, <3>1, Silent
    <2>3. page' \in PageStates /\ page'.entries = Tail(E) /\ page'.rows = {} /\ page'.entry = e
      BY <1>2, <1>5, <1>6, <1>11 DEF PageStates
    <2>4. UptoNext(sweep'.after, {}) BY <1>0, <1>1, <1>7, <2>2, CarriedAlone
    <2>5. UptoTipNext(page'.entry.lo - 1, ToSet(buf') \cup page'.rows)
      <3>1. ToSet(buf) = {} /\ ToSet(buf') = {} BY <1>1, <1>11 DEF ToSet
      <3>2. UptoTip(e.lo - 1, (ToSet(buf') \cup page'.rows) \cup ToSet(buf)) BY <1>7, <2>3, <3>1
      <3>3. QED BY <1>0, <1>1, <2>2, <2>3, <3>2, TipCarried
    <2> HIDE DEF e, E
    <2>6. SweepInv' BY <1>8, <2>1, <2>3, <2>4, <2>5, AtEntry
    <2>7. ~consumer'.gone BY <1>0, <1>11, Sweeping
    <2>8. stats' = stats /\ consumer' = consumer /\ faults' = faults /\ buf' = <<>> BY <1>1, <1>11
    <2>9. QED BY <1>0, <1>2, <1>3, <2>1, <2>2, <2>3, <2>6, <2>7, <2>8, SweepStep
  <1>12. QED BY <1>9, <1>10, <1>11 DEF NextEntry

LEMMA FinishEntryKept ==
  ASSUME InductiveInv, FinishEntry
  PROVE  StepKept
  <1> DEFINE e == page.entry
             L == owed \cup InWindow(e)
  <1>0. /\ eng.phase = "entry" /\ eng.phase \in SweepPhases /\ EngineFrame /\ tail' = tail
        /\ sweep' = sweep /\ buf' = buf /\ owed' = owed \ consumer'.lost
        /\ page' = [page EXCEPT !.entry = NoEntry] /\ ToOrStop("page")
        /\ faults' = faults \/ Fault
        /\ IF owed = {} /\ InWindow(e) = {} THEN UNCHANGED <<consumer, stats>>
           ELSE FlushAndReport(<<>>, L)
    BY DEF FinishEntry, SweepPhases, EngineFrame
  <1>1. EngineState /\ ConsumerInv /\ SweepInv /\ Ready(buf) /\ buf = <<>> /\ ~consumer.gone
    BY <1>0, Sweeping
  <1>2. /\ faults \in Nat /\ page \in PageStates /\ owed \subseteq Wanted /\ eng \in EngOK
        /\ consumer \in ConsumerOK /\ stats \in StatsOK /\ sweep \in SweepOK
    BY <1>1, EngineTypes
  <1>3. faults' \in Nat BY <1>0, <1>2 DEF Fault
  <1>4. L \in SUBSET Wanted BY <1>2 DEF InWindow
  <1>5. Delivered(buf, L)
    <2>1. CASE owed = {} /\ InWindow(e) = {}
      <3>1. L = {} /\ UNCHANGED <<consumer, stats>> BY <1>0, <2>1
      <3> HIDE DEF L
      <3>2. Delivered(<<>>, {}) BY <1>1, <3>1, NoDelivery
      <3>3. QED BY <1>1, <3>1, <3>2
    <2>2. CASE ~(owed = {} /\ InWindow(e) = {})
      <3>1. FlushAndReport(buf, L) BY <1>0, <1>1, <2>2
      <3> HIDE DEF L
      <3>2. QED BY <1>1, <1>4, <3>1, Delivery DEF Ready
    <2>3. QED BY <2>1, <2>2
  <1>6. /\ consumer' \in ConsumerOK /\ stats' \in StatsOK
        /\ stats'.tip = stats.tip /\ stats'.through = stats.through
        /\ consumer.lost \subseteq consumer'.lost /\ consumer'.lost \subseteq consumer.lost \cup L
        /\ ~consumer'.gone => L \subseteq consumer'.lost
    BY <1>5 DEF Delivered
  <1>7. HandsOver(buf)
    <2>1. Excused' = consumer'.lost \cup (owed \ consumer'.lost) \cup forgotten
      BY <1>0 DEF Excused, EngineFrame
    <2>2. Excused \subseteq Excused' BY <1>6, <2>1 DEF Excused
    <2>3. Excused' \subseteq Wanted
      <3>1. Excused \subseteq Wanted BY <1>1, MarkTypes
      <3>2. consumer'.lost \subseteq Wanted BY <1>6 DEF ConsumerOK
      <3>3. QED BY <1>2, <2>1, <3>1, <3>2 DEF Excused
    <2>4. origin' = origin /\ saved' = saved BY <1>0 DEF EngineFrame
    <2>5. QED BY <1>1, <1>5, <2>2, <2>3, <2>4 DEF HandsOver, Delivered
  <1>8. /\ eng' \in EngOK /\ eng'.phase \in {"page", "ended"} /\ eng'.after = eng.after
        /\ consumer'.gone <=> eng'.phase = "ended"
    <2>1. "ok" \in Results /\ "page" \in Phases BY DEF Results, Phases
    <2>2. QED BY <1>0, <1>2, <2>1, Moves DEF ToOrStop
  <1>9. e \in EntryOK /\ e.hi \in Nat BY <1>2 DEF PageStates, EntryOK
  <1>10. /\ Upto(sweep.after, {}) /\ UptoTip(e.lo - 1, {}) /\ Reaches(page.entries, e.hi) /\ page.rows = {}
    <2>1. ToSet(buf) = {} BY <1>1 DEF ToSet
    <2>2. page.rows = {} /\ UptoTip(e.lo - 1, ToSet(buf) \cup page.rows) BY <1>0, <1>1 DEF SweepInv
    <2>3. UptoTip(e.lo - 1, {}) BY <2>1, <2>2
    <2>4. QED BY <1>0, <1>1, <2>2, <2>3 DEF SweepInv
  <1>11. page' \in PageStates /\ page'.entries = page.entries /\ page'.rows = {}
    <2>1. NoEntry \in EntryOK BY DEF NoEntry, EntryOK
    <2>2. QED BY <1>0, <1>2, <1>10, <2>1 DEF PageStates
  <1>12. SweepInv'
    <2>1. CASE eng'.phase = "ended" BY <2>1, Idle
    <2>2. CASE eng'.phase = "page"
      <3>1. \A s \in InWindow(e) : s \in Excused' BY <1>6, <1>8, <2>2 DEF Excused
      <3> HIDE DEF e
      <3>2. UptoTipNext(e.hi, {}) /\ UptoNext(sweep'.after, {})
        BY <1>0, <1>1, <1>7, <1>9, <1>10, <3>1, Settled
      <3>3. ReachesNext(page'.entries, e.hi) BY <1>0, <1>10, <1>11 DEF Reaches, ReachesNext
      <3>4. sweep' \in SweepOK BY <1>0, <1>2
      <3>5. QED BY <1>9, <1>11, <2>2, <3>2, <3>3, <3>4, AtPage
    <2>3. QED BY <1>8, <2>1, <2>2
  <1>13. owed' \subseteq Wanted /\ buf' = <<>> /\ eng'.phase \in SweepPhases \cup {"ended"}
    BY <1>0, <1>1, <1>2, <1>8 DEF SweepPhases
  <1>14. QED BY <1>0, <1>3, <1>6, <1>7, <1>8, <1>11, <1>12, <1>13, SweepStep

LEMMA NextChunkKept ==
  ASSUME InductiveInv, NextChunk
  PROVE  StepKept
  <1> DEFINE e == page.entry
  <1>0. /\ eng.phase = "entry" /\ eng.phase \in SweepPhases /\ EngineFrame /\ tail' = tail
        /\ sweep' = sweep /\ buf' = buf /\ UNCHANGED <<consumer, stats>> /\ To("rows")
        /\ e.lo <= e.hi
    BY DEF NextChunk, SweepPhases, EngineFrame
  <1>1. EngineState /\ ConsumerInv /\ SweepInv /\ Ready(buf) /\ buf = <<>> /\ ~consumer.gone
    BY <1>0, Sweeping
  <1>2. /\ faults \in Nat /\ page \in PageStates /\ owed \subseteq Wanted /\ eng \in EngOK
        /\ consumer \in ConsumerOK /\ stats \in StatsOK /\ sweep \in SweepOK
    BY <1>1, EngineTypes
  <1>3. PICK n \in ChunkSizes :
          LET end == IF e.lo + n - 1 < e.hi THEN e.lo + n - 1 ELSE e.hi
          IN \E bad \in SUBSET (Wanted \cap e.lo..end) :
               /\ IF bad = {} THEN UNCHANGED faults
                  ELSE faults >= Cardinality(bad) /\ faults' = faults - Cardinality(bad)
               /\ owed' = owed \cup bad
               /\ page' = [page EXCEPT !.entry.lo = end + 1,
                             !.rows = InWindow([e EXCEPT !.hi = end]) \ bad]
    BY DEF NextChunk
  <1> DEFINE end == IF e.lo + n - 1 < e.hi THEN e.lo + n - 1 ELSE e.hi
  <1>4. PICK bad \in SUBSET (Wanted \cap e.lo..end) :
          /\ IF bad = {} THEN UNCHANGED faults
             ELSE faults >= Cardinality(bad) /\ faults' = faults - Cardinality(bad)
          /\ owed' = owed \cup bad
          /\ page' = [page EXCEPT !.entry.lo = end + 1,
                        !.rows = InWindow([e EXCEPT !.hi = end]) \ bad]
    BY <1>3
  <1>5. e \in EntryOK /\ e.lo \in Nat /\ e.hi \in Nat /\ e.lo >= 1 /\ n \in Nat /\ n >= 1
    BY <1>2, EngineAssumption DEF PageStates, EntryOK
  <1>6. end \in Nat /\ e.lo <= end /\ end <= e.hi BY <1>0, <1>5
  <1> DEFINE rows == InWindow([e EXCEPT !.hi = end]) \ bad
  <1> HIDE DEF end
  <1>7. faults' \in Nat
    <2>1. CASE bad = {} BY <1>2, <1>4, <2>1
    <2>2. CASE bad # {}
      <3>1. Cardinality(bad) \in Nat
        <4>0. \A x, y \in Int : IsFiniteSet(x..y) BY FS_Interval
        <4>1. IsFiniteSet(e.lo..end) BY <1>5, <1>6, <4>0
        <4>2. QED BY <4>1, FS_Subset, FS_CardinalityType
      <3>2. QED BY <1>2, <1>4, <2>2, <3>1
    <2>3. QED BY <2>1, <2>2
  <1>8. /\ [e EXCEPT !.hi = end].lo = e.lo /\ [e EXCEPT !.hi = end].hi = end
    BY <1>5 DEF EntryOK
  <1>9. rows = {s \in Wanted \cap e.lo..end : s > sweep.after /\ s <= sweep.tip} \ bad
    BY <1>8 DEF InWindow
  <1>10. rows \subseteq Wanted /\ \A s \in rows : s <= end /\ s <= sweep.tip
    BY <1>5, <1>6, <1>9
  <1> HIDE DEF rows
  <1>11. /\ page' \in PageStates /\ page'.entries = page.entries /\ page'.rows = rows
         /\ page'.entry.lo = end + 1 /\ page'.entry.hi = e.hi
    <2>1. page' = [page EXCEPT !.entry = [e EXCEPT !.lo = end + 1], !.rows = rows]
      BY <1>2, <1>4 DEF rows, PageStates
    <2>2. /\ [e EXCEPT !.lo = end + 1] \in EntryOK /\ [e EXCEPT !.lo = end + 1].lo = end + 1
          /\ [e EXCEPT !.lo = end + 1].hi = e.hi
      BY <1>5, <1>6 DEF EntryOK
    <2> DEFINE f == [e EXCEPT !.lo = end + 1]
    <2> HIDE DEF f, e
    <2>3. page' = [page EXCEPT !.entry = f, !.rows = rows] /\ f \in EntryOK
          /\ f.lo = end + 1 /\ f.hi = e.hi
      BY <2>1, <2>2 DEF f, e
    <2>4. QED BY <1>2, <1>10, <2>3 DEF PageStates
  <1>12. eng' \in EngOK /\ eng'.phase = "rows" /\ eng'.after = eng.after
    <2>1. "rows" \in Phases BY DEF Phases
    <2>2. QED BY <1>0, <1>2, <2>1, Moves
  <1>13. owed \subseteq owed' /\ owed' \subseteq Wanted /\ owed' = owed \cup bad BY <1>2, <1>4
  <1>14. HandsOver(buf)
    <2>1. UNCHANGED <<consumer, origin, saved, forgotten>> /\ stats'.processed = stats.processed
      BY <1>0 DEF EngineFrame
    <2>2. QED BY <1>1, <1>13, <2>1, Silent
  <1>15. /\ Upto(sweep.after, {}) /\ UptoTip(e.lo - 1, {}) /\ Reaches(page.entries, e.hi)
    <2>1. ToSet(buf) = {} BY <1>1 DEF ToSet
    <2>2. page.rows = {} /\ UptoTip(e.lo - 1, ToSet(buf) \cup page.rows) BY <1>0, <1>1 DEF SweepInv
    <2>3. UptoTip(e.lo - 1, {}) BY <2>1, <2>2
    <2>4. QED BY <1>0, <1>1, <2>3 DEF SweepInv
  <1>16. UptoNext(sweep'.after, {}) BY <1>0, <1>1, <1>14, <1>15, CarriedAlone
  <1>17. UptoTipNext(page'.entry.lo - 1, ToSet(buf') \cup page'.rows)
    <2>1. ToSet(buf) = {} BY <1>1 DEF ToSet
    <2>2. UptoTip(e.lo - 1, {} \cup ToSet(buf)) BY <1>15, <2>1
    <2>3. UptoTipNext(e.lo - 1, {}) BY <1>0, <1>1, <1>14, <2>2, TipCarried
    <2>4. page'.entry.lo - 1 = end BY <1>6, <1>11
    <2>5. sweep.after \in Nat BY <1>2, Numbers DEF SweepOK
    <2>6. ASSUME NEW s \in Wanted, origin' < s, s <= end, s <= sweep'.tip
          PROVE  s <= consumer'.mark \/ s \in Excused' \/ s \in rows
      <3>0. s \in Nat BY Numbers
      <3>1. CASE s <= e.lo - 1 BY <2>3, <2>6, <3>1 DEF UptoTipNext
      <3>2. CASE s <= sweep.after BY <1>0, <1>16, <2>6, <3>2 DEF UptoNext
      <3>3. CASE ~(s <= e.lo - 1) /\ ~(s <= sweep.after)
        <4>1. s \in e.lo..end /\ s > sweep.after BY <1>5, <1>6, <2>5, <2>6, <3>0, <3>3
        <4>2. s \in rows \/ s \in bad BY <1>0, <1>9, <2>6, <4>1
        <4>3. QED BY <1>13, <4>2 DEF Excused
      <3>4. QED BY <3>1, <3>2, <3>3
    <2>7. QED BY <1>11, <2>4, <2>6 DEF UptoTipNext
  <1>18. ReachesNext(page'.entries, page'.entry.hi)
    BY <1>0, <1>11, <1>15 DEF Reaches, ReachesNext
  <1>19. \A s \in page'.rows : s < page'.entry.lo /\ s <= sweep'.tip
    BY <1>0, <1>6, <1>10, <1>11, Numbers
  <1>20. SweepInv' BY <1>12, <1>16, <1>17, <1>18, <1>19, AtEntry
  <1>21. "rows" \in SweepPhases BY DEF SweepPhases
  <1>22. stats' = stats /\ consumer' = consumer /\ buf' = <<>> BY <1>0, <1>1
  <1>23. QED BY <1>0, <1>1, <1>2, <1>7, <1>11, <1>12, <1>13, <1>14, <1>20, <1>21, <1>22, SweepStep

LEMMA Least ==
  ASSUME NEW S, S \subseteq Nat, S # {}
  PROVE  Min(S) \in S /\ \A y \in S : Min(S) <= y
  <1>1. \E x \in S : \A y \in S : ~(<<y, x>> \in OpToRel(<, Nat))
    BY NatLessThanWellFounded, WFMin
  <1>2. PICK x \in S : \A y \in S : ~(<<y, x>> \in OpToRel(<, Nat)) BY <1>1
  <1>3. \A y \in S : x <= y
    <2> SUFFICES ASSUME NEW y \in S, ~(x <= y) PROVE FALSE OBVIOUS
    <2>1. <<y, x>> \in OpToRel(<, Nat) BY DEF OpToRel
    <2>2. QED BY <1>2, <2>1
  <1>4. QED BY <1>3 DEF Min

(* The rows of a chunk are taken in order: what remains is above, and the   *)
(* row itself is covered, or joins the batch.                               *)
RowOK(s) ==
  /\ s \in page.rows /\ s \in Wanted /\ s \in Nat /\ (\A y \in page.rows : s <= y)
  /\ s < page.entry.lo /\ s <= sweep.tip
  /\ page' \in PageStates /\ page'.rows = page.rows \ {s}
  /\ page'.entries = page.entries /\ page'.entry = page.entry

LEMMA RowTaken ==
  ASSUME InductiveInv, ReplayRow
  PROVE  RowOK(Min(page.rows))
  <1>0. eng.phase = "rows" /\ page.rows # {} /\ page' = [page EXCEPT !.rows = @ \ {Min(@)}]
    BY DEF ReplayRow
  <1>1. EngineState /\ SweepInv BY DEF InductiveInv
  <1>2. page \in PageStates BY <1>1, EngineTypes
  <1>3. page.rows \subseteq Wanted BY <1>2 DEF PageStates
  <1>4. page.rows \subseteq Nat BY <1>3, Numbers
  <1> DEFINE s == Min(page.rows)
  <1>5. s \in page.rows /\ \A y \in page.rows : s <= y BY <1>0, <1>4, Least
  <1> HIDE DEF s
  <1>6. s < page.entry.lo /\ s <= sweep.tip BY <1>0, <1>1, <1>5 DEF SweepInv
  <1>7. /\ page' \in PageStates /\ page'.rows = page.rows \ {s}
        /\ page'.entries = page.entries /\ page'.entry = page.entry
    <2>1. page' = [page EXCEPT !.rows = @ \ {s}] BY <1>0 DEF s
    <2>2. QED BY <1>2, <2>1 DEF PageStates
  <1>8. RowOK(s) BY <1>3, <1>4, <1>5, <1>6, <1>7 DEF RowOK
  <1>9. QED BY <1>8 DEF s

(* A row at or below the page's floor, or that was the last: collapsed. One *)
(* that goes back: fatal, and the batch is dropped with the run.            *)
LEMMA RowDropped ==
  ASSUME InductiveInv, eng.phase = "rows", EngineFrame, NEW s, RowOK(s),
         UNCHANGED <<tail, faults, owed, consumer, stats, sweep, buf>>,
         \/ To("rows") /\ (s <= sweep.after \/ s = sweep.floor)
         \/ End("fatal")
  PROVE  StepKept
  <1>0. eng.phase \in SweepPhases BY DEF SweepPhases
  <1>1. /\ EngineState /\ ConsumerInv /\ FloorInv /\ SweepInv /\ batch = <<>> /\ ~consumer.gone
        /\ consumer.mark <= sweep.floor /\ mode # "live"
    BY <1>0, Sweeping
  <1>2. /\ faults \in Nat /\ consumer \in ConsumerOK /\ stats \in StatsOK /\ tail \in TailOK
        /\ eng \in EngOK /\ sweep \in SweepOK /\ buf \in Seq(Wanted) /\ Len(buf) < MaxBatch
        /\ owed \subseteq Wanted
    BY <1>1, EngineTypes
  <1>3. /\ eng' \in EngOK /\ eng'.after = eng.after
        /\ \/ eng'.phase = "rows" /\ (s <= sweep.after \/ s = sweep.floor)
           \/ eng'.phase = "ended" /\ eng'.result = "fatal"
    <2>1. "rows" \in Phases /\ "fatal" \in Results BY DEF Phases, Results
    <2>2. QED BY <1>2, <2>1, Moves
  <1>4. page' \in PageStates BY DEF RowOK
  <1>5. EngineNextOK BY <1>2, <1>3, <1>4 DEF EngineNextOK
  <1>6. UNCHANGED <<consumer, origin, saved, forgotten>> /\ mode' = mode BY DEF EngineFrame
  <1>7. PICK e \in Seq(Wanted) : e = <<>>
    <2>1. <<>> \in Seq(Wanted) OBVIOUS
    <2>2. QED BY <2>1
  <1>8. Ready(e) /\ HandsOver(e) BY <1>1, <1>2, <1>6, <1>7, Silent
  <1>9. \A n, X : Upto(n, X) => UptoNext(n, X) BY <1>1, <1>8, CarriedAlone
  <1>10. FloorInv'
    <2>1. UptoNext(eng.after, {}) /\ UptoNext(stats.through, {}) /\ UptoNext(sweep.floor, ToSet(buf))
      BY <1>1, <1>9 DEF FloorInv
    <2>2. Waits(buf)' BY <1>1 DEF FloorInv, Waits
    <2>3. buf # <<>> => Last(buf) <= sweep.floor BY <1>1 DEF FloorInv
    <2>4. QED BY <1>1, <1>3, <1>6, <2>1, <2>2, <2>3, UptoPrimed DEF FloorInv
  <1>11. TipInv' BY <1>0, <1>3, <1>8, TipKept DEF SweepPhases
  <1>12. SweepInv'
    <2>1. CASE eng'.phase = "ended" BY <2>1, Idle
    <2>2. CASE eng'.phase = "rows" /\ (s <= sweep.after \/ s = sweep.floor)
      <3>1. /\ Upto(sweep.after, {}) /\ Reaches(page.entries, page.entry.hi)
            /\ UptoTip(page.entry.lo - 1, ToSet(buf) \cup page.rows)
            /\ \A x \in page.rows : x < page.entry.lo /\ x <= sweep.tip
        BY <1>1 DEF SweepInv
      <3>2. UptoNext(sweep'.after, {}) BY <1>9, <3>1
      <3>3. ReachesNext(page'.entries, page'.entry.hi) BY <3>1 DEF Reaches, ReachesNext, RowOK
      <3>4. Upto(sweep.floor, ToSet(buf)) BY <1>1 DEF FloorInv
      <3>5. origin < s => Handled(s) \/ s \in ToSet(buf)
        BY <2>2, <3>1, <3>4 DEF Upto, RowOK
      <3>6. UptoTip(page.entry.lo - 1, (ToSet(buf) \cup (page.rows \ {s})) \cup ToSet(e))
        BY <3>1, <3>5 DEF UptoTip
      <3>7. UptoTipNext(page'.entry.lo - 1, ToSet(buf') \cup page'.rows)
        BY <1>1, <1>8, <3>6, TipCarried DEF RowOK
      <3>8. \A x \in page'.rows : x < page'.entry.lo /\ x <= sweep'.tip BY <3>1 DEF RowOK
      <3>9. QED BY <2>2, <3>2, <3>3, <3>7, <3>8, AtEntry
    <2>3. QED BY <1>3, <2>1, <2>2
  <1>13. eng'.phase # "live" /\ ~consumer'.gone BY <1>1, <1>3
  <1>14. QED BY <1>1, <1>5, <1>8, <1>10, <1>11, <1>12, <1>13, EngineKept

(* The batch with one more row. *)
LEMMA RowBatched ==
  ASSUME InductiveInv, eng.phase = "rows", NEW s, RowOK(s), s > sweep.floor, NEW b, b = Append(buf, s)
  PROVE  /\ Ready(b) /\ b # <<>> /\ Last(b) = s /\ Len(b) = Len(buf) + 1
         /\ ToSet(b) = ToSet(buf) \cup {s} /\ Upto(s, ToSet(b))
  <1>0. eng.phase \in SweepPhases BY DEF SweepPhases
  <1>1. EngineState /\ FloorInv /\ SweepInv /\ consumer.mark <= sweep.floor BY <1>0, Sweeping
  <1>2. /\ s \in page.rows /\ s \in Wanted /\ s \in Nat /\ (\A y \in page.rows : s <= y)
        /\ s < page.entry.lo /\ s <= sweep.tip
    BY DEF RowOK
  <1>3. buf \in Seq(Wanted) /\ sweep \in SweepOK /\ page \in PageStates BY <1>1, EngineTypes
  <1>4. /\ sweep.floor \in Nat /\ sweep.tip \in Nat /\ page.entry.lo \in Nat /\ page.rows \subseteq Nat
        /\ consumer.mark \in Nat /\ Len(buf) \in Nat
    BY <1>1, <1>3, MarkTypes, Numbers DEF SweepOK, PageStates, EntryOK
  <1>5. /\ b \in Seq(Wanted) /\ b # <<>> /\ Len(b) = Len(buf) + 1
        /\ ToSet(b) = ToSet(buf) \cup {s} /\ Last(b) = s
        /\ \A i \in 1..Len(buf) + 1 : b[i] = IF i = Len(buf) + 1 THEN s ELSE buf[i]
    BY <1>2, <1>3, Appending
  <1>6. Waits(b)
    <2> SUFFICES ASSUME NEW i \in 1..Len(b) PROVE consumer.mark < b[i] /\ b[i] <= Last(b)
      BY DEF Waits
    <2>1. CASE i = Len(buf) + 1 BY <1>1, <1>2, <1>4, <1>5, <2>1
    <2>2. CASE i # Len(buf) + 1
      <3>1. i \in 1..Len(buf) /\ b[i] = buf[i] /\ buf # <<>> BY <1>3, <1>4, <1>5, <2>2
      <3>2. consumer.mark < buf[i] /\ buf[i] <= Last(buf) /\ buf[i] \in Nat /\ Last(buf) <= sweep.floor
        BY <1>1, <1>3, <3>1, Numbers DEF FloorInv, Waits
      <3>3. Last(buf) \in Nat BY <1>3, <3>1, Events, Numbers
      <3>4. QED BY <1>2, <1>4, <1>5, <3>1, <3>2, <3>3
    <2>3. QED BY <2>1, <2>2
  <1>7. Upto(s, ToSet(b))
    <2> SUFFICES ASSUME NEW x \in Wanted, origin < x, x <= s PROVE Handled(x) \/ x \in ToSet(b)
      BY DEF Upto
    <2>1. x \in Nat BY Numbers
    <2>2. x <= page.entry.lo - 1 /\ x <= sweep.tip BY <1>2, <1>4, <2>1
    <2>3. Handled(x) \/ x \in ToSet(buf) \cup page.rows
      BY <1>1, <2>2 DEF SweepInv, UptoTip
    <2>4. x \in page.rows => x = s BY <1>2, <2>1
    <2>5. QED BY <1>5, <2>3, <2>4
  <1>8. QED BY <1>5, <1>6, <1>7 DEF Ready

(* A new row joins the batch, and a full batch is handed over. *)
LEMMA RowKept ==
  ASSUME InductiveInv, eng.phase = "rows", EngineFrame, NEW s, RowOK(s), NEW b, b = Append(buf, s),
         UNCHANGED <<tail, faults, owed>>, s > sweep.floor, sweep' = [sweep EXCEPT !.floor = s],
         \/ /\ Len(b) >= MaxBatch /\ Flush(b) /\ buf' = <<>> /\ ToOrStop("rows")
         \/ /\ ~(Len(b) >= MaxBatch) /\ buf' = b /\ To("rows") /\ UNCHANGED <<consumer, stats>>
  PROVE  StepKept
  <1>0. eng.phase \in SweepPhases BY DEF SweepPhases
  <1>1. /\ EngineState /\ ConsumerInv /\ FloorInv /\ SweepInv /\ batch = <<>> /\ ~consumer.gone
        /\ consumer.mark <= sweep.floor /\ mode # "live"
    BY <1>0, Sweeping
  <1>2. /\ faults \in Nat /\ consumer \in ConsumerOK /\ stats \in StatsOK /\ tail \in TailOK
        /\ eng \in EngOK /\ sweep \in SweepOK /\ buf \in Seq(Wanted) /\ Len(buf) < MaxBatch
        /\ owed \subseteq Wanted
    BY <1>1, EngineTypes
  <1>3. /\ Ready(b) /\ b # <<>> /\ Last(b) = s /\ Len(b) = Len(buf) + 1 /\ Len(b) \in Nat
        /\ ToSet(b) = ToSet(buf) \cup {s} /\ Upto(s, ToSet(b)) /\ b \in Seq(Wanted)
    <2>1. /\ Ready(b) /\ b # <<>> /\ Last(b) = s /\ Len(b) = Len(buf) + 1
          /\ ToSet(b) = ToSet(buf) \cup {s} /\ Upto(s, ToSet(b))
      BY RowBatched
    <2>2. b \in Seq(Wanted) BY <2>1 DEF Ready
    <2>3. Len(b) \in Nat BY <2>2
    <2>4. QED BY <2>1, <2>2, <2>3
  <1>4. s \in Wanted /\ s \in Nat /\ page' \in PageStates BY DEF RowOK
  <1>5. /\ sweep' \in SweepOK /\ sweep'.floor = s /\ sweep'.tip = sweep.tip
        /\ sweep'.after = sweep.after /\ sweep'.through = sweep.through
    <2>1. s \in 0..MaxSeq BY <1>4, Numbers
    <2>2. QED BY <1>2, <2>1 DEF SweepOK
  <1> DEFINE full == Len(b) >= MaxBatch
             d == IF full THEN b ELSE <<>>
  <1>6. (full => d = b) /\ (~full => d = <<>>) OBVIOUS
  <1>7. /\ eng' \in EngOK /\ eng'.after = eng.after /\ eng'.phase \in {"rows", "ended"}
        /\ consumer'.gone => eng'.phase = "ended"
        /\ eng'.phase = "ended" => full
    <2>1. "rows" \in Phases /\ "ok" \in Results BY DEF Phases, Results
    <2>2. CASE full /\ ToOrStop("rows") BY <1>2, <2>1, <2>2, Moves DEF ToOrStop
    <2>3. CASE ~full /\ To("rows") /\ UNCHANGED consumer BY <1>1, <1>2, <2>1, <2>3, Moves
    <2>4. QED BY <2>2, <2>3
  <1>8. (full => buf' = <<>>) /\ (~full => buf' = b) OBVIOUS
  <1>9. /\ Ready(d) /\ HandsOver(d) /\ consumer' \in ConsumerOK /\ stats' \in StatsOK
        /\ stats'.tip = stats.tip /\ stats'.through = stats.through
    <2>0. UNCHANGED <<origin, saved, owed, forgotten>> BY DEF EngineFrame
    <2>1. CASE full
      <3>1. Flush(b) BY <2>1
      <3>2. \E L \in SUBSET Wanted : L = {} OBVIOUS
      <3>3. PICK L \in SUBSET Wanted : L = {} BY <3>2
      <3>4. Delivered(b, L) BY <1>1, <1>3, <3>1, <3>3, Delivery DEF Ready
      <3>5. HandsOver(b)
        <4>1. b # <<>> => \A x \in L : Last(b) < x BY <3>3
        <4>2. QED BY <1>1, <2>0, <3>4, <4>1, DeliveryHandsOver
      <3>6. QED BY <1>3, <1>6, <2>1, <3>4, <3>5 DEF Delivered
    <2>2. CASE ~full
      <3>1. d = <<>> /\ UNCHANGED <<consumer, stats>> BY <1>6, <2>2
      <3> HIDE DEF d
      <3>2. Ready(d) /\ HandsOver(d) BY <1>1, <1>2, <2>0, <3>1, Silent
      <3>3. QED BY <1>2, <3>1, <3>2
    <2>3. QED BY <2>1, <2>2
  <1> HIDE DEF d
  <1>10. buf' \in Seq(Wanted) /\ Len(buf') < MaxBatch
    <2>1. <<>> \in Seq(Wanted) /\ Len(<<>>) = 0 OBVIOUS
    <2>2. CASE full BY <1>8, <2>1, <2>2, Numbers
    <2>3. CASE ~full
      <3>1. Len(b) < MaxBatch BY <1>3, <2>3, Numbers
      <3>2. buf' = b BY <1>8, <2>3
      <3>3. QED BY <1>3, <3>1, <3>2
    <2>4. QED BY <2>2, <2>3
  <1>11. EngineNextOK BY <1>2, <1>4, <1>5, <1>7, <1>9, <1>10 DEF EngineNextOK
  <1>12. ToSet(b) = ToSet(buf') \cup ToSet(d)
    <2>1. ToSet(<<>>) = {} BY DEF ToSet
    <2>2. CASE full BY <1>6, <1>8, <2>1, <2>2
    <2>3. CASE ~full BY <1>6, <1>8, <2>1, <2>3
    <2>4. QED BY <2>2, <2>3
  <1>13. FloorInv'
    <2>1. UptoNext(eng'.after, {}) /\ UptoNext(stats'.through, {})
      BY <1>1, <1>7, <1>9, CarriedAlone DEF FloorInv
    <2>2. Upto(s, ToSet(buf') \cup ToSet(d)) BY <1>3, <1>12
    <2>3. UptoNext(sweep'.floor, ToSet(buf')) BY <1>1, <1>5, <1>9, <2>2, Carried
    <2>4. Waits(buf)' /\ (buf' # <<>> => Last(buf') <= sweep'.floor)
      <3>1. CASE full
        <4>1. Len(buf') = 0 /\ buf' = <<>> BY <1>8, <3>1
        <4>2. QED BY <4>1, WaitsPrimed
      <3>2. CASE ~full
        <4>1. buf' = b /\ consumer' = consumer BY <1>8, <3>2
        <4>2. QED BY <1>3, <1>4, <1>5, <4>1, WaitsPrimed DEF Ready, Waits
      <3>3. QED BY <3>1, <3>2
    <2>5. consumer'.mark <= sweep'.floor
      <3>1. sweep.floor \in Nat /\ consumer.mark \in Nat BY <1>1, <1>2, MarkTypes, Numbers DEF SweepOK
      <3>2. CASE full
        <4>1. d = b BY <1>6, <3>2
        <4>2. consumer'.mark = Last(b) BY <1>3, <1>9, <4>1 DEF HandsOver
        <4>3. QED BY <1>3, <1>4, <1>5, <4>2
      <3>3. CASE ~full BY <1>1, <1>4, <1>5, <3>1, <3>3
      <3>4. QED BY <3>2, <3>3
    <2>6. mode' # "live" BY <1>1 DEF EngineFrame
    <2>7. buf' # <<>> => eng'.phase = "rows" BY <1>7, <1>8
    <2>8. QED BY <1>7, <2>1, <2>3, <2>4, <2>5, <2>6, <2>7, UptoPrimed DEF FloorInv
  <1>14. TipInv' BY <1>0, <1>5, <1>7, <1>9, TipKept DEF SweepPhases
  <1>15. SweepInv'
    <2>1. CASE eng'.phase = "ended" BY <2>1, Idle
    <2>2. CASE eng'.phase = "rows"
      <3>1. /\ Upto(sweep.after, {}) /\ Reaches(page.entries, page.entry.hi)
            /\ UptoTip(page.entry.lo - 1, ToSet(buf) \cup page.rows)
            /\ \A x \in page.rows : x < page.entry.lo /\ x <= sweep.tip
        BY <1>1 DEF SweepInv
      <3>2. UptoNext(sweep'.after, {}) BY <1>1, <1>5, <1>9, <3>1, CarriedAlone
      <3>3. ReachesNext(page'.entries, page'.entry.hi)
        BY <1>5, <3>1 DEF Reaches, ReachesNext, RowOK
      <3>4. UptoTip(page.entry.lo - 1, (ToSet(buf') \cup (page.rows \ {s})) \cup ToSet(d))
        BY <1>3, <1>12, <3>1 DEF UptoTip
      <3>5. UptoTipNext(page'.entry.lo - 1, ToSet(buf') \cup page'.rows)
        BY <1>1, <1>5, <1>9, <3>4, TipCarried DEF RowOK
      <3>6. \A x \in page'.rows : x < page'.entry.lo /\ x <= sweep'.tip BY <1>5, <3>1 DEF RowOK
      <3>7. QED BY <2>2, <3>2, <3>3, <3>5, <3>6, AtEntry
    <2>3. QED BY <1>7, <2>1, <2>2
  <1>16. eng'.phase # "live" BY <1>7
  <1>17. QED BY <1>1, <1>7, <1>9, <1>11, <1>13, <1>14, <1>15, <1>16, EngineKept

LEMMA ReplayRowKept ==
  ASSUME InductiveInv, ReplayRow
  PROVE  StepKept
  <1> DEFINE s == Min(page.rows)
  <1>1. RowOK(s) BY RowTaken
  <1>2. eng.phase = "rows" /\ EngineFrame /\ UNCHANGED <<tail, faults, owed>>
    BY DEF ReplayRow, EngineFrame
  <1>3. \/ /\ s <= sweep.after \/ s = sweep.floor
           /\ To("rows") /\ UNCHANGED <<consumer, stats, sweep, buf>>
        \/ /\ s > sweep.after /\ s < sweep.floor
           /\ End("fatal") /\ UNCHANGED <<consumer, stats, sweep, buf>>
        \/ /\ s > sweep.after /\ s > sweep.floor
           /\ sweep' = [sweep EXCEPT !.floor = s]
           /\ IF Len(Append(buf, s)) >= MaxBatch
              THEN Flush(Append(buf, s)) /\ buf' = <<>> /\ ToOrStop("rows")
              ELSE buf' = Append(buf, s) /\ To("rows") /\ UNCHANGED <<consumer, stats>>
    BY DEF ReplayRow
  <1> HIDE DEF s
  <1>4. CASE /\ s <= sweep.after \/ s = sweep.floor
             /\ To("rows") /\ UNCHANGED <<consumer, stats, sweep, buf>>
    BY <1>1, <1>2, <1>4, RowDropped
  <1>5. CASE End("fatal") /\ UNCHANGED <<consumer, stats, sweep, buf>>
    BY <1>1, <1>2, <1>5, RowDropped
  <1>6. CASE /\ s > sweep.after /\ s > sweep.floor
             /\ sweep' = [sweep EXCEPT !.floor = s]
             /\ IF Len(Append(buf, s)) >= MaxBatch
                THEN Flush(Append(buf, s)) /\ buf' = <<>> /\ ToOrStop("rows")
                ELSE buf' = Append(buf, s) /\ To("rows") /\ UNCHANGED <<consumer, stats>>
    BY <1>1, <1>2, <1>6, RowKept
  <1>7. QED BY <1>3, <1>4, <1>5, <1>6

(* The seam: what the tail will take for granted is handled. *)
LEMMA CutoverKept ==
  ASSUME InductiveInv, Cutover
  PROVE  StepKept
  <1>0. /\ EngineState /\ ConsumerInv /\ TailInv /\ FloorInv /\ TipInv /\ SweepInv
        /\ eng.phase = "cutover"
    BY DEF InductiveInv, Cutover
  <1>1. batch = <<>> /\ buf = <<>> /\ ~consumer.gone
    BY <1>0 DEF TailInv, FloorInv, InRead, ConsumerInv, InTail
  <1>2. /\ faults \in Nat /\ consumer \in ConsumerOK /\ stats \in StatsOK /\ tail \in TailOK
        /\ eng \in EngOK /\ sweep \in SweepOK /\ buf \in Seq(Wanted) /\ Len(buf) < MaxBatch
        /\ owed \subseteq Wanted /\ page \in PageStates /\ seen \in 0..MaxSeq /\ seen \in Nat
    BY <1>0, EngineTypes
  <1>3. UNCHANGED <<server, faults, cancelled, consumer, stats, seen, batch,
                    mode, origin, saved, crashes, sweep, page, buf, owed, forgotten>>
    BY DEF Cutover
  <1>4. EngineFrame BY <1>3 DEF EngineFrame
  <1>5. Ready(buf) /\ HandsOver(buf) BY <1>0, <1>1, <1>2, <1>3, Silent
  <1>6. \A n, X : Upto(n, X) => UptoNext(n, X) BY <1>0, <1>5, CarriedAlone
  <1>7. ToSet(buf) = {} /\ ToSet(batch) = {} BY <1>1 DEF ToSet
  <1>8. "live" \in Phases /\ "ok" \in Results BY DEF Phases, Results
  <1> DEFINE n == IF CanBackfill THEN ResumeFrom ELSE eng.after
  <1>9. n \in 0..MaxSeq /\ consumer.mark <= n /\ Upto(n, {})
    <2>1. stats.tip \in Nat /\ stats.processed \in Nat /\ stats.tip \in 0..MaxSeq
          /\ stats.processed \in 0..MaxSeq /\ stats.processed = consumer.mark
      BY <1>0, <1>2, Numbers DEF StatsOK, ConsumerInv
    <2>2. CASE CanBackfill
      <3> DEFINE m == Max2(stats.tip, stats.processed)
      <3>1. m \in {stats.tip, stats.processed} /\ m \in Nat /\ stats.processed <= m
        BY <2>1, Max2Is
      <3>2. Max2(m, seen) \in {m, seen} /\ m <= Max2(m, seen) /\ Max2(m, seen) \in Nat
        BY <1>2, <3>1, Max2Is
      <3>3. n = Max2(m, seen) BY <2>2 DEF ResumeFrom
      <3>4. Upto(stats.tip, {}) BY <1>0 DEF TipInv
      <3>5. Upto(seen, {}) BY <1>0, <1>7 DEF TailInv
      <3>6. Upto(stats.processed, {}) BY <2>1 DEF Upto, Handled
      <3> HIDE DEF m, n
      <3>7. QED BY <1>2, <2>1, <3>1, <3>2, <3>3, <3>4, <3>5, <3>6
    <2>3. CASE ~CanBackfill
      <3>1. mode = "live" BY <2>3 DEF CanBackfill
      <3>2. consumer.mark <= eng.after /\ Upto(eng.after, {}) BY <1>0, <3>1 DEF FloorInv
      <3>3. QED BY <1>2, <2>3, <3>2 DEF EngOK
    <2>4. QED BY <2>2, <2>3
  <1>10. /\ eng' \in EngOK /\ eng'.after = eng.after
         /\ \/ eng'.phase = "ended" /\ tail' = tail
            \/ eng'.phase = "live" /\ tail' = StartedAt(n)
    BY <1>2, <1>8, Moves DEF Cutover
  <1> HIDE DEF n
  <1>11. StartedAt(n) \in TailOK /\ StartedAt(n).pc = "dict" /\ StartedAt(n).last = n
    <2>1. 1 \in 1..MaxSeq + 1 BY Numbers
    <2>2. QED BY <1>9, <2>1 DEF StartedAt, TailOK, TailPcs, Outcomes
  <1>12. EngineNextOK BY <1>2, <1>3, <1>10, <1>11 DEF EngineNextOK
  <1>13. eng'.phase = "live" =>
           tail'.pc # "read" /\ consumer'.mark <= tail'.last /\ UptoNext(tail'.last, {})
    BY <1>3, <1>6, <1>9, <1>10, <1>11
  <1>14. FloorInv'
    <2>1. UptoNext(eng.after, {}) /\ UptoNext(stats.through, {}) /\ UptoNext(sweep.floor, ToSet(buf))
      BY <1>0, <1>6 DEF FloorInv
    <2>2. Waits(buf)' BY <1>0, <1>3 DEF FloorInv, Waits
    <2>3. QED BY <1>1, <1>3, <1>10, <2>1, <2>2, UptoPrimed DEF FloorInv
  <1>15. TipInv'
    <2>1. UptoNext(stats.tip, {}) BY <1>0, <1>6 DEF TipInv
    <2>2. QED BY <1>3, <1>10, <2>1, UptoPrimed DEF TipInv
  <1>16. SweepInv' BY <1>10, Idle
  <1>17. QED BY <1>1, <1>3, <1>4, <1>5, <1>12, <1>13, <1>14, <1>15, <1>16, EngineKept

(* Back to the archive, or the end of the run. *)
LEMMA AfterLiveKept ==
  ASSUME InductiveInv, AfterLive
  PROVE  StepKept
  <1>0. /\ EngineState /\ ConsumerInv /\ TailInv /\ FloorInv /\ TipInv /\ SweepInv
        /\ eng.phase = "live" /\ tail.pc = "done"
    BY DEF InductiveInv, AfterLive, LeaveLive
  <1>1. batch = <<>> /\ buf = <<>> BY <1>0 DEF TailInv, FloorInv, InRead
  <1>2. /\ faults \in Nat /\ consumer \in ConsumerOK /\ stats \in StatsOK /\ tail \in TailOK
        /\ eng \in EngOK /\ sweep \in SweepOK /\ buf \in Seq(Wanted) /\ Len(buf) < MaxBatch
        /\ owed \subseteq Wanted /\ page \in PageStates /\ seen \in 0..MaxSeq /\ seen \in Nat
    BY <1>0, EngineTypes
  <1>3. UNCHANGED <<server, faults, cancelled, consumer, stats, seen, batch,
                    mode, origin, saved, crashes, sweep, page, buf, owed, forgotten>>
        /\ tail' = TailOff
    BY DEF AfterLive, LeaveLive
  <1>4. EngineFrame BY <1>3 DEF EngineFrame
  <1>5. Ready(buf) /\ HandsOver(buf) BY <1>0, <1>1, <1>2, <1>3, Silent
  <1>6. \A n, X : Upto(n, X) => UptoNext(n, X) BY <1>0, <1>5, CarriedAlone
  <1>7. ToSet(buf) = {} /\ ToSet(batch) = {} BY <1>1 DEF ToSet
  <1>8. TailOff \in TailOK
    <2>1. 1 \in 1..MaxSeq + 1 /\ 0 \in 0..MaxSeq BY Numbers
    <2>2. QED BY <2>1 DEF TailOff, StartedAt, TailOK, TailPcs, Outcomes
  <1>9. stats.tip \in 0..MaxSeq /\ stats.processed \in 0..MaxSeq /\ stats.processed \in Nat
        /\ stats.processed = consumer.mark
    BY <1>0, <1>2, Numbers DEF StatsOK, ConsumerInv
  <1> DEFINE now == <<stats.processed, seen, stats.tip>>
             advanced == \E i \in 1..3 : now[i] + 0 > eng.prev[i]
             stalls == IF advanced THEN 0 ELSE eng.stalls + 1
             m == Max2(stats.processed, seen)
  <1>10. m \in {stats.processed, seen} /\ stats.processed <= m /\ m \in 0..MaxSeq
    BY <1>2, <1>9, Max2Is
  <1>11. \/ tail.outcome \in {"open", "stopped"} /\ End("ok")
         \/ tail.outcome = "fatal" /\ End("fatal")
         \/ tail.outcome = "backfill" /\ stalls >= MaxStalls /\ End("no_progress")
         \/ /\ tail.outcome = "backfill" /\ ~(stalls >= MaxStalls)
            /\ eng' = [eng EXCEPT !.phase = "top", !.stalls = stalls, !.prev = now, !.after = m]
    <2>1. tail.outcome \in {"open", "backfill", "fatal", "stopped"} BY <1>2 DEF TailOK, Outcomes
    <2>2. CASE tail.outcome \in {"open", "stopped"} BY <2>2 DEF AfterLive, LeaveLive
    <2>3. CASE tail.outcome = "fatal" BY <2>3 DEF AfterLive, LeaveLive
    <2>4. CASE tail.outcome = "backfill" BY <2>4 DEF AfterLive, LeaveLive
    <2>5. QED BY <2>1, <2>2, <2>3, <2>4
  <1>12. eng.stalls \in Nat /\ stalls \in Nat
    <2>1. eng.stalls \in Nat BY <1>2, Numbers DEF EngOK
    <2> HIDE DEF advanced
    <2>2. QED BY <2>1
  <1>13. now \in (0..MaxSeq) \X (0..MaxSeq) \X (0..MaxSeq) BY <1>2, <1>9
  <1> HIDE DEF stalls, now, m
  <1>14. \/ eng' \in EngOK /\ eng'.phase = "ended" /\ eng'.after = eng.after
         \/ /\ eng' \in EngOK /\ eng'.phase = "top" /\ eng'.after = m
            /\ tail.outcome = "backfill"
    <2>1. "ok" \in Results /\ "fatal" \in Results /\ "no_progress" \in Results /\ "top" \in Phases
      BY DEF Results, Phases
    <2>2. CASE End("ok") \/ End("fatal") \/ End("no_progress") BY <1>2, <2>1, <2>2, Moves
    <2>3. CASE /\ tail.outcome = "backfill" /\ ~(stalls >= MaxStalls)
               /\ eng' = [eng EXCEPT !.phase = "top", !.stalls = stalls, !.prev = now, !.after = m]
      <3>1. stalls \in 0..MaxStalls BY <1>12, <2>3, Numbers
      <3>2. QED BY <1>2, <1>10, <1>13, <2>1, <2>3, <3>1 DEF EngOK
    <2>4. QED BY <1>11, <2>2, <2>3
  <1>15. consumer'.gone => eng'.phase = "ended"
    BY <1>0, <1>3, <1>14 DEF ConsumerInv, InTail
  <1>16. EngineNextOK BY <1>2, <1>3, <1>8, <1>14 DEF EngineNextOK
  <1>17. Upto(m, {})
    <2>1. Upto(seen, {}) BY <1>0, <1>7 DEF TailInv
    <2>2. Upto(stats.processed, {}) BY <1>9 DEF Upto, Handled
    <2>3. QED BY <1>10, <2>1, <2>2
  <1>18. FloorInv'
    <2>1. UptoNext(eng.after, {}) /\ UptoNext(stats.through, {}) /\ UptoNext(sweep.floor, ToSet(buf))
          /\ UptoNext(m, {})
      BY <1>0, <1>6, <1>17 DEF FloorInv
    <2>2. Waits(buf)' BY <1>0, <1>3 DEF FloorInv, Waits
    <2>3. eng'.phase = "top" => consumer'.mark <= eng'.after BY <1>3, <1>9, <1>10, <1>14
    <2>4. UptoNext(eng'.after, {}) BY <1>14, <2>1
    <2>5. QED BY <1>1, <1>3, <1>14, <2>1, <2>2, <2>3, <2>4, UptoPrimed DEF FloorInv
  <1>19. TipInv'
    <2>1. UptoNext(stats.tip, {}) BY <1>0, <1>6 DEF TipInv
    <2>2. QED BY <1>3, <1>14, <2>1, UptoPrimed DEF TipInv
  <1>20. SweepInv' BY <1>14, Idle
  <1>21. eng'.phase # "live" BY <1>14
  <1>22. QED BY <1>1, <1>4, <1>5, <1>15, <1>16, <1>18, <1>19, <1>20, <1>21, EngineKept

-----------------------------------------------------------------------------
(* The consumer's disk and its restarts. *)

LEMMA SaveCursorKept ==
  ASSUME InductiveInv, SaveCursor
  PROVE  StepKept
  <1>0. EngineState /\ ConsumerInv /\ TailInv /\ FloorInv /\ TipInv /\ SweepInv BY DEF InductiveInv
  <1>1. /\ UNCHANGED <<mode, origin, crashes, eng, sweep, page, buf, owed, forgotten>>
        /\ UNCHANGED <<server, faults, cancelled, consumer, stats, seen, tail, batch>>
        /\ saved' = consumer.mark
    BY DEF SaveCursor, liveVars
  <1>2. EngineState'
    <2>1. saved' \in 0..MaxSeq BY <1>0, <1>1 DEF EngineState, LiveTypeOK
    <2>2. QED BY <1>0, <1>1, <2>1 DEF EngineState, LiveTypeOK
  <1>3. ConsumerInv' BY <1>0, <1>1 DEF ConsumerInv, InTail, Accounted, Excused
  <1>4. \A n, X : Upto(n, X) <=> UptoNext(n, X) BY <1>1 DEF Upto, UptoNext, Handled, Excused
  <1>5. TailInv'
    <2>1. Waits(batch)' BY <1>0, <1>1 DEF TailInv, Waits
    <2>2. QED BY <1>0, <1>1, <1>4, <2>1, UptoPrimed DEF TailInv, InTail, InRead
  <1>6. FloorInv'
    <2>1. Waits(buf)' BY <1>0, <1>1 DEF FloorInv, Waits
    <2>2. QED BY <1>0, <1>1, <1>4, <2>1, UptoPrimed DEF FloorInv
  <1>7. TipInv' BY <1>0, <1>1 DEF TipInv, Upto, Handled, Excused
  <1>8. SweepInv' BY <1>0, <1>1 DEF SweepInv, Upto, UptoTip, Reaches, Chained, Handled, Excused
  <1>9. Feed!FeedSave BY <1>1 DEF Feed!FeedSave, Excused
  <1>10. QED BY <1>2, <1>3, <1>5, <1>6, <1>7, <1>8, <1>9 DEF StepKept, InductiveInv, Feed!FeedNext

(* A new engine, from cursor c. *)
LEMMA Fresh ==
  ASSUME NEW c \in 0..MaxSeq
  PROVE  /\ FreshEngine(c) \in EngOK /\ FreshEngine(c).phase = "top" /\ FreshEngine(c).after = c
         /\ Sweep0(c) \in SweepOK /\ Sweep0(c).floor = c
         /\ Page0 \in PageStates /\ TailOff \in TailOK
         /\ [processed |-> c, tip |-> 0, through |-> 0] \in StatsOK
         /\ <<>> \in Seq(Wanted) /\ Len(<<>>) = 0 /\ ToSet(<<>>) = {}
  <1>1. 0 \in 0..MaxSeq /\ 1 \in 1..MaxSeq + 1 /\ NoTip \in 0..NoTip /\ 0 \in 0..MaxPages
        /\ 0 \in 0..MaxStalls
    BY Numbers
  <1>2. FreshEngine(c) \in EngOK /\ FreshEngine(c).phase = "top" /\ FreshEngine(c).after = c
    <2>1. <<c, c, 0>> \in (0..MaxSeq) \X (0..MaxSeq) \X (0..MaxSeq) BY <1>1
    <2>2. "top" \in Phases /\ "none" \in Results BY DEF Phases, Results
    <2>3. QED BY <1>1, <2>1, <2>2 DEF FreshEngine, EngOK
  <1>3. Sweep0(c) \in SweepOK /\ Sweep0(c).floor = c BY <1>1 DEF Sweep0, SweepOK
  <1>4. Page0 \in PageStates
    <2>1. NoEntry \in EntryOK BY DEF NoEntry, EntryOK
    <2>2. <<>> \in Seq(EntryOK) /\ {} \in SUBSET Wanted OBVIOUS
    <2>3. QED BY <2>1, <2>2 DEF Page0, PageStates
  <1>5. TailOff \in TailOK BY <1>1 DEF TailOff, StartedAt, TailOK, TailPcs, Outcomes
  <1>6. [processed |-> c, tip |-> 0, through |-> 0] \in StatsOK BY <1>1 DEF StatsOK
  <1>7. <<>> \in Seq(Wanted) /\ Len(<<>>) = 0 /\ ToSet(<<>>) = {} BY DEF ToSet
  <1>8. QED BY <1>2, <1>3, <1>4, <1>5, <1>6, <1>7

(* A restart: whatever was handed over since the cursor was saved will come *)
(* again, and the reports that were cut off are forgotten.                  *)
LEMMA RestartKept ==
  ASSUME InductiveInv, Restart
  PROVE  StepKept
  <1>0. EngineState /\ ConsumerInv BY DEF InductiveInv
  <1>1. /\ crashes < MaxCrashes /\ crashes' = crashes + 1
        /\ consumer' = [consumer EXCEPT !.mark = saved, !.gone = FALSE]
        /\ cancelled' = FALSE /\ stats' = [processed |-> saved, tip |-> 0, through |-> 0]
        /\ seen' = saved /\ tail' = TailOff /\ batch' = <<>>
        /\ eng' = FreshEngine(saved) /\ sweep' = Sweep0(saved) /\ page' = Page0
        /\ buf' = <<>> /\ owed' = {} /\ forgotten' = forgotten \cup owed
        /\ UNCHANGED <<server, faults, mode, origin, saved>>
    BY DEF Restart
  <1>2. saved \in 0..MaxSeq /\ saved \in Nat /\ consumer \in ConsumerOK
    <2>1. saved \in 0..MaxSeq BY <1>0 DEF EngineState
    <2>2. consumer \in ConsumerOK BY <1>0, SinkTypes
    <2>3. QED BY <2>1, <2>2, Numbers
  <1>3. /\ eng' \in EngOK /\ eng'.phase = "top" /\ eng'.after = saved
        /\ sweep' \in SweepOK /\ sweep'.floor = saved
        /\ page' \in PageStates /\ tail' \in TailOK /\ stats' \in StatsOK
        /\ <<>> \in Seq(Wanted) /\ Len(<<>>) = 0 /\ ToSet(<<>>) = {}
    BY <1>1, <1>2, Fresh
  <1>4. /\ consumer' \in ConsumerOK /\ consumer'.mark = saved /\ ~consumer'.gone
        /\ consumer'.late = consumer.late
        /\ consumer'.got = consumer.got /\ consumer'.lost = consumer.lost
    BY <1>1, <1>2 DEF ConsumerOK
  <1>5. stats'.processed = saved /\ stats'.tip = 0 /\ stats'.through = 0 BY <1>1
  <1>6. Excused' = Excused BY <1>1, <1>4 DEF Excused
  <1>7. EngineState'
    <2>1. LiveTypeOK'
      <3>1. Wanted \subseteq Seqs BY Numbers
      <3>2. consumer' \in [got : SUBSET Seqs, mark : 0..MaxSeq, lost : SUBSET Seqs,
                           gone : BOOLEAN, late : BOOLEAN]
        BY <1>4, <3>1 DEF ConsumerOK
      <3>3. batch' \in Seq(Seqs) /\ Len(batch') < MaxBatch BY <1>1, <1>3, Numbers
      <3>4. server' = server /\ faults' = faults /\ cancelled' = FALSE /\ seen' = saved
            /\ stats' \in StatsOK /\ tail' \in TailOK
        BY <1>1, <1>3
      <3>5. QED BY <1>0, <1>2, <3>2, <3>3, <3>4 DEF EngineState, LiveTypeOK, StatsOK, TailOK
    <2>2. crashes' \in 0..MaxCrashes
      <3>1. crashes \in 0..MaxCrashes BY <1>0 DEF EngineState
      <3>2. QED BY <1>1, <3>1, EngineAssumption
    <2>3. owed' \subseteq Wanted /\ forgotten' \subseteq Wanted BY <1>0, <1>1 DEF EngineState
    <2>4. batch' \in Seq(Wanted) /\ buf' \in Seq(Wanted) /\ Len(buf') < MaxBatch
      BY <1>1, <1>3, Numbers
    <2>5. consumer'.got \subseteq Wanted /\ consumer'.lost \subseteq Wanted BY <1>4 DEF ConsumerOK
    <2>6. UNCHANGED <<mode, origin, saved>> BY <1>1
    <2>7. QED BY <1>0, <1>3, <2>1, <2>2, <2>3, <2>4, <2>5, <2>6
          DEF EngineState, EngOK, SweepOK, PageStates
  <1>8. ConsumerInv'
    BY <1>0, <1>1, <1>4, <1>5, <1>6 DEF ConsumerInv, Accounted
  <1>9. \A X : UptoNext(saved, X) /\ UptoNext(0, X)
    <2>1. \A s \in Wanted : s <= 0 => FALSE BY Numbers
    <2>2. QED BY <1>4, <2>1 DEF UptoNext
  <1>10. TailInv'
    <2>1. Waits(batch)' BY <1>1, <1>3, WaitsPrimed
    <2>2. UptoNext(seen', ToSet(batch')) BY <1>1, <1>9
    <2>3. QED BY <1>1, <1>3, <2>1, <2>2, UptoPrimed DEF TailInv, InTail, InRead
  <1>11. FloorInv'
    <2>1. Waits(buf)' BY <1>1, <1>3, WaitsPrimed
    <2>2. UptoNext(sweep'.floor, ToSet(buf')) /\ UptoNext(eng'.after, {}) /\ UptoNext(stats'.through, {})
      BY <1>3, <1>5, <1>9
    <2>3. consumer'.mark <= eng'.after BY <1>2, <1>3, <1>4
    <2>4. QED BY <1>1, <1>3, <2>1, <2>2, <2>3, UptoPrimed DEF FloorInv
  <1>12. TipInv' BY <1>3, <1>5, <1>9, UptoPrimed DEF TipInv
  <1>13. SweepInv' BY <1>3, Idle
  <1>14. Feed!FeedRestart BY <1>1, <1>4, <1>6 DEF Feed!FeedRestart
  <1>15. QED BY <1>7, <1>8, <1>10, <1>11, <1>12, <1>13, <1>14 DEF StepKept, InductiveInv, Feed!FeedNext

LEMMA EngineStarts ==
  ASSUME EngineInit
  PROVE  InductiveInv /\ Feed!FeedInit
  <1>1. /\ mode \in Modes /\ origin \in StartAt /\ saved = origin
        /\ consumer = [got |-> {}, mark |-> origin, lost |-> {}, gone |-> FALSE, late |-> FALSE]
        /\ stats = [processed |-> origin, tip |-> 0, through |-> 0]
        /\ seen = origin /\ faults = MaxFaults /\ crashes = 0 /\ cancelled = FALSE
        /\ eng = FreshEngine(origin) /\ sweep = Sweep0(origin) /\ page = Page0
        /\ buf = <<>> /\ owed = {} /\ forgotten = {} /\ tail = TailOff /\ batch = <<>>
        /\ server \in [written : 0..MaxSeq, trimmed : {0}, sealed : {0}, dict : Dicts]
    BY DEF EngineInit, LiveInit
  <1>2. origin \in 0..MaxSeq /\ origin \in Nat /\ 0 \in 0..MaxSeq /\ MaxCrashes \in Nat /\ MaxFaults \in Nat
    BY <1>1, EngineAssumption, Numbers
  <1>3. /\ eng \in EngOK /\ eng.phase = "top" /\ eng.after = origin
        /\ sweep \in SweepOK /\ sweep.floor = origin
        /\ page \in PageStates /\ tail \in TailOK /\ stats \in StatsOK
        /\ <<>> \in Seq(Wanted) /\ Len(<<>>) = 0 /\ ToSet(<<>>) = {}
    BY <1>1, <1>2, Fresh
  <1>4. /\ consumer \in ConsumerOK /\ consumer.mark = origin /\ consumer.gone = FALSE
        /\ consumer.late = FALSE /\ consumer.got = {} /\ consumer.lost = {}
    BY <1>1, <1>2 DEF ConsumerOK
  <1>5. stats.processed = origin /\ stats.tip = 0 /\ stats.through = 0 BY <1>1
  <1>6. Excused = {} BY <1>1, <1>4 DEF Excused
  <1>7. EngineState
    <2>1. LiveTypeOK
      <3>1. consumer \in [got : SUBSET Seqs, mark : 0..MaxSeq, lost : SUBSET Seqs,
                          gone : BOOLEAN, late : BOOLEAN]
        BY <1>1, <1>2
      <3>2. batch \in Seq(Seqs) /\ Len(batch) < MaxBatch BY <1>1, <1>3, Numbers
      <3>3. server \in ServerOK BY <1>1, <1>2 DEF ServerOK
      <3>4. faults \in Nat /\ cancelled \in BOOLEAN /\ seen \in 0..MaxSeq BY <1>1, <1>2
      <3>5. QED BY <1>3, <3>1, <3>2, <3>3, <3>4 DEF LiveTypeOK, StatsOK, TailOK, ServerOK
    <2>2. mode \in {"live", "both", "snapshot"} BY <1>1, EngineAssumption
    <2>3. saved \in 0..MaxSeq /\ crashes \in 0..MaxCrashes BY <1>1, <1>2
    <2>4. batch \in Seq(Wanted) /\ buf \in Seq(Wanted) /\ Len(buf) < MaxBatch BY <1>1, <1>3, Numbers
    <2>5. owed \subseteq Wanted /\ forgotten \subseteq Wanted
          /\ consumer.got \subseteq Wanted /\ consumer.lost \subseteq Wanted
      BY <1>1, <1>4
    <2>6. QED BY <1>1, <1>2, <1>3, <2>1, <2>2, <2>3, <2>4, <2>5
          DEF EngineState, EngOK, SweepOK, PageStates
  <1>8. \A s \in Wanted : s <= origin \/ s <= 0 => ~(origin < s) BY <1>2, Numbers
  <1>9. ConsumerInv BY <1>1, <1>2, <1>4, <1>5, <1>8 DEF ConsumerInv
  <1>10. \A X : Upto(origin, X) /\ Upto(0, X) BY <1>8 DEF Upto
  <1>11. Waits(batch) /\ Waits(buf) BY <1>1, <1>3 DEF Waits
  <1>12. TailInv BY <1>1, <1>3, <1>10, <1>11 DEF TailInv, InTail, InRead
  <1>13. FloorInv BY <1>1, <1>2, <1>3, <1>4, <1>5, <1>10, <1>11 DEF FloorInv
  <1>14. TipInv BY <1>3, <1>5, <1>10 DEF TipInv
  <1>15. SweepInv BY <1>3 DEF SweepInv
  <1>16. Feed!FeedInit BY <1>1, <1>4, <1>6 DEF Feed!FeedInit
  <1>17. QED BY <1>7, <1>9, <1>12, <1>13, <1>14, <1>15, <1>16 DEF InductiveInv

(* Every step of the engine and of its surroundings. *)
LEMMA EngineStepKept ==
  ASSUME InductiveInv, [EngineNext]_vars
  PROVE  StepKept
  <1>1. CASE EngineStep
    BY <1>1, StartSweepKept, PlanPageKept, FinishPageKept, NextEntryKept, NextChunkKept,
       ReplayRowKept, FinishChunkKept, FinishEntryKept, EntryCancelledKept, CutoverKept,
       LiveStepKept, AfterLiveKept DEF EngineStep
  <1>2. CASE EngineEnvironment
    BY <1>2, ServerKept, SaveCursorKept, RestartKept DEF EngineEnvironment
  <1>3. CASE UNCHANGED vars
    <2>1. UNCHANGED <<server, faults, cancelled, consumer, stats, seen, tail, batch, engineVars>>
      BY <1>3 DEF vars, liveVars
    <2>2. server \in ServerOK /\ faults \in Nat /\ cancelled \in BOOLEAN
      BY DEF InductiveInv, EngineState, LiveTypeOK, ServerOK
    <2>3. QED BY <2>1, <2>2, EnvironmentKept
  <1>4. QED BY <1>1, <1>2, <1>3 DEF EngineNext

(* What the invariant says of the properties. *)
LEMMA HandledIsAccounted ==
  ASSUME InductiveInv, NEW s \in Wanted, origin < s, Handled(s)
  PROVE  Accounted(s)
  BY DEF InductiveInv, ConsumerInv, Handled, Accounted

-----------------------------------------------------------------------------
(* Theorems. *)

(* The invariant of the engine (engine.rs, live.rs, planner.rs): types,      *)
(* cursors, batches, and what lies below each of the marks it keeps.         *)
THEOREM EngineInvariant == EngineSpec => []InductiveInv
  <1>1. EngineInit => InductiveInv BY EngineStarts
  <1>2. InductiveInv /\ [EngineNext]_vars => InductiveInv' BY EngineStepKept DEF StepKept
  <1>3. QED BY <1>1, <1>2, PTL DEF EngineSpec

(* Archive sweep, cutover, live tail, re-backfill and restart together show  *)
(* the consumer one ordered feed: no wanted event twice or out of order in   *)
(* one life, none passed over that was not given up (run_projected and the   *)
(* EngineSink contract).                                                     *)
THEOREM EngineImplementsFeed == EngineSpec => ImplementsFeed
  <1>1. EngineInit => Feed!FeedInit BY EngineStarts
  <1>2. InductiveInv /\ [EngineNext]_vars => [Feed!FeedNext]_(Feed!feedVars)
    BY EngineStepKept DEF StepKept
  <1>3. QED BY <1>1, <1>2, EngineInvariant, PTL DEF EngineSpec, ImplementsFeed, Feed!FeedSpec

(* The published cursors and the seam: planned_through_seq, the mark the     *)
(* live tail resumes and deduplicates from, and last_processed_seq never     *)
(* cover an event that was not delivered, pending or given up.               *)
THEOREM EngineCursors == EngineSpec => []EngineInv
  <1>1. InductiveInv => EngineInv
    <2> SUFFICES ASSUME InductiveInv PROVE EngineInv OBVIOUS
    <2>0. EngineState /\ ConsumerInv /\ TailInv /\ FloorInv BY DEF InductiveInv
    <2>1. EngineTypeOK
      <3>1. buf \in Seq(Seqs)
        <4>1. Wanted \subseteq Seqs BY Numbers
        <4>2. QED BY <2>0, <4>1 DEF EngineState
      <3>2. eng.phase \in Phases /\ eng.after \in 0..MaxSeq /\ eng.stalls \in 0..MaxStalls
        BY <2>0 DEF EngineState
      <3>3. QED BY <2>0, <3>1, <3>2 DEF EngineState, EngineTypeOK, Phases
    <2>2. SeamCovered
      BY <2>0, HandledIsAccounted DEF SeamCovered, TailInv, InTail, Upto
    <2>3. CoverageIsHonest
      BY <2>0, HandledIsAccounted DEF CoverageIsHonest, FloorInv, Upto
    <2>4. CursorConsistent BY <2>0 DEF CursorConsistent, ConsumerInv
    <2>5. QED BY <2>1, <2>2, <2>3, <2>4 DEF EngineInv
  <1>2. QED BY <1>1, EngineInvariant, PTL

(* A run that ends without an error, a cancelled one included, owes nothing  *)
(* it had accepted, and a consumer that answered false is not called again   *)
(* (the flushes on cancellation and shutdown in engine.rs and live.rs).      *)
THEOREM EngineStopsCleanly == EngineSpec => []StopsCleanly
  <1>1. InductiveInv => StopsCleanly
    <2> SUFFICES ASSUME InductiveInv PROVE StopsCleanly OBVIOUS
    <2>0. EngineState /\ ConsumerInv /\ TailInv /\ FloorInv BY DEF InductiveInv
    <2>1. NoCallAfterStop BY <2>0 DEF NoCallAfterStop, ConsumerInv
    <2>2. ASSUME eng.phase = "ended", eng.result = "ok", NEW s \in Wanted, origin < s,
                 s <= Max2(seen, sweep.floor)
          PROVE  Accounted(s)
      <3>1. batch = <<>> /\ buf = <<>> BY <2>0, <2>2 DEF TailInv, FloorInv, InRead
      <3>2. ToSet(batch) = {} /\ ToSet(buf) = {} BY <3>1 DEF ToSet
      <3>3. Upto(seen, {}) /\ Upto(sweep.floor, {}) BY <2>0, <3>2 DEF TailInv, FloorInv
      <3>4. seen \in Nat /\ sweep.floor \in Nat
        BY <2>0, EngineTypes, Numbers DEF SweepOK
      <3>5. Max2(seen, sweep.floor) \in {seen, sweep.floor} BY <3>4, Max2Is
      <3>6. Handled(s) BY <2>2, <3>3, <3>5 DEF Upto
      <3>7. QED BY <2>2, <3>6, HandledIsAccounted
    <2>3. CleanEnd BY <2>2 DEF CleanEnd
    <2>4. QED BY <2>1, <2>3 DEF StopsCleanly
  <1>2. QED BY <1>1, EngineInvariant, PTL

(* Whatever cursor the consumer saved, and whatever it was handed since: no  *)
(* wanted event below was skipped silently, over any number of restarts.     *)
THEOREM EngineNoSilentGap == EngineSpec => []Feed!NoSilentGap
  <1>1. InductiveInv => Feed!NoSilentGap
    BY DEF InductiveInv, ConsumerInv, Accounted, Feed!NoSilentGap
  <1>2. QED BY <1>1, EngineInvariant, PTL

=============================================================================
