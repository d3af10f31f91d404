-------------------------- MODULE OrderedFeedProofs --------------------------
(* What every consumer of an ordered feed may conclude, whatever the events  *)
(* and cursors.  SerialStream and JetstreamEngine implement the feed.        *)
EXTENDS OrderedFeed, TLAPS

(* A batch covers the events between the old mark and the new one. *)
LEMMA DeliverCovers ==
  ASSUME FeedDeliver, NEW s \in Wanted, mark < s, s <= mark'
  PROVE  s \in got' \cup excused'
BY DEF FeedDeliver

(* Nothing that was delivered or given up is taken back. *)
LEMMA FeedGrows ==
  ASSUME [FeedNext]_feedVars
  PROVE  got \subseteq got' /\ excused \subseteq excused'
BY DEF FeedNext, FeedDeliver, FeedExcuse, FeedSave, FeedRestart, feedVars

(* Cursors are numbers and only wanted events are handed over: the           *)
(* deliveries, error reports, saves and restarts of the streams keep it so.  *)
THEOREM FeedTypeCorrect == ASSUME FeedConstants PROVE FeedSpec => []FeedTypeOK
<1>1. FeedInit => FeedTypeOK
  BY DEF FeedConstants, FeedInit, FeedTypeOK
<1>2. FeedTypeOK /\ [FeedNext]_feedVars => FeedTypeOK'
  <2> SUFFICES ASSUME FeedTypeOK, [FeedNext]_feedVars PROVE FeedTypeOK'
    OBVIOUS
  <2>1. CASE FeedDeliver
    BY <2>1 DEF FeedConstants, FeedTypeOK, FeedDeliver
  <2>2. CASE FeedExcuse
    BY <2>2 DEF FeedTypeOK, FeedExcuse
  <2>3. CASE FeedSave
    BY <2>3 DEF FeedTypeOK, FeedSave
  <2>4. CASE FeedRestart
    BY <2>4 DEF FeedTypeOK, FeedRestart
  <2>5. CASE UNCHANGED feedVars
    BY <2>5 DEF FeedTypeOK, feedVars
  <2> QED
    BY <2>1, <2>2, <2>3, <2>4, <2>5 DEF FeedNext
<1> QED
  BY <1>1, <1>2, PTL DEF FeedSpec

(* No wanted event below the saved cursor, or below the current one, is      *)
(* missing without having been given up: over any batches, errors, saves and *)
(* restarts of a stream that implements the feed.                            *)
THEOREM FeedNoSilentGap == ASSUME FeedConstants PROVE FeedSpec => []NoSilentGap
<1>1. FeedInit => NoSilentGap
  <2> SUFFICES ASSUME FeedInit, NEW s \in Wanted, origin < s, s <= saved \/ s <= mark
               PROVE  s \in got \cup excused
    BY DEF NoSilentGap
  <2> QED
    BY DEF FeedInit, FeedConstants
<1>2. FeedTypeOK /\ NoSilentGap /\ [FeedNext]_feedVars => NoSilentGap'
  <2> SUFFICES ASSUME FeedTypeOK, NoSilentGap, [FeedNext]_feedVars, NEW s \in Wanted,
                      origin' < s, s <= saved' \/ s <= mark'
               PROVE  s \in got' \cup excused'
    BY DEF NoSilentGap
  <2>1. /\ origin' = origin /\ s \in Nat /\ mark \in Nat
        /\ s <= saved \/ s <= mark => s \in got' \cup excused'
    BY FeedGrows DEF FeedNext, FeedDeliver, FeedExcuse, FeedSave, FeedRestart, feedVars,
                     NoSilentGap, FeedTypeOK, FeedConstants
  <2>2. CASE FeedDeliver
    <3>1. CASE s <= saved \/ s <= mark
      BY <2>1, <3>1
    <3>2. CASE mark < s /\ s <= mark'
      BY <2>2, <3>2, DeliverCovers
    <3> QED
      BY <2>1, <2>2, <3>1, <3>2 DEF FeedDeliver
  <2>3. CASE ~FeedDeliver
    <3>1. s <= saved \/ s <= mark
      BY <2>3 DEF FeedNext, FeedExcuse, FeedSave, FeedRestart, feedVars
    <3> QED
      BY <2>1, <3>1
  <2> QED
    BY <2>2, <2>3
<1> QED
  BY <1>1, <1>2, FeedTypeCorrect, PTL DEF FeedSpec

=============================================================================
