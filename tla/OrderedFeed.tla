----------------------------- MODULE OrderedFeed -----------------------------
(* What a consumer of the serial streams or of a Jetstream v2 engine may     *)
(* rely on, without archive, live tail, batching or reconnects: wanted events*)
(* arrive in order and once, an event that is passed over has been given up  *)
(* openly, and a consumer that restarts from the cursor it saved sees again  *)
(* whatever it may have lost.                                                *)
EXTENDS Naturals, FiniteSets

CONSTANTS
  Wanted,     \* the events the subscription filter admits
  StartAt     \* the cursors a consumer may begin with

FeedConstants == Wanted \subseteq Nat /\ StartAt \subseteq Nat

VARIABLES
  origin,     \* the cursor the consumer began with
  mark,       \* the cursor: everything up to it was handed over or given up
  saved,      \* the cursor the consumer has on disk
  got,        \* events handed over, over all restarts
  excused     \* events given up: reported as an error, or dropped on purpose

feedVars == <<origin, mark, saved, got, excused>>

FeedTypeOK ==
  /\ origin \in Nat /\ mark \in Nat /\ saved \in Nat
  /\ got \subseteq Wanted
  /\ excused \subseteq Nat

FeedInit ==
  /\ origin \in StartAt
  /\ mark = origin /\ saved = origin
  /\ got = {} /\ excused = {}

(* One batch b: above everything handed over before, and with no wanted     *)
(* event left out on the way to the new mark that was not given up before;  *)
(* an error that gives up later events may follow at once.                  *)
FeedDeliver ==
  /\ mark' \in Nat /\ mark < mark'
  /\ \E b \in SUBSET {s \in Wanted : mark < s /\ s <= mark'} :
       /\ {s \in Wanted : mark < s /\ s <= mark'} \subseteq b \cup excused
       /\ got' = got \cup b
  /\ \E later \in SUBSET {s \in Wanted : s > mark'} : excused' = excused \cup later
  /\ UNCHANGED <<origin, saved>>

(* Events are given up before anything above them is handed over. *)
FeedExcuse ==
  /\ excused \subseteq excused' /\ excused' \subseteq Nat
  /\ UNCHANGED <<origin, mark, saved, got>>

(* The consumer writes the highest cursor it has handled to disk. *)
FeedSave == saved' = mark /\ UNCHANGED <<origin, mark, got, excused>>

(* It restarts from there. *)
FeedRestart == mark' = saved /\ UNCHANGED <<origin, saved, got, excused>>

FeedNext == FeedDeliver \/ FeedExcuse \/ FeedSave \/ FeedRestart

FeedSpec == FeedInit /\ [][FeedNext]_feedVars

(* Every wanted event at or below the saved cursor, or below what was handed *)
(* over since, was delivered or given up openly: whatever batches, restarts  *)
(* and cutovers lay between, none was skipped.                               *)
NoSilentGap ==
  \A s \in Wanted : origin < s /\ (s <= saved \/ s <= mark) => s \in got \cup excused
=============================================================================
