----------------------------- MODULE MCJetstream -----------------------------
(* Instances of JetstreamEngine for TLC. *)
EXTENDS JetstreamEngine

(* Event 3 fails the filter. *)
MCWanted == Seqs \ {3}
==============================================================================
