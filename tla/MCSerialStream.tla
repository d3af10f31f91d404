--------------------------- MODULE MCSerialStream ---------------------------
(* Instances of SerialStream for TLC. *)
EXTENDS SerialStream

CONSTANT r1

MCWanted == Seqs \ {2}
MCRepoOf == [s \in Wanted |-> r1]
=============================================================================
