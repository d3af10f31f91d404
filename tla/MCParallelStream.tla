-------------------------- MODULE MCParallelStream --------------------------
(* Instances of ParallelStream for TLC. *)
EXTENDS ParallelStream, TLC

CONSTANTS k1, k2

(* Two frames of one DID around one of another. *)
MCKeyOf == (1 :> k1) @@ (2 :> k2) @@ (3 :> k1)

(* Three frames of one DID: its queue overflows. *)
MCOneKey == [s \in Seqs |-> k1]

MCStart == {-1, 1}
MCStartNone == {-1}

Symmetry == Permutations(Workers)
=============================================================================
