-------------------------- MODULE MCMemoryBackend --------------------------
(***************************************************************************)
(* Instances of MemoryBackend for TLC.                                     *)
(***************************************************************************)
EXTENDS MemoryBackend, TLC

MCSize == [p \in Payloads |-> 1]

ThreadSymmetry == Permutations(Threads)
=============================================================================
