---------------------------- MODULE MCFlowTable -----------------------------
(***************************************************************************)
(* An instance of FlowTable for TLC.                                       *)
(***************************************************************************)
EXTENDS FlowTable, TLC

\* Addresses, keys and processors are interchangeable.
Sym == Permutations(Flow) \cup Permutations(Acts) \cup Permutations(Table)
       \cup Permutations(Cpu) \cup Permutations(Key)
=============================================================================
