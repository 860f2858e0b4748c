---------------------------- MODULE MCPolicyStore ----------------------------
(***************************************************************************)
(* PolicyStore with three processes at a time and a corpus of two clauses    *)
(* that has lost a third.                                                  *)
(***************************************************************************)
EXTENDS PolicyStore, TLC

Alike == Permutations(Processes)
=============================================================================
