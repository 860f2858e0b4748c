---------------------------- MODULE MCMemoryStore ----------------------------
(***************************************************************************)
(* MemoryStore with two runs of one user, a cap of two facts, and days on  *)
(* either side of the decay of recency and of the hard TTL.                *)
(***************************************************************************)
EXTENDS MemoryStore, TLC

MCTypes == {"kyc_outcome", "employment"}

MCDays == {0, 200, 400}

Alike == Permutations(Sessions)
=============================================================================
