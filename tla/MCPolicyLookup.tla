---------------------------- MODULE MCPolicyLookup ----------------------------
(***************************************************************************)
(* PolicyLookup with one session and one other process, which searches or  *)
(* rebuilds.                                                               *)
(***************************************************************************)
EXTENDS PolicyLookup
=============================================================================
