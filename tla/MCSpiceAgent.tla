---------------------------- MODULE MCSpiceAgent ----------------------------
(***************************************************************************)
(* Two files, one of two reads and one of a single read, which the user    *)
(* may cancel; a window of two tokens that come back together; an agent    *)
(* that may leave and be followed by another; one resize or one request.   *)
(***************************************************************************)
EXTENDS SpiceAgent, TLC

CONSTANTS f1, f2

ReadsOf == f1 :> 2 @@ f2 :> 1

FairSpec == AgentSpec /\ AgentFairness
=============================================================================
