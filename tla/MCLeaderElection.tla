-------------------------- MODULE MCLeaderElection --------------------------
(***************************************************************************)
(* Two processes, the second of which may create the CRD and may vanish.   *)
(***************************************************************************)
EXTENDS LeaderElection

CONSTANTS c1, c2

MCcreateCRD == [c \in Controller |-> c = c2]
=============================================================================
