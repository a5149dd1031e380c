----------------------------- MODULE MCStartup -----------------------------
(***************************************************************************)
(* The flag of up to three processes: c3 was told not to create the CRD.   *)
(***************************************************************************)
EXTENDS Startup

CONSTANTS c1, c2, c3

MCcreateCRD == [c \in Controller |-> c # c3]
=============================================================================
