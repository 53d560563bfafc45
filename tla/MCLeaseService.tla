---------------------------- MODULE MCLeaseService ----------------------------
(* An instance of LeaseService for model checking. *)
EXTENDS LeaseService

CONSTANTS c1, c2

TwoClients == {c1, c2}
===============================================================================
