---- MODULE MCRateLimit ----
(* Requests of one caller to two processes of the API.                       *)
EXTENDS Admission
MCHome == [r1 |-> "p1", r2 |-> "p1", r3 |-> "p2"]
MCReserve == [r1 |-> 1, r2 |-> 1, r3 |-> 2]
====
