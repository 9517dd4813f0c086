------------------------------- MODULE MCSessions -------------------------------
(* A small instance of Sessions for TLC. *)
EXTENDS Sessions, TLC

CONSTANTS e1, e2, u1, u2, r1, r2, r3

Symmetric == Permutations(UserId) \cup Permutations(Req)
===============================================================================
