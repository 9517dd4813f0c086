---------------------------- MODULE MCTokenAlerts ----------------------------
(* Small instances of TokenAlerts for TLC. *)
EXTENDS TokenAlerts, TLC

CONSTANTS u1, u2, a1, a2, r1, r2, btc

Body(s, p, d, act) == [symbol |-> s, price |-> p, direction |-> d, active |-> act,
                       owner |-> Absent]

(* A column that keeps every price. *)
ExactColumn == [p \in Price |-> p]

(* A column that keeps the tens only, rounding half up: 10 and 11 are     *)
(* different prices to the check and one price once stored.               *)
TensColumn == [p \in Price |-> 10 * ((p + 5) \div 10)]

(* Bodies that move the price, and flip the direction with active.        *)
KeyedPatches ==
  {Body(Absent, 11, Absent, Absent), Body(Absent, Absent, "CROSS_DOWN", TRUE)}

(* Bodies that only switch the alert. *)
SwitchPatches == {Body(Absent, Absent, Absent, TRUE),
                  Body(Absent, Absent, Absent, FALSE)}

NoPatches == {}

(* Bodies that hand the alert over as it is, or turned round.             *)
OwnerPatches ==
  {[b EXCEPT !.owner = u] : u \in User,
     b \in {NoPatch, Body(Absent, Absent, "CROSS_DOWN", Absent)}}

AllPatches == KeyedPatches \cup SwitchPatches \cup OwnerPatches

Symmetric == Permutations(User) \cup Permutations(AlertId) \cup Permutations(Req)
==============================================================================
