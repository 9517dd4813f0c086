--------------------------- MODULE MCAlertPipeline ---------------------------
(* Small instances of AlertPipeline for TLC. *)
EXTENDS AlertPipeline, TLC

CONSTANTS u1, u2, a1, a2, r1, r2, btc, t1

ExactColumn == [p \in Price |-> p]

Body(p, d, act) == [symbol |-> Absent, price |-> p, direction |-> d, active |-> act,
                    owner |-> Absent]

(* Turn the alert round.                                                   *)
Turn == {Body(Absent, "CROSS_DOWN", Absent)}

(* Turn the alert round; re-arm it.                                        *)
TurnOrArm == {Body(Absent, d, Absent) : d \in Direction} \cup {Body(Absent, Absent, TRUE)}

Symmetric == Permutations(AlertId) \cup Permutations(Req)
==============================================================================
