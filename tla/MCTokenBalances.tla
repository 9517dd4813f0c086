--------------------------- MODULE MCTokenBalances ---------------------------
(* Small instances of TokenBalances for TLC. *)
EXTENDS TokenBalances

CONSTANTS u1, u2, t1, t2, b1, b2, b3, r1, r2

OneOwner == [t \in Token |-> u1]

TwoOwners == [t \in Token |-> IF t = t1 THEN u1 ELSE u2]

Line(k, n) == [token |-> t1, kind |-> k, amount |-> n]

(* A buy and a sell; a sell it cannot cover; lines that are skipped.       *)
SomeFiles == {<<Line("BUY", 7), Line("SELL", 7)>>, <<Line("BUY", 7), Line("SELL", 14)>>,
              <<Line("other", 7), Line("SELL", 7)>>}

(* Numbers lie the further apart the larger they are; the column counts in *)
(* threes.  A buy of 7 is kept as 6, a sell of 14 as 15; a sum of 12 passes*)
(* for 14.                                                                 *)
SomeDoubles == {-14, -7, 0, 7, 14, 29}

SomeCells == {3 * i : i \in -5..10}
==============================================================================
