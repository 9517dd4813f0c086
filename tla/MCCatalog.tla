------------------------------ MODULE MCCatalog ------------------------------
(* Small instances of Catalog for TLC. *)
EXTENDS Catalog, TLC

CONSTANTS u1, u2, c1, c2, t1, t2, n1, btc, r1, r2

(* Name and move.                                                          *)
PlainPatches == {Plain(btc, c2)}

(* Hand the token over; blank its symbol and connect a category,           *)
(* whoever's it is.                                                        *)
RelationPatches == {[Plain(Absent, Absent) EXCEPT !.owner = u] : u \in User}
                     \cup {[Plain(Blank, Absent) EXCEPT !.connect = c1]}

SomePatches == PlainPatches \cup RelationPatches

Csv(s, c) == [symbol |-> s, category |-> c]

(* A line that is skipped and one that is refused, new or an upsert.       *)
SomeTokenFiles == {<<Csv(Blank, c1), Csv(btc, c2)>>}

SomeCategoryFiles == {<<Blank, n1>>}

Symmetric == Permutations(User) \cup Permutations(TokenId) \cup Permutations(Req)
==============================================================================
