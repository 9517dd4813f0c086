-------------------------- MODULE TokenBalancesProofs --------------------------
(***************************************************************************)
(* Machine-checked proofs about TokenBalances, for any number of users,    *)
(* tokens, rows, files and requests in flight.                             *)
(***************************************************************************)
EXTENDS TokenBalances, FiniteSetTheorems, FunctionTheorems, TLAPS

(* Sums over finite sets.  The fold is defined by recursion on the subsets *)
(* of the set it sums; what it computes is proved from its smallest        *)
(* counterexample, in place of an induction.                               *)
Total(table, S) == MapThenSumSet(LAMBDA b : table[b].amount, S)

First(s) == CHOOSE x \in s : TRUE

(* g is the recursive function behind the total of table over S.           *)
Totals(table, S, g) ==
  g = [s \in SUBSET S |->
         IF s = {} THEN 0 ELSE table[First(s)].amount + g[s \ {First(s)}]]

LEMMA SmallestSubset ==
  ASSUME NEW S, IsFiniteSet(S), NEW B \in SUBSET (SUBSET S), B # {}
  PROVE  \E s \in B : \A t \in B : t \subseteq s => t = s
  <1>1. IsWellFoundedOn(StrictSubsetOrdering(S), FiniteSubsetsOf(S))
    BY FS_StrictSubsetOrderingWellFounded
  <1>2. B \subseteq FiniteSubsetsOf(S)
    BY FS_Subset DEF FiniteSubsetsOf
  <1>3. PICK s \in B : \A t \in B : <<t, s>> \notin StrictSubsetOrdering(S)
    BY <1>1, <1>2, WFMin
  <1>4. ASSUME NEW t \in B, t \subseteq s, t # s
        PROVE  FALSE
    BY <1>3, <1>4 DEF StrictSubsetOrdering
  <1> QED BY <1>4

LEMMA SmallestNat ==
  ASSUME NEW B \in SUBSET Nat, B # {}
  PROVE  \E m \in B : \A k \in B : m <= k
  <1>1. IsWellFoundedOn(OpToRel(<, Nat), Nat)
    BY NatLessThanWellFounded
  <1>2. PICK m \in B : \A k \in B : <<k, m>> \notin OpToRel(<, Nat)
    BY <1>1, WFMin
  <1>3. ASSUME NEW k \in B, k < m
        PROVE  FALSE
    BY <1>2, <1>3 DEF OpToRel
  <1> QED BY <1>3

LEMMA TotalsExist ==
  ASSUME NEW table, NEW S, IsFiniteSet(S)
  PROVE  \E g : Totals(table, S, g)
  <1> DEFINE N == Cardinality(S)
             Small(n) == {s \in SUBSET S : Cardinality(s) <= n}
             Eq(g, s) == g[s] = IF s = {} THEN 0
                                ELSE table[First(s)].amount + g[s \ {First(s)}]
             P(n) == \E g : g = [s \in Small(n) |-> g[s]] /\ \A s \in Small(n) : Eq(g, s)
  <1>1. N \in Nat /\ \A s \in SUBSET S : IsFiniteSet(s) /\ Cardinality(s) \in Nat /\ Cardinality(s) <= N
    BY FS_CardinalityType, FS_Subset
  <1>2. \A s \in SUBSET S : s # {} =>
          First(s) \in s /\ Cardinality(s \ {First(s)}) = Cardinality(s) - 1
    BY <1>1, FS_RemoveElement DEF First
  <1>3. P(0)
    <2> DEFINE g == [s \in Small(0) |-> 0]
    <2>1. \A s \in Small(0) : s = {}
      BY <1>1, FS_EmptySet
    <2> WITNESS g
    <2> QED BY <2>1
  <1>4. ASSUME NEW n \in Nat, P(n)
        PROVE  P(n+1)
    <2>1. PICK g : g = [s \in Small(n) |-> g[s]] /\ \A s \in Small(n) : Eq(g, s)
      BY <1>4
    <2> DEFINE h == [s \in Small(n+1) |->
                       IF s = {} THEN 0 ELSE table[First(s)].amount + g[s \ {First(s)}]]
    <2>2. ASSUME NEW s \in Small(n)
          PROVE  s \in Small(n+1) /\ h[s] = g[s]
      <3>1. s \in Small(n+1)
        BY <1>1
      <3>2. Eq(g, s)
        BY <2>1
      <3>3. h[s] = IF s = {} THEN 0 ELSE table[First(s)].amount + g[s \ {First(s)}]
        BY <3>1
      <3> QED BY <3>1, <3>2, <3>3
    <2>3. \A s \in Small(n+1) : s # {} => s \ {First(s)} \in Small(n)
      BY <1>1, <1>2
    <2>4. \A s \in Small(n+1) : Eq(h, s)
      BY <2>2, <2>3
    <2>5. h = [s \in Small(n+1) |-> h[s]]
      OBVIOUS
    <2> QED BY <2>4, <2>5
  <1>5. P(N)
    <2> DEFINE B == {n \in 0..N : ~P(n)}
    <2> HIDE DEF P
    <2>1. SUFFICES ASSUME B # {}
                   PROVE  FALSE
      BY <1>1
    <2> B \in SUBSET Nat
      OBVIOUS
    <2>2. PICK m \in B : \A k \in B : m <= k
      BY <2>1, SmallestNat
    <2>3. m # 0 /\ m \in Nat /\ m-1 \in 0..N
      BY <1>1, <1>3, <2>2
    <2>4. P(m-1)
      BY <2>2, <2>3
    <2>5. P((m-1)+1)
      BY <1>4, <2>3, <2>4
    <2> QED BY <2>2, <2>3, <2>5
  <1>6. PICK g : g = [s \in Small(N) |-> g[s]] /\ \A s \in Small(N) : Eq(g, s)
    BY <1>5
  <1>7. Small(N) = SUBSET S
    BY <1>1
  <1>8. Totals(table, S, g)
    BY <1>6, <1>7 DEF Totals
  <1> QED BY <1>8

LEMMA TotalIsTotals ==
  ASSUME NEW table, NEW S, IsFiniteSet(S)
  PROVE  \E g : Totals(table, S, g) /\ Total(table, S) = g[S]
  <1> DEFINE g == CHOOSE h : Totals(table, S, h)
  <1>1. Totals(table, S, g)
    BY TotalsExist
  <1>2. Total(table, S) = g[S]
    BY DEF Total, MapThenSumSet, MapThenFoldSet, Totals, First
  <1> QED BY <1>1, <1>2

SameAmounts(old, new, T) == \A b \in T : old[b].amount = new[b].amount

LEMMA TotalsAgree ==
  ASSUME NEW old, NEW new, NEW S, IsFiniteSet(S), NEW T, T \in SUBSET S, NEW g, NEW h,
         Totals(old, S, g), Totals(new, T, h),
         SameAmounts(old, new, T)
  PROVE  g[T] = h[T]
  <1> SUFFICES ASSUME g[T] # h[T]
               PROVE  FALSE
    OBVIOUS
  <1>1. PICK B : B = {s \in SUBSET T : g[s] # h[s]}
    OBVIOUS
  <1>2. IsFiniteSet(T)
    BY FS_Subset
  <1>3. B \in SUBSET (SUBSET T) /\ B # {}
    BY <1>1
  <1>4. PICK s \in B : \A t \in B : t \subseteq s => t = s
    BY <1>2, <1>3, SmallestSubset
  <1>5. s \in SUBSET T /\ s \in SUBSET S /\ g[s] # h[s]
    BY <1>1, <1>4
  <1>6. s # {}
    BY <1>5 DEF Totals
  <1>7. First(s) \in s
    BY <1>6 DEF First
  <1>8. PICK u : u = s \ {First(s)}
    OBVIOUS
  <1>9. u \in SUBSET T /\ u \subseteq s /\ u # s
    BY <1>5, <1>7, <1>8
  <1>10. g[u] = h[u]
    BY <1>1, <1>4, <1>9
  <1>11. g[s] = old[First(s)].amount + g[u]
    BY <1>5, <1>6, <1>8 DEF Totals
  <1>12. h[s] = new[First(s)].amount + h[u]
    BY <1>5, <1>6, <1>8 DEF Totals
  <1>13. old[First(s)].amount = new[First(s)].amount
    BY <1>5, <1>7 DEF SameAmounts
  <1> QED BY <1>5, <1>10, <1>11, <1>12, <1>13

LEMMA TotalSame ==
  ASSUME NEW old, NEW new, NEW S, IsFiniteSet(S),
         \A b \in S : old[b].amount = new[b].amount
  PROVE  Total(old, S) = Total(new, S)
  <1>1. PICK g : Totals(old, S, g) /\ Total(old, S) = g[S]
    BY TotalIsTotals
  <1>2. PICK h : Totals(new, S, h) /\ Total(new, S) = h[S]
    BY TotalIsTotals
  <1>3. S \in SUBSET S /\ SameAmounts(old, new, S)
    BY DEF SameAmounts
  <1>4. g[S] = h[S]
    BY <1>1, <1>2, <1>3, TotalsAgree
  <1> QED BY <1>1, <1>2, <1>4

LEMMA TotalEmpty ==
  ASSUME NEW table
  PROVE  Total(table, {}) = 0
  <1>1. PICK g : Totals(table, {}, g) /\ Total(table, {}) = g[{}]
    BY TotalIsTotals, FS_EmptySet
  <1> QED BY <1>1 DEF Totals

LEMMA TotalFirst ==
  ASSUME NEW table, NEW S, IsFiniteSet(S), S # {}
  PROVE  /\ First(S) \in S
         /\ Total(table, S) = table[First(S)].amount + Total(table, S \ {First(S)})
  <1>1. PICK g : Totals(table, S, g) /\ Total(table, S) = g[S]
    BY TotalIsTotals
  <1>2. PICK T : T = S \ {First(S)}
    OBVIOUS
  <1>3. T \in SUBSET S /\ IsFiniteSet(T) /\ SameAmounts(table, table, T)
    BY <1>2, FS_Subset DEF SameAmounts
  <1>4. PICK h : Totals(table, T, h) /\ Total(table, T) = h[T]
    BY <1>3, TotalIsTotals
  <1>5. g[T] = h[T]
    BY <1>1, <1>3, <1>4, TotalsAgree
  <1>6. g[S] = table[First(S)].amount + g[T]
    BY <1>1, <1>2 DEF Totals
  <1>7. First(S) \in S
    BY DEF First
  <1> QED BY <1>1, <1>2, <1>4, <1>5, <1>6, <1>7

LEMMA TotalInt ==
  ASSUME NEW table, NEW S, IsFiniteSet(S), \A b \in S : table[b].amount \in Int
  PROVE  Total(table, S) \in Int
  <1> SUFFICES ASSUME Total(table, S) \notin Int
               PROVE  FALSE
    OBVIOUS
  <1>1. PICK B : B = {s \in SUBSET S : Total(table, s) \notin Int}
    OBVIOUS
  <1>2. B \in SUBSET (SUBSET S) /\ B # {}
    BY <1>1
  <1>3. PICK s \in B : \A t \in B : t \subseteq s => t = s
    BY <1>2, SmallestSubset
  <1>4. s \in SUBSET S /\ IsFiniteSet(s) /\ Total(table, s) \notin Int
    BY <1>1, <1>3, FS_Subset
  <1>5. s # {}
    BY <1>4, TotalEmpty
  <1>6. PICK x \in s : Total(table, s) = table[x].amount + Total(table, s \ {x})
    BY <1>4, <1>5, TotalFirst
  <1>7. s \ {x} \notin B /\ s \ {x} \in SUBSET S
    BY <1>3, <1>4
  <1>8. Total(table, s \ {x}) \in Int
    BY <1>1, <1>7
  <1> QED BY <1>4, <1>6, <1>8

(* The order in which the rows are added makes no difference.              *)
LEMMA TotalRemove ==
  ASSUME NEW table, NEW S, IsFiniteSet(S), \A b \in S : table[b].amount \in Int,
         NEW e \in S
  PROVE  Total(table, S) = table[e].amount + Total(table, S \ {e})
  <1> SUFFICES ASSUME Total(table, S) # table[e].amount + Total(table, S \ {e})
               PROVE  FALSE
    OBVIOUS
  <1>1. PICK B : B = {s \in SUBSET S :
                        \E z \in s : Total(table, s) # table[z].amount + Total(table, s \ {z})}
    OBVIOUS
  <1>2. B \in SUBSET (SUBSET S) /\ B # {}
    BY <1>1
  <1>3. PICK s \in B : \A t \in B : t \subseteq s => t = s
    BY <1>2, SmallestSubset
  <1>4. s \in SUBSET S /\ IsFiniteSet(s)
    BY <1>1, <1>3, FS_Subset
  <1>5. PICK x \in s : Total(table, s) # table[x].amount + Total(table, s \ {x})
    BY <1>1, <1>3
  <1>6. PICK y \in s : Total(table, s) = table[y].amount + Total(table, s \ {y})
    BY <1>4, <1>5, TotalFirst
  <1>7. y # x
    BY <1>5, <1>6
  <1>8. ASSUME NEW z \in s, NEW w \in s, z # w
        PROVE  Total(table, s \ {z}) = table[w].amount + Total(table, (s \ {z}) \ {w})
    <2>1. s \ {z} \notin B
      BY <1>3
    <2>2. s \ {z} \in SUBSET S /\ w \in s \ {z}
      BY <1>4, <1>8
    <2> QED BY <1>1, <2>1, <2>2
  <1>9. PICK u : u = (s \ {x}) \ {y} /\ u = (s \ {y}) \ {x}
    OBVIOUS
  <1>10. u \in SUBSET S /\ IsFiniteSet(u)
    BY <1>4, <1>9, FS_Subset
  <1>11. Total(table, u) \in Int
    BY <1>10, TotalInt
  <1>12. Total(table, s \ {y}) = table[x].amount + Total(table, u)
    BY <1>7, <1>8, <1>9
  <1>13. Total(table, s \ {x}) = table[y].amount + Total(table, u)
    BY <1>7, <1>8, <1>9
  <1>14. table[x].amount \in Int /\ table[y].amount \in Int
    BY <1>4
  <1> QED BY <1>5, <1>6, <1>11, <1>12, <1>13, <1>14

LEMMA TotalGrows ==
  ASSUME NEW table, NEW T, IsFiniteSet(T), \A b \in T : table[b].amount \in Int,
         NEW S \in SUBSET T, \A b \in T \ S : table[b].amount >= 0
  PROVE  Total(table, T) >= Total(table, S)
  <1> SUFFICES ASSUME ~(Total(table, T) >= Total(table, S))
               PROVE  FALSE
    OBVIOUS
  <1>1. PICK B : B = {s \in SUBSET T : S \subseteq s /\ ~(Total(table, s) >= Total(table, S))}
    OBVIOUS
  <1>2. B \in SUBSET (SUBSET T) /\ B # {}
    BY <1>1
  <1>3. PICK s \in B : \A t \in B : t \subseteq s => t = s
    BY <1>2, SmallestSubset
  <1>4. /\ s \in SUBSET T /\ IsFiniteSet(s) /\ IsFiniteSet(S) /\ S \subseteq s
        /\ ~(Total(table, s) >= Total(table, S))
    BY <1>1, <1>3, FS_Subset
  <1>5. Total(table, S) \in Int
    BY <1>4, TotalInt
  <1>6. PICK x \in s : x \notin S
    BY <1>4, <1>5
  <1>7. PICK u : u = s \ {x}
    OBVIOUS
  <1>8. u \in SUBSET T /\ S \subseteq u /\ u \notin B /\ IsFiniteSet(u)
    BY <1>3, <1>4, <1>6, <1>7, FS_Subset
  <1>9. Total(table, u) >= Total(table, S) /\ Total(table, u) \in Int
    BY <1>1, <1>8, TotalInt
  <1>10. Total(table, s) = table[x].amount + Total(table, u)
    BY <1>4, <1>7, TotalRemove
  <1>11. table[x].amount \in Int /\ table[x].amount >= 0
    BY <1>4, <1>6
  <1> QED BY <1>4, <1>5, <1>9, <1>10, <1>11

-------------------------------------------------------------------------------
(* Conversions: to a JavaScript number, and to what the column holds.      *)
LEMMA NearestIsNear ==
  ASSUME NEW S \in SUBSET Int, S # {}, NEW n \in Int
  PROVE  /\ Nearest(S, n) \in S
         /\ \A e \in S : Distance(Nearest(S, n), n) <= Distance(e, n)
  <1>1. PICK B : B = {Distance(d, n) : d \in S}
    OBVIOUS
  <1>2. B \in SUBSET Nat
    BY <1>1 DEF Distance
  <1>3. B # {}
    BY <1>1
  <1>4. PICK m \in B : \A k \in B : m <= k
    BY <1>2, <1>3, SmallestNat
  <1>5. PICK d \in S : Distance(d, n) = m
    BY <1>1
  <1>6. \A e \in S : Distance(d, n) <= Distance(e, n)
    BY <1>1, <1>4, <1>5
  <1> QED BY <1>6 DEF Nearest

LEMMA NearestOfItself ==
  ASSUME NEW S \in SUBSET Int, NEW n \in S
  PROVE  Nearest(S, n) = n
  <1>1. PICK d : d = Nearest(S, n)
    OBVIOUS
  <1>2. S # {} /\ n \in Int
    OBVIOUS
  <1>3. d \in Int /\ Distance(d, n) <= Distance(n, n)
    BY <1>1, <1>2, NearestIsNear
  <1>4. d = n
    BY <1>2, <1>3 DEF Distance
  <1> QED BY <1>1, <1>4

(* A conversion keeps the order, whichever of two equally near it takes.   *)
LEMMA NearestKeepsOrder ==
  ASSUME NEW S \in SUBSET Int, S # {}, NEW m \in Int, NEW n \in Int, m <= n
  PROVE  Nearest(S, m) <= Nearest(S, n)
  <1>1. PICK d : d = Nearest(S, m)
    OBVIOUS
  <1>2. PICK e : e = Nearest(S, n)
    OBVIOUS
  <1>3. d \in Int /\ e \in Int /\ d \in S /\ e \in S
    BY <1>1, <1>2, NearestIsNear
  <1>4. Distance(d, m) <= Distance(e, m) /\ Distance(e, n) <= Distance(d, n)
    BY <1>1, <1>2, <1>3, NearestIsNear
  <1>5. CASE m = n
    BY <1>1, <1>2, <1>3, <1>5
  <1>6. CASE m < n
    <2>1. d <= e
      BY <1>3, <1>4, <1>6 DEF Distance
    <2> QED BY <1>1, <1>2, <2>1
  <1> QED BY <1>5, <1>6

LEMMA Conversions ==
  /\ \A n \in Int : Double(n) \in Int /\ Column(n) \in Int
  /\ \A n \in Nat : Double(n) \in Nat /\ Column(n) \in Nat
  /\ \A m, n \in Int : m <= n => Double(m) <= Double(n) /\ Column(m) <= Column(n)
  <1>1. /\ Doubles \in SUBSET Int /\ Doubles # {} /\ 0 \in Doubles
        /\ Cells \in SUBSET Int /\ Cells # {} /\ 0 \in Cells
    BY LedgerAssumption
  <1>2. \A n \in Int : Double(n) \in Int /\ Column(n) \in Int
    BY <1>1, NearestIsNear DEF Double, Column
  <1>3. \A m, n \in Int : m <= n => Double(m) <= Double(n) /\ Column(m) <= Column(n)
    BY <1>1, NearestKeepsOrder DEF Double, Column
  <1>4. Double(0) = 0 /\ Column(0) = 0
    BY <1>1, NearestOfItself DEF Double, Column
  <1>5. ASSUME NEW n \in Nat
        PROVE  Double(n) \in Nat /\ Column(n) \in Nat
    <2>1. Double(0) <= Double(n) /\ Column(0) <= Column(n)
      BY <1>3
    <2> QED BY <1>2, <1>4, <2>1
  <1> QED BY <1>2, <1>3, <1>5

LEMMA NumbersAreNatural == Numbers \subseteq Nat
  BY Conversions, LedgerAssumption DEF Numbers

-------------------------------------------------------------------------------
(* The balance of a token, as the table changes.                           *)
Table == [BalanceId -> Row \cup {NoRow}]

LEMMA BalanceRows ==
  ASSUME NEW table \in Table, NEW t
  PROVE  /\ RowsIn(table, t) \in SUBSET BalanceId
         /\ IsFiniteSet(RowsIn(table, t))
         /\ \A b \in BalanceId : table[b] # NoRow => table[b] \in Row /\ table[b].amount \in Int
         /\ \A b \in RowsIn(table, t) : table[b].amount \in Int
         /\ SumIn(table, t) = Total(table, RowsIn(table, t))
         /\ SumIn(table, t) \in Int
  <1>1. RowsIn(table, t) \in SUBSET BalanceId
    BY DEF RowsIn
  <1>2. IsFiniteSet(RowsIn(table, t))
    BY <1>1, BalanceIdAssumption, FS_Subset
  <1>3. \A b \in BalanceId : table[b] # NoRow => table[b] \in Row /\ table[b].amount \in Int
    BY DEF Table, Row
  <1>4. \A b \in RowsIn(table, t) : table[b].amount \in Int
    BY <1>3 DEF RowsIn
  <1>5. SumIn(table, t) = Total(table, RowsIn(table, t))
    BY DEF SumIn, Total
  <1>6. Total(table, RowsIn(table, t)) \in Int
    BY <1>2, <1>4, TotalInt
  <1> QED BY <1>1, <1>2, <1>3, <1>4, <1>5, <1>6

(* Where no row goes and none that is new takes from it, a balance does    *)
(* not fall.                                                               *)
LEMMA BalanceRises ==
  ASSUME NEW old \in Table, NEW new \in Table, NEW t,
         \A b \in BalanceId : old[b] # NoRow => new[b] = old[b],
         \A b \in BalanceId : old[b] = NoRow /\ new[b] # NoRow /\ new[b].token = t
                                => new[b].amount >= 0
  PROVE  SumIn(new, t) >= SumIn(old, t)
  <1>1. PICK S : S = RowsIn(old, t)
    OBVIOUS
  <1>2. PICK T : T = RowsIn(new, t)
    OBVIOUS
  <1>3. S \in SUBSET T /\ IsFiniteSet(S) /\ IsFiniteSet(T)
    <2>1. S \in SUBSET T
      BY <1>1, <1>2 DEF RowsIn
    <2> QED BY <1>1, <1>2, <2>1, BalanceRows
  <1>4. \A b \in S : old[b].amount = new[b].amount
    BY <1>1 DEF RowsIn
  <1>5. \A b \in T : new[b].amount \in Int
    BY <1>2, BalanceRows
  <1>6. \A b \in T \ S : new[b].amount >= 0
    BY <1>1, <1>2 DEF RowsIn
  <1>7. Total(new, T) >= Total(new, S)
    BY <1>3, <1>5, <1>6, TotalGrows
  <1>8. Total(old, S) = Total(new, S)
    BY <1>3, <1>4, TotalSame
  <1> QED BY <1>1, <1>2, <1>7, <1>8, BalanceRows

LEMMA BalanceAdds ==
  ASSUME NEW old \in Table, NEW b \in BalanceId, old[b] = NoRow, NEW row \in Row
  PROVE  /\ [old EXCEPT ![b] = row] \in Table
         /\ SumIn([old EXCEPT ![b] = row], row.token) = SumIn(old, row.token) + row.amount
  <1>1. PICK new : new = [old EXCEPT ![b] = row]
    OBVIOUS
  <1>2. /\ new \in Table /\ new[b] = row
        /\ \A c \in BalanceId \ {b} : new[c] = old[c]
    BY <1>1 DEF Table
  <1>3. PICK S : S = RowsIn(old, row.token)
    OBVIOUS
  <1>4. PICK T : T = RowsIn(new, row.token)
    OBVIOUS
  <1>5. b \in T /\ S = T \ {b}
    BY <1>2, <1>3, <1>4, NullAssumption DEF RowsIn
  <1>6. IsFiniteSet(S) /\ IsFiniteSet(T) /\ \A c \in T : new[c].amount \in Int
    BY <1>2, <1>3, <1>4, BalanceRows
  <1>7. Total(new, T) = new[b].amount + Total(new, S)
    BY <1>5, <1>6, TotalRemove
  <1>8. \A c \in S : old[c].amount = new[c].amount
    BY <1>2, <1>3, <1>5 DEF RowsIn
  <1>9. Total(old, S) = Total(new, S)
    BY <1>6, <1>8, TotalSame
  <1>10. SumIn(new, row.token) = Total(new, T) /\ SumIn(old, row.token) = Total(old, S)
         /\ SumIn(old, row.token) \in Int /\ row.amount \in Int
    BY <1>2, <1>3, <1>4, BalanceRows DEF Row
  <1> QED BY <1>1, <1>2, <1>7, <1>9, <1>10

-------------------------------------------------------------------------------
(* What the requests are.                                                  *)
LEMMA RequestKinds ==
  ASSUME LedgerTypeOK, NEW r \in Req
  PROVE  /\ req[r] # NoRequest => req[r] \in Request
         /\ Is(r, "create") => req[r] \in CreateRequest
         /\ Is(r, "remove") => req[r] \in RemoveRequest
         /\ Is(r, "drop") => req[r] \in DropRequest
         /\ Is(r, "import") => req[r] \in ImportRequest
  BY DEF LedgerTypeOK, Request, CreateRequest, RemoveRequest, DropRequest,
         ImportRequest, Is

(* A commit answers its request and leaves the others, but for the mark    *)
(* of creates that have read a sum which is now lower.                     *)
LEMMA CommitRequests ==
  ASSUME LedgerTypeOK, NEW r \in Req, NEW table, Commit(r, table)
  PROVE  /\ rows' = table /\ tokens' = tokens /\ req'[r] = NoRequest
         /\ \A q \in Req \ {r} : ~Is(q, "create") => req'[q] = req[q]
         /\ \A q \in Req \ {r} : Is(q, "create") =>
              /\ req'[q] \in CreateRequest
              /\ req'[q].pc = req[q].pc /\ req'[q].user = req[q].user
              /\ req'[q].token = req[q].token /\ req'[q].kind = req[q].kind
              /\ req'[q].amount = req[q].amount
              /\ req[q].stale => req'[q].stale
              /\ req[q].pc = "write" /\ SumIn(table, req[q].token) < Sum(req[q].token)
                   => req'[q].stale
  <1>1. rows' = table /\ tokens' = tokens /\ req'[r] = NoRequest
    BY DEF Commit
  <1>2. ASSUME NEW q \in Req \ {r}, ~Is(q, "create")
        PROVE  req'[q] = req[q]
    BY <1>2 DEF Commit
  <1>3. ASSUME NEW q \in Req \ {r}, Is(q, "create")
        PROVE  /\ req'[q] \in CreateRequest
               /\ req'[q].pc = req[q].pc /\ req'[q].user = req[q].user
               /\ req'[q].token = req[q].token /\ req'[q].kind = req[q].kind
               /\ req'[q].amount = req[q].amount
               /\ req[q].stale => req'[q].stale
               /\ req[q].pc = "write" /\ SumIn(table, req[q].token) < Sum(req[q].token)
                    => req'[q].stale
    <2>1. req[q] \in CreateRequest
      BY <1>3, RequestKinds
    <2>2. CASE SumIn(table, req[q].token) < Sum(req[q].token)
      <3>1. req'[q] = [req[q] EXCEPT !.stale = @ \/ req[q].pc = "write"]
        BY <1>3, <2>2 DEF Commit
      <3>2. CASE req[q].pc = "write"
        <4>1. req'[q] = [req[q] EXCEPT !.stale = TRUE]
          BY <3>1, <3>2
        <4> QED BY <2>1, <4>1 DEF CreateRequest
      <3>3. CASE req[q].pc # "write"
        <4>1. req'[q] = [req[q] EXCEPT !.stale = req[q].stale]
          BY <2>1, <3>1, <3>3 DEF CreateRequest
        <4> QED BY <2>1, <3>3, <4>1 DEF CreateRequest
      <3> QED BY <3>2, <3>3
    <2>3. CASE ~(SumIn(table, req[q].token) < Sum(req[q].token))
      BY <1>3, <2>1, <2>3 DEF Commit
    <2> QED BY <2>2, <2>3
  <1> QED BY <1>1, <1>2, <1>3

(* A commit that changes no row but removed ones and fresh ones keeps what *)
(* the requests rely on.                                                   *)
LEMMA CommitKeepsInv ==
  ASSUME LedgerInv, NEW r \in Req, NEW table \in Table, Commit(r, table),
         \A b \in BalanceId : table[b] = rows[b] \/ table[b] = NoRow \/ Fresh(b)
  PROVE  LedgerInv'
  <1>1. LedgerTypeOK
    BY DEF LedgerInv
  <1>2. /\ rows' = table /\ tokens' = tokens /\ req'[r] = NoRequest
        /\ \A q \in Req \ {r} : ~Is(q, "create") => req'[q] = req[q]
        /\ \A q \in Req \ {r} : Is(q, "create") =>
             /\ req'[q] \in CreateRequest
             /\ req'[q].pc = req[q].pc /\ req'[q].user = req[q].user
             /\ req'[q].token = req[q].token /\ req'[q].kind = req[q].kind
             /\ req'[q].amount = req[q].amount
             /\ req[q].stale => req'[q].stale
             /\ req[q].pc = "write" /\ SumIn(table, req[q].token) < Sum(req[q].token)
                  => req'[q].stale
    BY <1>1, CommitRequests
  <1>3. \A q \in Req : req'[q] \in Request \cup {NoRequest}
    BY <1>1, <1>2, RequestKinds DEF LedgerTypeOK, Request
  <1>4. LedgerTypeOK'
    BY <1>1, <1>2, <1>3 DEF LedgerTypeOK, Commit, Table
  <1>5. ASSUME NEW q \in Req, req'[q] # NoRequest
        PROVE  q # r /\ (Is(q, "create") \/ req'[q] = req[q])
    BY <1>2, <1>5
  <1>6. \A q \in Req : Is(q, "create")' => Is(q, "create") /\ q # r
    BY <1>2, <1>5 DEF Is
  <1>7. \A q \in Req : Is(q, "remove")' \/ Is(q, "import")' => req'[q] = req[q] /\ q # r
    <2>1. \A q \in Req : Is(q, "create") /\ q # r => req'[q].op = "create"
      BY <1>2 DEF CreateRequest
    <2> QED BY <1>5, <2>1 DEF Is
  <1>8. OwnersChecked'
    <2>1. ASSUME NEW q \in Req
          PROVE  /\ Is(q, "create")' => Owner[req'[q].token] = req'[q].user
                 /\ Is(q, "remove")' /\ req'[q].pc = "write" => Owner[req'[q].token] = req'[q].user
                 /\ Is(q, "import")' =>
                      /\ req'[q].done <= Len(req'[q].file)
                      /\ \A i \in Staged(q)' : Owner[req'[q].file[i].token] = req'[q].user
      <3>1. Is(q, "create")' => Owner[req'[q].token] = req'[q].user
        BY <1>2, <1>6 DEF LedgerInv, OwnersChecked
      <3>2. Is(q, "remove")' /\ req'[q].pc = "write" => Owner[req'[q].token] = req'[q].user
        BY <1>7 DEF LedgerInv, OwnersChecked, Is
      <3>3. Is(q, "import")' => Is(q, "import") /\ req'[q] = req[q] /\ Staged(q)' = Staged(q)
        BY <1>7 DEF Is, Staged
      <3> QED BY <3>1, <3>2, <3>3 DEF LedgerInv, OwnersChecked
    <2> QED BY <2>1 DEF OwnersChecked
  <1>9. RemovalsKnowToken'
    <2> SUFFICES ASSUME NEW q \in Req, Is(q, "remove")', rows'[req'[q].row] # NoRow
                 PROVE  rows'[req'[q].row].token = req'[q].token
      BY DEF RemovalsKnowToken
    <2>1. req'[q] = req[q] /\ Is(q, "remove")
      BY <1>7 DEF Is
    <2>2. req[q].row \in BalanceId /\ ~Fresh(req[q].row)
      BY <1>1, <2>1, RequestKinds DEF RemoveRequest, Fresh
    <2>3. rows'[req[q].row] = rows[req[q].row]
      BY <1>2, <2>1, <2>2
    <2> QED BY <2>1, <2>3 DEF LedgerInv, RemovalsKnowToken
  <1>10. SellsCovered'
    <2> SUFFICES ASSUME NEW q \in Req, Is(q, "create")', req'[q].kind = "SELL",
                        req'[q].pc = "write", ~req'[q].stale
                 PROVE  Double(SumIn(rows', req'[q].token)) >= req'[q].amount
      BY DEF SellsCovered, Sum
    <2>1. Is(q, "create") /\ q # r
      BY <1>6
    <2>2. /\ req'[q].token = req[q].token /\ req'[q].amount = req[q].amount
          /\ req[q].kind = "SELL" /\ req[q].pc = "write" /\ ~req[q].stale
          /\ ~(SumIn(table, req[q].token) < Sum(req[q].token))
      BY <1>2, <2>1
    <2>3. Double(Sum(req[q].token)) >= req[q].amount
      BY <2>1, <2>2 DEF LedgerInv, SellsCovered
    <2>4. req[q].amount \in Int
      <3>1. req[q] \in CreateRequest
        BY <1>1, <2>1, RequestKinds
      <3>2. req[q].amount \in Nat
        BY <3>1, NumbersAreNatural DEF CreateRequest
      <3> QED BY <3>2
    <2>5. SumIn(table, req[q].token) \in Int /\ Sum(req[q].token) \in Int
      BY <1>1, BalanceRows DEF LedgerTypeOK, Table, Sum
    <2>6. Double(Sum(req[q].token)) <= Double(SumIn(table, req[q].token))
      BY <2>2, <2>5, Conversions
    <2>7. Double(Sum(req[q].token)) \in Int /\ Double(SumIn(table, req[q].token)) \in Int
      BY <2>5, Conversions
    <2> QED BY <1>2, <2>2, <2>3, <2>4, <2>6, <2>7
  <1> QED BY <1>4, <1>8, <1>9, <1>10 DEF LedgerInv

-------------------------------------------------------------------------------
(* Steps that change one request and no row.                               *)
LEMMA HoldKeepsInv ==
  ASSUME LedgerInv, NEW r \in Req, NEW q \in Request, Hold(r, q),
         q.op = "create" => Owner[q.token] = q.user /\ q.pc = "read",
         q.op = "remove" => q.pc = "owner" /\ rows[q.row].token = q.token,
         q.op = "import" => q.done = 0 /\ q.file \in Files
  PROVE  LedgerInv'
  <1>1. UNCHANGED <<tokens, rows>> /\ req[r] = NoRequest
    BY DEF Hold
  <1>2. req'[r] = q /\ (\A p \in Req \ {r} : req'[p] = req[p])
    BY DEF Hold, LedgerInv, LedgerTypeOK
  <1>3. LedgerTypeOK'
    BY <1>1 DEF Hold, LedgerInv, LedgerTypeOK
  <1>4. q.op = "import" => 0 <= Len(q.file) /\ ~\E i \in DOMAIN q.file : i <= 0
    BY LedgerAssumption
  <1>5. OwnersChecked'
    <2> SUFFICES ASSUME NEW p \in Req
                 PROVE  /\ Is(p, "create")' => Owner[req'[p].token] = req'[p].user
                        /\ Is(p, "remove")' /\ req'[p].pc = "write"
                             => Owner[req'[p].token] = req'[p].user
                        /\ Is(p, "import")' =>
                             /\ req'[p].done <= Len(req'[p].file)
                             /\ \A i \in Staged(p)' : Owner[req'[p].file[i].token] = req'[p].user
      BY DEF OwnersChecked
    <2>1. CASE p = r
      BY <1>2, <1>4, <2>1 DEF Is, Staged, ImportableLines
    <2>2. CASE p # r
      BY <1>2, <2>2 DEF LedgerInv, OwnersChecked, Is, Staged
    <2> QED BY <2>1, <2>2
  <1>6. RemovalsKnowToken'
    BY <1>1, <1>2 DEF LedgerInv, RemovalsKnowToken, Is
  <1>7. SellsCovered'
    BY <1>1, <1>2 DEF LedgerInv, SellsCovered, Is, Sum
  <1> QED BY <1>3, <1>5, <1>6, <1>7 DEF LedgerInv

LEMMA BeginKeepsInv ==
  ASSUME LedgerInv, NEW r \in Req, Begin(r)
  PROVE  LedgerInv'
  <1>1. ASSUME NEW u \in User, NEW t \in Token, NEW k \in Operation, NEW n \in Numbers,
               BeginCreate(r, u, t, k, n)
        PROVE  LedgerInv'
    <2>1. PICK q : q = [op |-> "create", pc |-> "read", user |-> u, token |-> t,
                        kind |-> k, amount |-> n, stale |-> FALSE]
      OBVIOUS
    <2>2. q \in Request
      BY <2>1 DEF Request, CreateRequest
    <2>3. q.op = "create" /\ q.pc = "read" /\ Owner[q.token] = q.user
      BY <1>1, <2>1 DEF BeginCreate, Owns
    <2>4. Hold(r, q)
      BY <1>1, <2>1 DEF BeginCreate
    <2> QED BY <2>2, <2>3, <2>4, HoldKeepsInv
  <1>2. ASSUME NEW u \in User, NEW b \in BalanceId, BeginRemove(r, u, b)
        PROVE  LedgerInv'
    <2>1. PICK q : q = [op |-> "remove", pc |-> "owner", user |-> u, row |-> b,
                        token |-> rows[b].token]
      OBVIOUS
    <2>2. rows[b].token \in Token
      BY <1>2 DEF BeginRemove, LedgerInv, LedgerTypeOK, Row
    <2>3. q \in Request
      BY <2>1, <2>2 DEF Request, RemoveRequest
    <2>4. q.op = "remove" /\ q.pc = "owner" /\ rows[q.row].token = q.token
      BY <2>1
    <2>5. Hold(r, q)
      BY <1>2, <2>1 DEF BeginRemove
    <2> QED BY <2>3, <2>4, <2>5, HoldKeepsInv
  <1>3. ASSUME NEW u \in User, NEW t \in Token, BeginDrop(r, u, t)
        PROVE  LedgerInv'
    <2>1. PICK q : q = [op |-> "drop", user |-> u, token |-> t]
      OBVIOUS
    <2>2. q \in Request /\ q.op = "drop"
      BY <2>1 DEF Request, DropRequest
    <2>3. Hold(r, q)
      BY <1>3, <2>1 DEF BeginDrop
    <2> QED BY <2>2, <2>3, HoldKeepsInv
  <1>4. ASSUME NEW u \in User, NEW file \in Files, BeginImport(r, u, file)
        PROVE  LedgerInv'
    <2>1. PICK q : q = [op |-> "import", user |-> u, file |-> file, done |-> 0]
      OBVIOUS
    <2>2. q \in Request /\ q.op = "import" /\ q.done = 0 /\ q.file \in Files
      BY <2>1 DEF Request, ImportRequest
    <2>3. Hold(r, q)
      BY <1>4, <2>1 DEF BeginImport
    <2> QED BY <2>2, <2>3, HoldKeepsInv
  <1> QED BY <1>1, <1>2, <1>3, <1>4 DEF Begin

(* An answer that writes nothing.                                          *)
LEMMA AnswerKeepsInv ==
  ASSUME LedgerInv, NEW r \in Req, req' = [req EXCEPT ![r] = NoRequest],
         rows' = rows, tokens' \subseteq tokens
  PROVE  LedgerInv'
  <1>1. req'[r] = NoRequest /\ \A p \in Req \ {r} : req'[p] = req[p]
    BY DEF LedgerInv, LedgerTypeOK
  <1>2. LedgerTypeOK'
    BY DEF LedgerInv, LedgerTypeOK
  <1>3. OwnersChecked'
    BY <1>1 DEF LedgerInv, OwnersChecked, Is, Staged
  <1>4. RemovalsKnowToken'
    BY <1>1 DEF LedgerInv, RemovalsKnowToken, Is
  <1>5. SellsCovered'
    BY <1>1 DEF LedgerInv, SellsCovered, Is, Sum
  <1> QED BY <1>2, <1>3, <1>4, <1>5 DEF LedgerInv

LEMMA ReadSumKeepsInv ==
  ASSUME LedgerInv, NEW r \in Req, ReadSum(r)
  PROVE  LedgerInv'
  <1>1. UNCHANGED <<tokens, rows>> /\ Is(r, "create") /\ req[r] \in CreateRequest
    BY RequestKinds DEF ReadSum, Advance, LedgerInv
  <1>2. /\ req'[r] = [req[r] EXCEPT !.pc = "write"]
        /\ \A p \in Req \ {r} : req'[p] = req[p]
    BY DEF ReadSum, Advance, LedgerInv, LedgerTypeOK
  <1>3. /\ req'[r] \in CreateRequest /\ req'[r].op = "create"
        /\ req'[r].user = req[r].user /\ req'[r].token = req[r].token
        /\ req'[r].kind = req[r].kind /\ req'[r].amount = req[r].amount
    BY <1>1, <1>2 DEF CreateRequest
  <1>4. req[r].kind = "SELL" => Double(Sum(req[r].token)) >= req[r].amount
    <2>1. Double(Sum(req[r].token)) \in Int
      BY BalanceRows, Conversions DEF LedgerInv, LedgerTypeOK, Table, Sum
    <2>2. req[r].amount \in Int
      <3>1. req[r].amount \in Nat
        BY <1>1, NumbersAreNatural DEF CreateRequest
      <3> QED BY <3>1
    <2> QED BY <2>1, <2>2 DEF ReadSum, TooLittle
  <1>5. LedgerTypeOK'
    BY <1>1, <1>3 DEF ReadSum, Advance, LedgerInv, LedgerTypeOK, Request
  <1>6. OwnersChecked'
    <2> SUFFICES ASSUME NEW p \in Req
                 PROVE  /\ Is(p, "create")' => Owner[req'[p].token] = req'[p].user
                        /\ Is(p, "remove")' /\ req'[p].pc = "write"
                             => Owner[req'[p].token] = req'[p].user
                        /\ Is(p, "import")' =>
                             /\ req'[p].done <= Len(req'[p].file)
                             /\ \A i \in Staged(p)' : Owner[req'[p].file[i].token] = req'[p].user
      BY DEF OwnersChecked
    <2>1. CASE p = r
      BY <1>1, <1>3, <2>1 DEF LedgerInv, OwnersChecked, Is
    <2>2. CASE p # r
      BY <1>2, <2>2 DEF LedgerInv, OwnersChecked, Is, Staged
    <2> QED BY <2>1, <2>2
  <1>7. RemovalsKnowToken'
    BY <1>1, <1>2, <1>3 DEF LedgerInv, RemovalsKnowToken, Is
  <1>8. SellsCovered'
    BY <1>1, <1>2, <1>3, <1>4 DEF LedgerInv, SellsCovered, Is, Sum
  <1> QED BY <1>5, <1>6, <1>7, <1>8 DEF LedgerInv

LEMMA CheckOwnerKeepsInv ==
  ASSUME LedgerInv, NEW r \in Req, CheckOwner(r)
  PROVE  LedgerInv'
  <1>1. UNCHANGED <<tokens, rows>> /\ Is(r, "remove") /\ req[r] \in RemoveRequest
    BY RequestKinds DEF CheckOwner, Advance, LedgerInv
  <1>2. /\ req'[r] = [req[r] EXCEPT !.pc = "write"]
        /\ \A p \in Req \ {r} : req'[p] = req[p]
    BY DEF CheckOwner, Advance, LedgerInv, LedgerTypeOK
  <1>3. /\ req'[r] \in RemoveRequest /\ req'[r].op = "remove"
        /\ req'[r].user = req[r].user /\ req'[r].token = req[r].token
        /\ req'[r].row = req[r].row
    BY <1>1, <1>2 DEF RemoveRequest
  <1>4. Owner[req[r].token] = req[r].user
    BY DEF CheckOwner, Owns
  <1>5. LedgerTypeOK'
    BY <1>1, <1>3 DEF CheckOwner, Advance, LedgerInv, LedgerTypeOK, Request
  <1>6. OwnersChecked'
    <2> SUFFICES ASSUME NEW p \in Req
                 PROVE  /\ Is(p, "create")' => Owner[req'[p].token] = req'[p].user
                        /\ Is(p, "remove")' /\ req'[p].pc = "write"
                             => Owner[req'[p].token] = req'[p].user
                        /\ Is(p, "import")' =>
                             /\ req'[p].done <= Len(req'[p].file)
                             /\ \A i \in Staged(p)' : Owner[req'[p].file[i].token] = req'[p].user
      BY DEF OwnersChecked
    <2>1. CASE p = r
      BY <1>1, <1>3, <1>4, <2>1 DEF LedgerInv, OwnersChecked, Is
    <2>2. CASE p # r
      BY <1>2, <2>2 DEF LedgerInv, OwnersChecked, Is, Staged
    <2> QED BY <2>1, <2>2
  <1>7. RemovalsKnowToken'
    <2> SUFFICES ASSUME NEW p \in Req, Is(p, "remove")', rows'[req'[p].row] # NoRow
                 PROVE  rows'[req'[p].row].token = req'[p].token
      BY DEF RemovalsKnowToken
    <2>1. Is(p, "remove") /\ req'[p].row = req[p].row /\ req'[p].token = req[p].token
      BY <1>1, <1>2, <1>3 DEF Is
    <2> QED BY <1>1, <2>1 DEF LedgerInv, RemovalsKnowToken
  <1>8. SellsCovered'
    BY <1>1, <1>2, <1>3 DEF LedgerInv, SellsCovered, Is, Sum
  <1> QED BY <1>5, <1>6, <1>7, <1>8 DEF LedgerInv

(* A record is staged only if the token is found by id and user.           *)
LEMMA ImportRecordKeepsInv ==
  ASSUME LedgerInv, NEW r \in Req, ImportRecord(r)
  PROVE  LedgerInv'
  <1>1. UNCHANGED <<tokens, rows>> /\ Is(r, "import") /\ req[r] \in ImportRequest
    BY RequestKinds DEF ImportRecord, LedgerInv
  <1>2. /\ req'[r] = [req[r] EXCEPT !.done = req[r].done + 1]
        /\ \A p \in Req \ {r} : req'[p] = req[p]
    BY DEF ImportRecord, LedgerInv, LedgerTypeOK
  <1>3. /\ req[r].done \in Nat /\ req[r].file \in Files /\ Len(req[r].file) \in Nat
        /\ req[r].done < Len(req[r].file)
    BY <1>1, LedgerAssumption DEF ImportRequest, ImportRecord
  <1>4. /\ req'[r] \in ImportRequest /\ req'[r].op = "import"
        /\ req'[r].user = req[r].user /\ req'[r].file = req[r].file
        /\ req'[r].done = req[r].done + 1
    BY <1>1, <1>2, <1>3 DEF ImportRequest
  <1>5. LedgerTypeOK'
    BY <1>1, <1>4 DEF ImportRecord, LedgerInv, LedgerTypeOK, Request
  <1>6. ASSUME NEW i \in ImportableLines(req[r].file), i <= req[r].done + 1
        PROVE  Owner[req[r].file[i].token] = req[r].user
    <2>1. i \in Nat
      BY <1>3, LedgerAssumption DEF ImportableLines
    <2>2. CASE i <= req[r].done
      BY <1>1, <2>2 DEF LedgerInv, OwnersChecked, Staged
    <2>3. CASE i = req[r].done + 1
      BY <2>3 DEF ImportRecord, NextRecord, ImportableLines, Owns
    <2> QED BY <1>3, <1>6, <2>1, <2>2, <2>3
  <1>7. OwnersChecked'
    <2> SUFFICES ASSUME NEW p \in Req
                 PROVE  /\ Is(p, "create")' => Owner[req'[p].token] = req'[p].user
                        /\ Is(p, "remove")' /\ req'[p].pc = "write"
                             => Owner[req'[p].token] = req'[p].user
                        /\ Is(p, "import")' =>
                             /\ req'[p].done <= Len(req'[p].file)
                             /\ \A i \in Staged(p)' : Owner[req'[p].file[i].token] = req'[p].user
      BY DEF OwnersChecked
    <2>1. CASE p = r
      BY <1>3, <1>4, <1>6, <2>1 DEF Is, Staged
    <2>2. CASE p # r
      BY <1>2, <2>2 DEF LedgerInv, OwnersChecked, Is, Staged
    <2> QED BY <2>1, <2>2
  <1>8. RemovalsKnowToken'
    BY <1>1, <1>2, <1>4 DEF LedgerInv, RemovalsKnowToken, Is
  <1>9. SellsCovered'
    BY <1>1, <1>2, <1>4 DEF LedgerInv, SellsCovered, Is, Sum
  <1> QED BY <1>5, <1>7, <1>8, <1>9 DEF LedgerInv

-------------------------------------------------------------------------------
(* The writes.                                                             *)
CreatedRow(r) == [token |-> req[r].token, kind |-> req[r].kind,
                  amount |-> Signed(req[r].kind, Column(req[r].amount))]

LEMMA CreateEffect ==
  ASSUME LedgerInv, NEW r \in Req, WriteCreate(r)
  PROVE  \E b \in BalanceId :
           /\ Fresh(b) /\ rows[b] = NoRow /\ CreatedRow(r) \in Row
           /\ Commit(r, [rows EXCEPT ![b] = CreatedRow(r)])
           /\ [rows EXCEPT ![b] = CreatedRow(r)] \in Table
  <1>1. req[r] \in CreateRequest
    BY RequestKinds DEF WriteCreate, LedgerInv
  <1>2. req[r].amount \in Nat /\ Column(req[r].amount) \in Nat
    BY <1>1, NumbersAreNatural, Conversions DEF CreateRequest
  <1>3. CreatedRow(r) \in Row
    BY <1>1, <1>2 DEF CreatedRow, Signed, Row, CreateRequest
  <1>4. PICK b \in FreshIds : Commit(r, [rows EXCEPT ![b] = CreatedRow(r)])
    BY DEF WriteCreate, CreatedRow
  <1> QED BY <1>3, <1>4 DEF FreshIds, Fresh, LedgerInv, LedgerTypeOK, Table

LEMMA RemoveEffect ==
  ASSUME LedgerInv, NEW r \in Req, WriteRemove(r)
  PROVE  /\ Is(r, "remove") /\ req[r].row \in BalanceId
         /\ Owner[rows[req[r].row].token] = req[r].user
         /\ Commit(r, [rows EXCEPT ![req[r].row] = NoRow])
         /\ [rows EXCEPT ![req[r].row] = NoRow] \in Table
  <1>1. req[r] \in RemoveRequest /\ Is(r, "remove") /\ req[r].pc = "write"
    BY RequestKinds DEF WriteRemove, LedgerInv
  <1>2. req[r].row \in BalanceId
    BY <1>1 DEF RemoveRequest
  <1>3. Owner[rows[req[r].row].token] = req[r].user
    BY <1>1 DEF WriteRemove, LedgerInv, OwnersChecked, RemovalsKnowToken
  <1>4. [rows EXCEPT ![req[r].row] = NoRow] \in Table
    BY DEF LedgerInv, LedgerTypeOK, Table
  <1> QED BY <1>1, <1>2, <1>3, <1>4 DEF WriteRemove

LEMMA ImportEffect ==
  ASSUME LedgerInv, NEW r \in Req, ImportCommits(r)
  PROVE  \E table \in Table, ids \in SUBSET BalanceId :
           /\ Commit(r, table)
           /\ Bijection(ids, ImportableLines(req[r].file)) # {}
           /\ \A b \in BalanceId \ ids : table[b] = rows[b]
           /\ \A b \in ids : /\ Fresh(b) /\ rows[b] = NoRow
                              /\ table[b] \in Row /\ table[b].amount >= 0
                              /\ Owner[table[b].token] = req[r].user
  <1>1. req[r] \in ImportRequest /\ Is(r, "import")
    BY RequestKinds DEF ImportCommits, LedgerInv
  <1>2. PICK ids \in SUBSET FreshIds : \E line \in Bijection(ids, Staged(r)) :
          Commit(r, [b \in BalanceId |->
                       IF b \in ids THEN AsRow(req[r].file[line[b]]) ELSE rows[b]])
    BY DEF ImportCommits
  <1>3. PICK line \in Bijection(ids, Staged(r)) :
          Commit(r, [b \in BalanceId |->
                       IF b \in ids THEN AsRow(req[r].file[line[b]]) ELSE rows[b]])
    BY <1>2
  <1>4. PICK table : table = [b \in BalanceId |->
                                IF b \in ids THEN AsRow(req[r].file[line[b]]) ELSE rows[b]]
    OBVIOUS
  <1>5. req[r].file \in Seq(Record) /\ req[r].done = Len(req[r].file)
    BY <1>1, LedgerAssumption DEF ImportRequest, ImportCommits
  <1>6. Staged(r) = ImportableLines(req[r].file)
    BY <1>5 DEF Staged, ImportableLines
  <1>7. ids \in SUBSET BalanceId /\ \A b \in ids : Fresh(b) /\ rows[b] = NoRow
    BY DEF FreshIds, Fresh
  <1>8. ASSUME NEW b \in ids
        PROVE  /\ table[b] \in Row /\ table[b].amount >= 0
               /\ Owner[table[b].token] = req[r].user
    <2>1. PICK i \in Staged(r) : i = line[b]
      BY <1>3, Fun_BijectionProperties
    <2>2. table[b] = AsRow(req[r].file[i])
      BY <1>4, <1>7, <2>1
    <2>3. i \in 1..Len(req[r].file) /\ Importable(req[r].file[i])
      BY <1>5, <1>6 DEF ImportableLines
    <2>4. req[r].file[i] \in Record
      BY <1>5, <2>3
    <2>5. req[r].file[i].amount \in Nat
      BY <2>4, LedgerAssumption DEF Record
    <2>6. Column(req[r].file[i].amount) \in Nat
      BY <2>5, Conversions
    <2>8. /\ AsRow(req[r].file[i]) \in Row
          /\ AsRow(req[r].file[i]).amount = Column(req[r].file[i].amount)
          /\ AsRow(req[r].file[i]).token = req[r].file[i].token
      BY <2>3, <2>4, <2>6 DEF Record, Row, Importable, AsRow
    <2>7. Owner[req[r].file[i].token] = req[r].user
      BY <1>1, <2>1 DEF LedgerInv, OwnersChecked
    <2> QED BY <2>2, <2>6, <2>7, <2>8
  <1>9. table \in Table
    BY <1>4, <1>8 DEF Table, LedgerInv, LedgerTypeOK
  <1>10. \A b \in BalanceId \ ids : table[b] = rows[b]
    BY <1>4
  <1>11. Bijection(ids, ImportableLines(req[r].file)) # {}
    BY <1>3, <1>6
  <1>12. Commit(r, table)
    BY <1>3, <1>4
  <1> QED BY <1>7, <1>8, <1>9, <1>10, <1>11, <1>12

LEMMA LedgerStepInv ==
  ASSUME LedgerInv, [LedgerNext]_ledgerVars
  PROVE  LedgerInv'
  <1>1. CASE UNCHANGED ledgerVars
    BY <1>1 DEF ledgerVars, LedgerInv, LedgerTypeOK, OwnersChecked, RemovalsKnowToken,
                SellsCovered, Is, Staged, Sum
  <1>2. CASE LedgerNext
    <2>1. PICK r \in Req : LedgerStep(r)
      BY <1>2 DEF LedgerNext
    <2>2. CASE Begin(r)
      BY <2>2, BeginKeepsInv
    <2>3. CASE ReadSum(r)
      BY <2>3, ReadSumKeepsInv
    <2>4. CASE CheckOwner(r)
      BY <2>4, CheckOwnerKeepsInv
    <2>5. CASE ImportRecord(r)
      BY <2>5, ImportRecordKeepsInv
    <2>6. CASE WriteDrop(r) \/ Refuse(r)
      BY <2>6, AnswerKeepsInv DEF WriteDrop, Refuse
    <2>7. CASE WriteCreate(r)
      <3>1. PICK b \in BalanceId :
              /\ Fresh(b) /\ Commit(r, [rows EXCEPT ![b] = CreatedRow(r)])
              /\ [rows EXCEPT ![b] = CreatedRow(r)] \in Table
        BY <2>7, CreateEffect
      <3>2. PICK table \in Table : table = [rows EXCEPT ![b] = CreatedRow(r)]
        BY <3>1
      <3>3. \A c \in BalanceId : table[c] = rows[c] \/ Fresh(c)
        BY <3>1, <3>2 DEF LedgerInv, LedgerTypeOK
      <3> QED BY <3>1, <3>2, <3>3, CommitKeepsInv
    <2>8. CASE WriteRemove(r)
      <3>1. PICK table \in Table : table = [rows EXCEPT ![req[r].row] = NoRow]
        BY <2>8, RemoveEffect
      <3>2. \A c \in BalanceId : table[c] = rows[c] \/ table[c] = NoRow
        BY <3>1 DEF LedgerInv, LedgerTypeOK
      <3>3. Commit(r, table)
        BY <2>8, <3>1, RemoveEffect
      <3> QED BY <3>2, <3>3, CommitKeepsInv
    <2>9. CASE ImportCommits(r)
      <3>1. PICK table \in Table, ids \in SUBSET BalanceId :
              /\ Commit(r, table)
              /\ \A b \in BalanceId \ ids : table[b] = rows[b]
              /\ \A b \in ids : Fresh(b)
        BY <2>9, ImportEffect
      <3>2. \A b \in BalanceId : table[b] = rows[b] \/ Fresh(b)
        BY <3>1
      <3> QED BY <3>1, <3>2, CommitKeepsInv
    <2> QED BY <2>1, <2>2, <2>3, <2>4, <2>5, <2>6, <2>7, <2>8, <2>9 DEF LedgerStep
  <1> QED BY <1>1, <1>2

LEMMA LedgerInitInv == LedgerInit => LedgerInv
  BY DEF LedgerInit, LedgerInv, LedgerTypeOK, OwnersChecked, RemovalsKnowToken,
         SellsCovered, Is

(* The inductive invariant holds in every reachable state: a sell about to *)
(* be written is no larger than its sum as a number, unless lowered since. *)
THEOREM LedgerInvCorrect == LedgerSpec => []LedgerInv
  <1> QED BY LedgerInitInv, LedgerStepInv, PTL DEF LedgerSpec

(* Tokens, rows and requests keep their types: no skipped line of a file   *)
(* ever becomes a row.                                                     *)
THEOREM LedgerTypeCorrect == LedgerSpec => []LedgerTypeOK
  <1>1. LedgerInv => LedgerTypeOK
    BY DEF LedgerInv
  <1> QED BY <1>1, LedgerInvCorrect, PTL

-------------------------------------------------------------------------------
(* Only three steps change a row.                                          *)
LEMMA OnlyWritesChangeRows ==
  ASSUME [LedgerNext]_ledgerVars, rows' # rows
  PROVE  \E r \in Req : WriteCreate(r) \/ WriteRemove(r) \/ ImportCommits(r)
  <1>1. PICK r \in Req : LedgerStep(r)
    BY DEF ledgerVars, LedgerNext
  <1>2. ~(Begin(r) \/ ReadSum(r) \/ CheckOwner(r) \/ WriteDrop(r) \/ ImportRecord(r) \/ Refuse(r))
    BY DEF Begin, BeginCreate, BeginRemove, BeginDrop, BeginImport, Hold, ReadSum,
           CheckOwner, Advance, WriteDrop, ImportRecord, Refuse
  <1> QED BY <1>1, <1>2 DEF LedgerStep

LEMMA LedgerOwnStep ==
  ASSUME LedgerInv, [LedgerNext]_ledgerVars, NEW b \in BalanceId, rows'[b] # rows[b]
  PROVE  \E r \in Req :
           /\ req[r] # NoRequest /\ req'[r] = NoRequest
           /\ rows[b] # NoRow => Owner[rows[b].token] = req[r].user
           /\ rows'[b] # NoRow => Owner[rows'[b].token] = req[r].user
  <1>1. PICK r \in Req : WriteCreate(r) \/ WriteRemove(r) \/ ImportCommits(r)
    BY OnlyWritesChangeRows
  <1>2. req[r] # NoRequest
    BY <1>1 DEF WriteCreate, WriteRemove, ImportCommits, Is
  <1>3. rows \in [BalanceId -> Row \cup {NoRow}]
    BY DEF LedgerInv, LedgerTypeOK
  <1>4. CASE WriteCreate(r)
    <2>1. PICK c \in BalanceId :
            rows[c] = NoRow /\ Commit(r, [rows EXCEPT ![c] = CreatedRow(r)])
      BY <1>4, CreateEffect
    <2>2. req'[r] = NoRequest /\ rows' = [rows EXCEPT ![c] = CreatedRow(r)]
      BY <2>1 DEF Commit
    <2>3. b = c /\ rows'[b] = CreatedRow(r)
      BY <1>3, <2>2
    <2>4. Owner[req[r].token] = req[r].user
      BY <1>4 DEF WriteCreate, LedgerInv, OwnersChecked
    <2> QED BY <1>2, <2>1, <2>2, <2>3, <2>4 DEF CreatedRow
  <1>5. CASE WriteRemove(r)
    <2>1. /\ Owner[rows[req[r].row].token] = req[r].user
          /\ Commit(r, [rows EXCEPT ![req[r].row] = NoRow])
      BY <1>5, RemoveEffect
    <2>2. req'[r] = NoRequest /\ rows' = [rows EXCEPT ![req[r].row] = NoRow]
      BY <2>1 DEF Commit
    <2>3. b = req[r].row /\ rows'[b] = NoRow
      BY <1>3, <2>2
    <2> QED BY <1>2, <2>1, <2>2, <2>3
  <1>6. CASE ImportCommits(r)
    <2>1. PICK table \in Table, ids \in SUBSET BalanceId :
            /\ Commit(r, table)
            /\ \A c \in BalanceId \ ids : table[c] = rows[c]
            /\ \A c \in ids : rows[c] = NoRow /\ Owner[table[c].token] = req[r].user
      BY <1>6, ImportEffect
    <2>2. req'[r] = NoRequest /\ rows' = table
      BY <2>1 DEF Commit
    <2> QED BY <1>2, <2>1, <2>2
  <1> QED BY <1>1, <1>4, <1>5, <1>6

(* A row of a ledger appears or goes only in the write of a request of the *)
(* owner of its token, although removals find and delete it by id alone.   *)
THEOREM LedgersChangeByOwners == LedgerSpec => OwnLedgersOnly
  <1>1. LedgerInv /\ [LedgerNext]_ledgerVars =>
          [\A b \in BalanceId : rows'[b] # rows[b] =>
             \E r \in Req :
               /\ req[r] # NoRequest /\ req'[r] = NoRequest
               /\ rows[b] # NoRow => Owner[rows[b].token] = req[r].user
               /\ rows'[b] # NoRow => Owner[rows'[b].token] = req[r].user]_ledgerVars
    BY LedgerOwnStep
  <1> QED BY <1>1, LedgerInvCorrect, PTL DEF LedgerSpec, OwnLedgersOnly

(* The lines of a file that are imported are finitely many.                *)
LEMMA LinesFinite ==
  ASSUME NEW file \in Files
  PROVE  IsFiniteSet(ImportableLines(file))
  <1>1. DOMAIN file = 1..Len(file) /\ Len(file) \in Nat
    BY LedgerAssumption
  <1>2. PICK D : D = DOMAIN file
    OBVIOUS
  <1>3. IsFiniteSet(D)
    BY <1>1, <1>2, FS_Interval
  <1>4. ImportableLines(file) \in SUBSET D
    BY <1>2 DEF ImportableLines
  <1> QED BY <1>3, <1>4, FS_Subset

LEMMA ImportStep ==
  ASSUME LedgerInv, [LedgerNext]_ledgerVars, NEW r \in Req,
         Is(r, "import"), req'[r] # req[r], rows' # rows
  PROVE  /\ req'[r] = NoRequest
         /\ Cardinality({b \in BalanceId : rows'[b] # rows[b]})
              = Cardinality(ImportableLines(req[r].file))
  <1>1. PICK q \in Req : WriteCreate(q) \/ WriteRemove(q) \/ ImportCommits(q)
    BY OnlyWritesChangeRows
  <1>2. PICK t : Commit(q, t)
    BY <1>1, ImportEffect DEF WriteCreate, WriteRemove
  <1>3. q = r
    BY <1>2, CommitRequests DEF Is, LedgerInv
  <1>4. ImportCommits(r)
    BY <1>1, <1>3 DEF Is, WriteCreate, WriteRemove
  <1>5. PICK table \in Table, ids \in SUBSET BalanceId :
          /\ Commit(r, table)
          /\ Bijection(ids, ImportableLines(req[r].file)) # {}
          /\ \A b \in BalanceId \ ids : table[b] = rows[b]
          /\ \A b \in ids : rows[b] = NoRow /\ table[b] \in Row
    BY <1>4, ImportEffect
  <1>6. req'[r] = NoRequest /\ rows' = table
    BY <1>5 DEF Commit
  <1>7. {b \in BalanceId : rows'[b] # rows[b]} = ids
    BY <1>5, <1>6, NullAssumption
  <1>8. PICK line : line \in Bijection(ids, ImportableLines(req[r].file))
    BY <1>5
  <1>9. IsFiniteSet(ids)
    BY <1>5, BalanceIdAssumption, FS_Subset
  <1>10. Cardinality(ImportableLines(req[r].file)) = Cardinality(ids)
    BY <1>8, <1>9, FS_Bijection DEF ExistsBijection
  <1> QED BY <1>6, <1>7, <1>10

(* A file is imported whole, in the one step that answers its request, or  *)
(* leaves no row: exactly one new row for each line that is not skipped.   *)
THEOREM FilesImportedWhole == LedgerSpec => ImportAllOrNothing
  <1>1. LedgerInv /\ [LedgerNext]_ledgerVars =>
          [\A r \in Req : Is(r, "import") /\ req'[r] # req[r] /\ rows' # rows =>
             /\ req'[r] = NoRequest
             /\ Cardinality({b \in BalanceId : rows'[b] # rows[b]})
                  = Cardinality(ImportableLines(req[r].file))]_ledgerVars
    BY ImportStep
  <1> QED BY <1>1, LedgerInvCorrect, PTL DEF LedgerSpec, ImportAllOrNothing

-------------------------------------------------------------------------------
(* Overdrafts.                                                             *)
LEMMA CreateLowers ==
  ASSUME LedgerInv, NEW r \in Req, WriteCreate(r), NEW t \in Token,
         SumIn(rows', t) < 0, SumIn(rows', t) < Sum(t)
  PROVE  req[r].kind = "SELL" /\ (req[r].stale \/ -SumIn(rows', t) <= Rounding(Sum(t)))
  <1>1. PICK b \in BalanceId :
          /\ rows[b] = NoRow /\ CreatedRow(r) \in Row
          /\ Commit(r, [rows EXCEPT ![b] = CreatedRow(r)])
          /\ [rows EXCEPT ![b] = CreatedRow(r)] \in Table
    BY CreateEffect
  <1>2. PICK table \in Table : table = [rows EXCEPT ![b] = CreatedRow(r)] /\ rows' = table
    BY <1>1 DEF Commit
  <1>3. rows \in Table
    BY DEF LedgerInv, LedgerTypeOK, Table
  <1>4. /\ table[b] = CreatedRow(r)
        /\ \A c \in BalanceId : rows[c] # NoRow => table[c] = rows[c]
        /\ \A c \in BalanceId \ {b} : table[c] = rows[c]
    BY <1>1, <1>2, <1>3 DEF Table
  <1>5. SumIn(table, t) \in Int /\ SumIn(rows, t) \in Int /\ Sum(t) = SumIn(rows, t)
    BY <1>3, BalanceRows DEF Sum
  <1>6. ASSUME CreatedRow(r).token # t \/ CreatedRow(r).amount >= 0
        PROVE  FALSE
    <2>1. SumIn(table, t) >= SumIn(rows, t)
      BY <1>3, <1>4, <1>6, BalanceRises
    <2> QED BY <1>2, <1>5, <2>1
  <1>7. req[r] \in CreateRequest /\ Is(r, "create") /\ req[r].pc = "write"
    BY RequestKinds DEF WriteCreate, LedgerInv
  <1>8. req[r].amount \in Nat /\ Column(req[r].amount) \in Nat
    BY <1>7, NumbersAreNatural, Conversions DEF CreateRequest
  <1>9. /\ req[r].token = t /\ req[r].kind = "SELL"
        /\ CreatedRow(r).amount = -Column(req[r].amount)
    BY <1>6, <1>7, <1>8 DEF CreatedRow, Signed
  <1>10. SumIn(table, t) = SumIn(rows, t) + CreatedRow(r).amount
    BY <1>1, <1>2, <1>3, <1>9, BalanceAdds DEF CreatedRow
  <1>11. ASSUME ~req[r].stale
         PROVE  -SumIn(rows', t) <= Rounding(Sum(t))
    <2>1. req[r].amount <= Double(Sum(t)) /\ Double(Sum(t)) \in Int
      <3>1. Double(Sum(t)) >= req[r].amount
        BY <1>7, <1>9, <1>11 DEF LedgerInv, SellsCovered
      <3>2. Double(Sum(t)) \in Int
        BY <1>5, Conversions
      <3> QED BY <1>8, <3>1, <3>2
    <2>2. /\ Column(req[r].amount) <= Column(Double(Sum(t)))
          /\ Column(Double(Sum(t))) \in Int
      BY <1>8, <2>1, Conversions
    <2> QED BY <1>2, <1>5, <1>8, <1>9, <1>10, <2>2 DEF Rounding
  <1> QED BY <1>9, <1>11

LEMMA OverdraftStep ==
  ASSUME LedgerInv, [LedgerNext]_ledgerVars, NEW t \in Token,
         SumIn(rows', t) < 0, SumIn(rows', t) < Sum(t)
  PROVE  \E r \in Req : /\ req'[r] = NoRequest
                        /\ \/ Is(r, "remove") /\ rows'[req[r].row] = NoRow
                           \/ /\ Is(r, "create") /\ req[r].kind = "SELL"
                              /\ req[r].stale \/ -SumIn(rows', t) <= Rounding(Sum(t))
  <1>1. rows \in Table /\ Sum(t) = SumIn(rows, t) /\ Sum(t) \in Int
    BY BalanceRows DEF LedgerInv, LedgerTypeOK, Table, Sum
  <1>2. rows' # rows
    BY <1>1
  <1>3. PICK r \in Req : WriteCreate(r) \/ WriteRemove(r) \/ ImportCommits(r)
    BY <1>2, OnlyWritesChangeRows
  <1>4. CASE WriteCreate(r)
    <2>1. Is(r, "create") /\ req'[r] = NoRequest
      BY <1>4 DEF WriteCreate, Commit
    <2> QED BY <1>4, <2>1, CreateLowers
  <1>5. CASE WriteRemove(r)
    <2>1. /\ Is(r, "remove") /\ req[r].row \in BalanceId
          /\ Commit(r, [rows EXCEPT ![req[r].row] = NoRow])
      BY <1>5, RemoveEffect
    <2>2. req'[r] = NoRequest /\ rows'[req[r].row] = NoRow
      BY <1>1, <2>1 DEF Commit, Table
    <2> QED BY <2>1, <2>2
  <1>6. CASE ImportCommits(r)
    <2>1. PICK table \in Table, ids \in SUBSET BalanceId :
            /\ Commit(r, table)
            /\ \A b \in BalanceId \ ids : table[b] = rows[b]
            /\ \A b \in ids : rows[b] = NoRow /\ table[b].amount >= 0
      BY <1>6, ImportEffect
    <2>2. SumIn(table, t) >= SumIn(rows, t)
      BY <1>1, <2>1, BalanceRises
    <2>3. rows' = table /\ SumIn(table, t) \in Int
      BY <2>1, BalanceRows DEF Commit
    <2> QED BY <1>1, <2>2, <2>3
  <1> QED BY <1>3, <1>4, <1>5, <1>6

(* A balance falls below zero only through the removal of a row, a sell    *)
(* whose token was lowered after its check, or a sell that passed because  *)
(* the sum was compared as a number, and then by no more than that sum was *)
(* rounded up; never through an import or a buy - for any number of rows   *)
(* and any numbers and decimals to round to.                               *)
THEOREM OverdraftsHaveCauses == LedgerSpec => OverdraftsExplained
  <1>1. LedgerInv /\ [LedgerNext]_ledgerVars => [Overdrafts]_ledgerVars
    BY OverdraftStep DEF Overdrafts
  <1> QED BY <1>1, LedgerInvCorrect, PTL DEF LedgerSpec, OverdraftsExplained
===============================================================================
