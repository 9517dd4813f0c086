--------------------------- MODULE PriceLookupProofs ---------------------------
(* The service composed with its providers takes no step that the service  *)
(* alone may not take: what is proved of the service holds of the whole.   *)
EXTENDS PriceLookup, CryptoPriceServiceProofs, FiniteSetTheorems

UpType == up \in [Provider -> BOOLEAN]

(* The APIs go up and down and are nothing else.                           *)
LEMMA UpStep == ASSUME UpType, [LookupNext]_lookupVars PROVE UpType'
  <1>1. CASE UNCHANGED up
    BY <1>1 DEF UpType
  <1>2. CASE \E p \in Provider : Toggle(p)
    BY <1>2 DEF UpType, Toggle
  <1>3. CallStep \/ TableExpires \/ RestartStep => UNCHANGED up
    BY DEF CallStep, Ask, Probe, ServiceStep, GeckoStep, GeckoAnswers, FreeCryptoAnswers,
       CoinMarketCapAnswers, Quotes, TableExpires, RestartStep
  <1> QED
    BY <1>1, <1>2, <1>3 DEF LookupNext, lookupVars

(* A step of a call is one of the service, or none.                        *)
LEMMA CallIsServiceStep == ASSUME UpType, CallStep PROVE [ServiceNext]_serviceVars
  <1>1. CASE \E R \in Requests : Ask(R)
    BY <1>1 DEF Ask, ServiceNext
  <1>2. CASE \E p \in Provider : Probe(p)
    <2>1. PICK p \in Provider : Probe(p)
      BY <1>2
    <2>2. up[p] \in BOOLEAN /\ ProbeReturns(p, up[p])
      BY <2>1 DEF Probe, UpType
    <2> QED
      BY <2>2 DEF ServiceNext
  <1>3. CASE ServiceStep
    BY <1>3 DEF ServiceStep, ServiceNext
  <1>4. CASE GeckoStep
    BY <1>4 DEF GeckoStep
  <1>5. Fails => ServiceNext
    BY DEF Fails, ServiceNext
  <1>6. Answers(TRUE) => ServiceNext
    BY DEF ServiceNext
  <1>7. CASE GeckoAnswers
    BY <1>5, <1>6, <1>7 DEF GeckoAnswers
  <1>8. CASE FreeCryptoAnswers \/ CoinMarketCapAnswers
    BY <1>5, <1>6, <1>8 DEF FreeCryptoAnswers, CoinMarketCapAnswers, Quotes
  <1> QED
    BY <1>1, <1>2, <1>3, <1>4, <1>7, <1>8 DEF CallStep

LEMMA LookupStepIsServiceStep ==
  ASSUME UpType, [LookupNext]_lookupVars PROVE [ServiceNext]_serviceVars
  <1>1. CASE CallStep
    BY <1>1, CallIsServiceStep
  <1>2. CASE RestartStep
    BY <1>2 DEF RestartStep, ServiceNext
  <1>3. CASE (\E p \in Provider : Toggle(p)) \/ TableExpires \/ UNCHANGED lookupVars
    BY <1>3 DEF Toggle, TableExpires, lookupVars
  <1> QED
    BY <1>1, <1>2, <1>3 DEF LookupNext

(* Composed with the three providers, their coin list and their failures,  *)
(* CryptoPriceService behaves as ServiceSpec says.                         *)
THEOREM LookupImplementsService == LookupSpec => ServiceSpec
  <1>1. LookupInit => ServiceInit /\ UpType
    BY DEF LookupInit, UpType
  <1>2. UpType /\ [LookupNext]_lookupVars => UpType'
    BY UpStep
  <1>3. UpType /\ [LookupNext]_lookupVars => [ServiceNext]_serviceVars
    BY LookupStepIsServiceStep
  <1> QED
    BY <1>1, <1>2, <1>3, PTL DEF LookupSpec, ServiceSpec

(* A lookup asks only providers found available, and one that fails has    *)
(* been refused by all it may ask (CryptoPriceService.ts:50-95).           *)
THEOREM LookupsAreThorough == LookupSpec => []CurrentIsAvailable /\ FailureIsThorough
  BY LookupImplementsService, CurrentStaysAvailable, FailuresAreThorough, PTL

-------------------------------------------------------------------------------
(* The loops of refreshSymbolCache are folds, defined by recursion on sets *)
(* of indices.  What they compute is proved from the smallest              *)
(* counterexample, in place of an induction.                               *)
LEMMA SmallestNat ==
  ASSUME NEW B \in SUBSET Nat, B # {}
  PROVE  \E m \in B : \A k \in B : m <= k
  <1>1. IsWellFoundedOn(OpToRel(<, Nat), Nat)
    BY NatLessThanWellFounded
  <1>2. PICK m \in B : \A k \in B : <<k, m>> \notin OpToRel(<, Nat)
    BY <1>1, WFMin
  <1>3. ASSUME NEW k \in B, k < m
        PROVE  FALSE
    BY <1>2, <1>3 DEF OpToRel
  <1> QED BY <1>3

LEMMA MaxIs ==
  ASSUME NEW S \in SUBSET Nat, NEW m \in S, \A k \in S : k <= m
  PROVE  Max(S) = m
  <1>1. \A k \in S : (\A y \in S : k >= y) => k = m
    OBVIOUS
  <1> QED BY <1>1 DEF Max

LEMMA MinIs ==
  ASSUME NEW S \in SUBSET Nat, NEW m \in S, \A k \in S : m <= k
  PROVE  Min(S) = m
  <1>1. \A k \in S : (\A y \in S : k =< y) => k = m
    OBVIOUS
  <1> QED BY <1>1 DEF Min

LEMMA MaxInSet ==
  ASSUME NEW n \in Nat, NEW S \in SUBSET (1..n), S # {}
  PROVE  Max(S) \in S /\ \A k \in S : k <= Max(S)
  <1> DEFINE B == {n - k : k \in S}
  <1>1. B \in SUBSET Nat /\ B # {}
    OBVIOUS
  <1>2. PICK b \in B : \A c \in B : b <= c
    BY <1>1, SmallestNat
  <1>3. PICK m \in S : b = n - m
    BY <1>2
  <1>4. \A k \in S : n - k \in B
    OBVIOUS
  <1>5. \A k \in S : n - m <= n - k
    BY <1>2, <1>3, <1>4
  <1>6. \A k \in S : k <= m
    BY <1>5
  <1> QED BY <1>6, MaxIs

(* A round of the first loop, or of the second.                            *)
Put(loop, t, c) ==
  IF (IF loop = "prefer" THEN c.id \in Priority ELSE t[c.symbol] = NoCoin)
  THEN [t EXCEPT ![c.symbol] = c.id] ELSE t

(* g[1..n] is the table after n rounds of the loop on l.                   *)
Rounds(loop, base, l, g) ==
  g = [s \in SUBSET DOMAIN l |->
         IF s = {} THEN base ELSE Put(loop, g[s \ {Max(s)}], l[Max(s)])]

LEMMA RoundsExist ==
  ASSUME NEW loop, NEW base, NEW l \in Seq(Coin)
  PROVE  \E g : Rounds(loop, base, l, g)
  <1> DEFINE N == Len(l)
             Low(n) == SUBSET (1..n)
             Eq(g, s) == g[s] = IF s = {} THEN base ELSE Put(loop, g[s \ {Max(s)}], l[Max(s)])
             P(n) == \E g : g = [s \in Low(n) |-> g[s]] /\ \A s \in Low(n) : Eq(g, s)
  <1>1. N \in Nat /\ DOMAIN l = 1..N
    OBVIOUS
  <1>2. ASSUME NEW n \in Nat, NEW s \in Low(n+1), s # {} PROVE s \ {Max(s)} \in Low(n)
    <2>1. n+1 \in Nat /\ s \in SUBSET (1..(n+1))
      OBVIOUS
    <2>2. PICK m : m = Max(s)
      OBVIOUS
    <2>3. m \in s /\ \A k \in s : k <= m
      BY <1>2, <2>1, <2>2, MaxInSet
    <2>4. \A k \in s \ {m} : k \in 1..n
      BY <2>1, <2>3
    <2> QED BY <2>2, <2>4
  <1>3. P(0)
    <2> DEFINE g == [s \in Low(0) |-> base]
    <2>1. \A s \in Low(0) : s = {}
      OBVIOUS
    <2> WITNESS g
    <2> QED BY <2>1
  <1>4. ASSUME NEW n \in Nat, P(n)
        PROVE  P(n+1)
    <2>1. PICK g : g = [s \in Low(n) |-> g[s]] /\ \A s \in Low(n) : Eq(g, s)
      BY <1>4
    <2> DEFINE h == [s \in Low(n+1) |->
                       IF s = {} THEN base ELSE Put(loop, g[s \ {Max(s)}], l[Max(s)])]
    <2>2. ASSUME NEW s \in Low(n)
          PROVE  s \in Low(n+1) /\ h[s] = g[s]
      <3>1. s \in Low(n+1)
        OBVIOUS
      <3>2. Eq(g, s)
        BY <2>1
      <3>3. h[s] = IF s = {} THEN base ELSE Put(loop, g[s \ {Max(s)}], l[Max(s)])
        BY <3>1
      <3> QED BY <3>1, <3>2, <3>3
    <2>3. \A s \in Low(n+1) : s # {} => s \ {Max(s)} \in Low(n)
      BY <1>2
    <2>4. \A s \in Low(n+1) : Eq(h, s)
      BY <2>2, <2>3
    <2>5. h = [s \in Low(n+1) |-> h[s]]
      OBVIOUS
    <2> QED BY <2>4, <2>5
  <1>5. P(N)
    <2> DEFINE B == {n \in 0..N : ~P(n)}
    <2> HIDE DEF P
    <2>1. SUFFICES ASSUME B # {}
                   PROVE  FALSE
      BY <1>1
    <2> B \in SUBSET Nat
      OBVIOUS
    <2>2. PICK m \in B : \A k \in B : m <= k
      BY <2>1, SmallestNat
    <2>3. m # 0 /\ m \in Nat /\ m-1 \in 0..N
      BY <1>1, <1>3, <2>2
    <2>4. P(m-1)
      BY <2>2, <2>3
    <2>5. P((m-1)+1)
      BY <1>4, <2>3, <2>4
    <2> QED BY <2>2, <2>3, <2>5
  <1>6. PICK g : g = [s \in Low(N) |-> g[s]] /\ \A s \in Low(N) : Eq(g, s)
    BY <1>5
  <1>7. Low(N) = SUBSET DOMAIN l
    BY <1>1
  <1>8. Rounds(loop, base, l, g)
    BY <1>6, <1>7 DEF Rounds
  <1> QED BY <1>8

LEMMA PreferIsRounds ==
  ASSUME NEW l \in Seq(Coin)
  PROVE  \E g : /\ Rounds("prefer", NoMapping, l, g)
                /\ FoldLeft(LAMBDA t, c : IF c.id \in Priority THEN [t EXCEPT ![c.symbol] = c.id] ELSE t,
                            NoMapping, l) = g[DOMAIN l]
  <1> DEFINE R(g) == g = [s \in SUBSET DOMAIN l |->
                            IF s = {} THEN NoMapping
                            ELSE IF l[Max(s)].id \in Priority
                                 THEN [g[s \ {Max(s)}] EXCEPT ![l[Max(s)].symbol] = l[Max(s)].id]
                                 ELSE g[s \ {Max(s)}]]
             g == CHOOSE h : R(h)
  <1>1. \A h : R(h) <=> Rounds("prefer", NoMapping, l, h)
    BY DEF Rounds, Put
  <1>2. R(g)
    BY <1>1, RoundsExist
  <1>3. FoldLeft(LAMBDA t, c : IF c.id \in Priority THEN [t EXCEPT ![c.symbol] = c.id] ELSE t,
                 NoMapping, l) = g[DOMAIN l]
    BY DEF FoldLeft, MapThenFoldSet
  <1> QED BY <1>1, <1>2, <1>3

LEMMA FillIsRounds ==
  ASSUME NEW l \in Seq(Coin), NEW base
  PROVE  \E g : /\ Rounds("fill", base, l, g)
                /\ FoldLeft(LAMBDA t, c : IF t[c.symbol] = NoCoin THEN [t EXCEPT ![c.symbol] = c.id] ELSE t,
                            base, l) = g[DOMAIN l]
  <1> DEFINE R(g) == g = [s \in SUBSET DOMAIN l |->
                            IF s = {} THEN base
                            ELSE IF g[s \ {Max(s)}][l[Max(s)].symbol] = NoCoin
                                 THEN [g[s \ {Max(s)}] EXCEPT ![l[Max(s)].symbol] = l[Max(s)].id]
                                 ELSE g[s \ {Max(s)}]]
             g == CHOOSE h : R(h)
  <1>1. \A h : R(h) <=> Rounds("fill", base, l, h)
    BY DEF Rounds, Put
  <1>2. R(g)
    BY <1>1, RoundsExist
  <1>3. FoldLeft(LAMBDA t, c : IF t[c.symbol] = NoCoin THEN [t EXCEPT ![c.symbol] = c.id] ELSE t,
                 base, l) = g[DOMAIN l]
    BY DEF FoldLeft, MapThenFoldSet
  <1> QED BY <1>1, <1>2, <1>3

LEMMA OneRound ==
  ASSUME NEW loop, NEW base, NEW l \in Seq(Coin), NEW g, Rounds(loop, base, l, g)
  PROVE  /\ g[{}] = base
         /\ \A n \in 1..Len(l) : g[1..n] = Put(loop, g[1..(n-1)], l[n])
  <1>1. DOMAIN l = 1..Len(l) /\ Len(l) \in Nat
    OBVIOUS
  <1>2. g[{}] = base
    BY DEF Rounds
  <1>3. ASSUME NEW n \in 1..Len(l)
        PROVE  g[1..n] = Put(loop, g[1..(n-1)], l[n])
    <2>1. PICK S : S = 1..n
      OBVIOUS
    <2>2. S \in SUBSET Nat /\ n \in S /\ \A k \in S : k <= n
      BY <2>1
    <2>3. Max(S) = n
      BY <2>2, MaxIs
    <2>4. S \in SUBSET DOMAIN l /\ S # {}
      <3>1. \A k \in 1..n : k \in 1..Len(l)
        BY <1>1
      <3>2. S \subseteq 1..Len(l)
        BY <2>1, <3>1
      <3> QED BY <1>1, <2>2, <3>2
    <2>5. S \ {n} = 1..(n-1)
      <3>1. n \in Nat /\ n-1 \in Nat
        BY <1>1
      <3>2. \A k : k \in S \ {n} <=> k \in 1..(n-1)
        BY <2>1, <3>1
      <3> QED BY <3>2
    <2>6. g[S] = Put(loop, g[S \ {Max(S)}], l[Max(S)])
      BY <2>4 DEF Rounds
    <2> QED BY <2>1, <2>3, <2>5, <2>6
  <1> QED BY <1>2, <1>3

(* The first loop keeps, for each symbol, the last priority coin so far.   *)
Wins(l, i, s) == l[i].symbol = s /\ l[i].id \in Priority

PreferredIn(l, n, t, s) ==
  \/ t[s] = NoCoin /\ \A i \in 1..n : ~Wins(l, i, s)
  \/ \E i \in 1..n : t[s] = l[i].id /\ Wins(l, i, s) /\ \A j \in 1..n : Wins(l, j, s) => j <= i

LEMMA PreferLoop ==
  ASSUME NEW l \in Seq(Coin), NEW g, Rounds("prefer", NoMapping, l, g)
  PROVE  g[DOMAIN l] \in Table /\ \A s \in Symbol : PreferredIn(l, Len(l), g[DOMAIN l], s)
  <1> DEFINE P(n) == g[1..n] \in Table /\ \A s \in Symbol : PreferredIn(l, n, g[1..n], s)
  <1>1. DOMAIN l = 1..Len(l) /\ Len(l) \in Nat /\ \A i \in 1..Len(l) : l[i] \in Coin
    OBVIOUS
  <1>2. P(0)
    <2>1. g[1..0] = NoMapping
      <3>1. 1..0 = {}
        OBVIOUS
      <3>2. g[{}] = NoMapping
        BY OneRound
      <3> QED BY <3>1, <3>2
    <2> QED BY <2>1 DEF NoMapping, Table, PreferredIn
  <1>3. ASSUME NEW n \in 1..Len(l), P(n-1)
        PROVE  P(n)
    <2>1. PICK t, old : t = g[1..n] /\ old = g[1..(n-1)]
      OBVIOUS
    <2>2. t = IF l[n].id \in Priority THEN [old EXCEPT ![l[n].symbol] = l[n].id] ELSE old
      BY <2>1, OneRound DEF Put
    <2>3. old \in Table /\ l[n].id \in CoinId /\ l[n].symbol \in Symbol
      BY <1>1, <1>3, <2>1 DEF Coin
    <2>4. t \in Table
      BY <2>2, <2>3 DEF Table
    <2>5. ASSUME NEW s \in Symbol PROVE PreferredIn(l, n, t, s)
      <3>1. PreferredIn(l, n-1, old, s)
        BY <1>3, <2>1
      <3>2. CASE Wins(l, n, s)
        <4>1. t[s] = l[n].id
          BY <2>2, <2>3, <3>2 DEF Wins, Table
        <4> QED BY <3>2, <4>1 DEF PreferredIn
      <3>3. CASE ~Wins(l, n, s)
        <4>1. t[s] = old[s]
          BY <2>2, <2>3, <3>3 DEF Wins, Table
        <4>2. \A i \in 1..n : i \in 1..(n-1) \/ i = n
          OBVIOUS
        <4>3. \A i \in 1..(n-1) : i \in 1..n
          OBVIOUS
        <4> QED BY <3>1, <3>3, <4>1, <4>2, <4>3 DEF PreferredIn
      <3> QED BY <3>2, <3>3
    <2> QED BY <2>1, <2>4, <2>5
  <1>4. P(Len(l))
    <2> DEFINE B == {n \in 0..Len(l) : ~P(n)}
    <2> HIDE DEF P
    <2>1. SUFFICES ASSUME B # {}
                   PROVE  FALSE
      BY <1>1
    <2> B \in SUBSET Nat
      OBVIOUS
    <2>2. PICK m \in B : \A k \in B : m <= k
      BY <2>1, SmallestNat
    <2>3. m # 0 /\ m \in 1..Len(l) /\ m-1 \in 0..Len(l)
      BY <1>1, <1>2, <2>2
    <2>4. P(m-1)
      BY <2>2, <2>3
    <2> QED BY <1>3, <2>2, <2>3, <2>4
  <1> QED BY <1>1, <1>4

(* The second keeps what there is, and else the first coin so far.         *)
FilledIn(l, n, base, t, s) ==
  \/ base[s] # NoCoin /\ t[s] = base[s]
  \/ base[s] = NoCoin /\ t[s] = NoCoin /\ \A i \in 1..n : l[i].symbol # s
  \/ /\ base[s] = NoCoin
     /\ \E i \in 1..n : t[s] = l[i].id /\ l[i].symbol = s /\ \A j \in 1..n : l[j].symbol = s => i <= j

LEMMA FillLoop ==
  ASSUME NEW l \in Seq(Coin), NEW base \in Table, NEW g, Rounds("fill", base, l, g)
  PROVE  g[DOMAIN l] \in Table /\ \A s \in Symbol : FilledIn(l, Len(l), base, g[DOMAIN l], s)
  <1> DEFINE P(n) == g[1..n] \in Table /\ \A s \in Symbol : FilledIn(l, n, base, g[1..n], s)
  <1>1. DOMAIN l = 1..Len(l) /\ Len(l) \in Nat /\ \A i \in 1..Len(l) : l[i] \in Coin
    OBVIOUS
  <1>2. P(0)
    <2>1. g[1..0] = base
      <3>1. 1..0 = {}
        OBVIOUS
      <3>2. g[{}] = base
        BY OneRound
      <3> QED BY <3>1, <3>2
    <2> QED BY <2>1 DEF FilledIn
  <1>3. ASSUME NEW n \in 1..Len(l), P(n-1)
        PROVE  P(n)
    <2>1. PICK t, old : t = g[1..n] /\ old = g[1..(n-1)]
      OBVIOUS
    <2>2. t = IF old[l[n].symbol] = NoCoin THEN [old EXCEPT ![l[n].symbol] = l[n].id] ELSE old
      <3>1. t = Put("fill", old, l[n])
        BY <2>1, OneRound
      <3> QED BY <3>1 DEF Put
    <2>3. old \in Table /\ l[n].id \in CoinId /\ l[n].symbol \in Symbol
      BY <1>1, <1>3, <2>1 DEF Coin
    <2>4. t \in Table
      BY <2>2, <2>3 DEF Table
    <2>5. \A i \in 1..(n-1) : i \in 1..n /\ i <= n /\ l[i].id # NoCoin
      BY <1>1, CoinAssumption DEF Coin
    <2>6. \A i \in 1..n : i \in 1..(n-1) \/ i = n
      OBVIOUS
    <2>7. ASSUME NEW s \in Symbol PROVE FilledIn(l, n, base, t, s)
      <3>1. FilledIn(l, n-1, base, old, s)
        BY <1>3, <2>1
      <3>2. CASE l[n].symbol = s /\ old[s] = NoCoin
        <4>1. t[s] = l[n].id
          BY <2>2, <2>3, <3>2 DEF Table
        <4>2. base[s] = NoCoin /\ \A i \in 1..(n-1) : l[i].symbol # s
          BY <2>5, <3>1, <3>2 DEF FilledIn
        <4>3. \A j \in 1..n : l[j].symbol = s => n <= j
          BY <2>6, <4>2
        <4>4. n \in 1..n
          OBVIOUS
        <4> QED BY <3>2, <4>1, <4>2, <4>3, <4>4 DEF FilledIn
      <3>3. CASE ~(l[n].symbol = s /\ old[s] = NoCoin)
        <4>1. t[s] = old[s]
          BY <2>2, <2>3, <3>3 DEF Table
        <4>2. CASE base[s] # NoCoin
          BY <3>1, <4>1, <4>2 DEF FilledIn
        <4>3. CASE old[s] = NoCoin
          BY <2>5, <2>6, <3>1, <3>3, <4>1, <4>3 DEF FilledIn
        <4>4. CASE base[s] = NoCoin /\ old[s] # NoCoin
          <5>1. PICK i \in 1..(n-1) : /\ old[s] = l[i].id /\ l[i].symbol = s
                                      /\ \A j \in 1..(n-1) : l[j].symbol = s => i <= j
            BY <3>1, <4>4 DEF FilledIn
          <5>2. \A j \in 1..n : l[j].symbol = s => i <= j
            BY <2>5, <2>6, <5>1
          <5> QED BY <2>5, <4>1, <4>4, <5>1, <5>2 DEF FilledIn
        <4> QED BY <4>2, <4>3, <4>4
      <3> QED BY <3>2, <3>3
    <2> QED BY <2>1, <2>4, <2>7
  <1>4. P(Len(l))
    <2> DEFINE B == {n \in 0..Len(l) : ~P(n)}
    <2> HIDE DEF P
    <2>1. SUFFICES ASSUME B # {}
                   PROVE  FALSE
      BY <1>1
    <2> B \in SUBSET Nat
      OBVIOUS
    <2>2. PICK m \in B : \A k \in B : m <= k
      BY <2>1, SmallestNat
    <2>3. m # 0 /\ m \in 1..Len(l) /\ m-1 \in 0..Len(l)
      BY <1>1, <1>2, <2>2
    <2>4. P(m-1)
      BY <2>2, <2>3
    <2> QED BY <1>3, <2>2, <2>3, <2>4
  <1> QED BY <1>1, <1>4

(* Both loops: the table is total, and each symbol has its preferred coin. *)
LEMMA TableIsPreferred ==
  ASSUME NEW l \in Seq(Coin)
  PROVE  TableOf(l) \in Table /\ TableOf(l) = [s \in Symbol |-> Preferred(l, s)]
  <1>1. PICK g : /\ Rounds("prefer", NoMapping, l, g)
                 /\ FoldLeft(LAMBDA t, c : IF c.id \in Priority THEN [t EXCEPT ![c.symbol] = c.id] ELSE t,
                             NoMapping, l) = g[DOMAIN l]
    BY PreferIsRounds
  <1>2. PICK base : base = g[DOMAIN l]
    OBVIOUS
  <1>3. base \in Table /\ \A s \in Symbol : PreferredIn(l, Len(l), base, s)
    BY <1>1, <1>2, PreferLoop
  <1>4. PICK h : /\ Rounds("fill", base, l, h)
                 /\ FoldLeft(LAMBDA t, c : IF t[c.symbol] = NoCoin THEN [t EXCEPT ![c.symbol] = c.id] ELSE t,
                             base, l) = h[DOMAIN l]
    BY FillIsRounds
  <1>5. PICK t : t = h[DOMAIN l]
    OBVIOUS
  <1>6. t \in Table /\ \A s \in Symbol : FilledIn(l, Len(l), base, t, s)
    BY <1>3, <1>4, <1>5, FillLoop
  <1>7. TableOf(l) = t
    BY <1>1, <1>2, <1>4, <1>5 DEF TableOf
  <1>8. DOMAIN l = 1..Len(l) /\ Len(l) \in Nat /\ \A i \in 1..Len(l) : l[i] \in Coin /\ l[i].id # NoCoin
    <2>1. DOMAIN l = 1..Len(l) /\ Len(l) \in Nat /\ \A i \in 1..Len(l) : l[i] \in Coin
      OBVIOUS
    <2> QED BY <2>1, CoinAssumption DEF Coin
  <1>9. ASSUME NEW s \in Symbol PROVE t[s] = Preferred(l, s)
    <2>1. PICK bearers, popular : /\ bearers = {i \in DOMAIN l : l[i].symbol = s}
                                  /\ popular = {i \in bearers : l[i].id \in Priority}
      OBVIOUS
    <2>2. /\ \A i : i \in bearers <=> i \in 1..Len(l) /\ l[i].symbol = s
          /\ \A i : i \in popular <=> i \in 1..Len(l) /\ Wins(l, i, s)
          /\ bearers \in SUBSET Nat /\ popular \in SUBSET Nat
      BY <1>8, <2>1 DEF Wins
    <2>3. Preferred(l, s) = CASE popular # {} -> l[Max(popular)].id
                              [] popular = {} /\ bearers # {} -> l[Min(bearers)].id
                              [] OTHER -> NoCoin
      BY <2>1 DEF Preferred
    <2>4. CASE popular # {}
      <3>1. PICK i \in 1..Len(l) : base[s] = l[i].id /\ Wins(l, i, s)
                                   /\ \A j \in 1..Len(l) : Wins(l, j, s) => j <= i
        BY <1>3, <2>2, <2>4 DEF PreferredIn
      <3>2. Max(popular) = i
        BY <2>2, <3>1, MaxIs
      <3>3. t[s] = base[s]
        BY <1>6, <1>8, <3>1 DEF FilledIn
      <3> QED BY <2>3, <2>4, <3>1, <3>2, <3>3
    <2>5. CASE popular = {}
      <3>1. base[s] = NoCoin
        BY <1>3, <2>2, <2>5 DEF PreferredIn
      <3>2. CASE bearers # {}
        <4>1. PICK i \in 1..Len(l) : /\ t[s] = l[i].id /\ l[i].symbol = s
                                     /\ \A j \in 1..Len(l) : l[j].symbol = s => i <= j
          BY <1>6, <2>2, <3>1, <3>2 DEF FilledIn
        <4>2. Min(bearers) = i
          BY <2>2, <4>1, MinIs
        <4> QED BY <2>3, <2>5, <3>2, <4>1, <4>2
      <3>3. CASE bearers = {}
        <4>1. t[s] = NoCoin
          BY <1>6, <2>2, <3>1, <3>3 DEF FilledIn
        <4> QED BY <2>3, <2>5, <3>3, <4>1
      <3> QED BY <3>2, <3>3
    <2> QED BY <2>4, <2>5
  <1>10. t = [s \in Symbol |-> Preferred(l, s)]
    BY <1>6, <1>9 DEF Table
  <1> QED BY <1>6, <1>7, <1>10

(* The coin under s in the table is in the list, under s; a popular        *)
(* symbol's is its own.                                                    *)
LEMMA PreferredCoin ==
  ASSUME NEW l \in Seq(Coin), NEW s \in Symbol
  PROVE  \/ /\ Preferred(l, s) = NoCoin
            /\ \A i \in DOMAIN l : l[i].symbol # s
         \/ \E i \in DOMAIN l : /\ l[i].symbol = s /\ Preferred(l, s) = l[i].id
                                /\ \A j \in DOMAIN l : Wins(l, j, s) => Wins(l, i, s)
  <1>1. DOMAIN l = 1..Len(l) /\ Len(l) \in Nat
    OBVIOUS
  <1>2. PICK bearers, popular : /\ bearers = {i \in DOMAIN l : l[i].symbol = s}
                                /\ popular = {i \in bearers : l[i].id \in Priority}
    OBVIOUS
  <1>3. Preferred(l, s) = CASE popular # {} -> l[Max(popular)].id
                            [] popular = {} /\ bearers # {} -> l[Min(bearers)].id
                            [] OTHER -> NoCoin
    BY <1>2 DEF Preferred
  <1>4. /\ \A i : i \in bearers <=> i \in DOMAIN l /\ l[i].symbol = s
        /\ \A i : i \in popular <=> i \in DOMAIN l /\ Wins(l, i, s)
    BY <1>2 DEF Wins
  <1>5. CASE popular # {}
    <2>1. popular \in SUBSET (1..Len(l))
      BY <1>1, <1>2
    <2>2. Max(popular) \in popular
      BY <1>1, <1>5, <2>1, MaxInSet
    <2> QED BY <1>3, <1>4, <1>5, <2>2 DEF Wins
  <1>6. CASE popular = {} /\ bearers # {}
    <2>1. bearers \in SUBSET Nat
      BY <1>1, <1>2
    <2>2. PICK m \in bearers : \A k \in bearers : m <= k
      BY <1>6, <2>1, SmallestNat
    <2>3. Min(bearers) = m
      BY <2>1, <2>2, MinIs
    <2> QED BY <1>3, <1>4, <1>6, <2>2, <2>3
  <1>7. CASE popular = {} /\ bearers = {}
    BY <1>3, <1>4, <1>7
  <1> QED BY <1>5, <1>6, <1>7

(* What getPrices relies on in a table.                                    *)
GoodTable(t) ==
  /\ t \in Table
  /\ \A s \in Popular : t[s] = Basic[s]
  /\ \A s \in Popular, x \in Symbol : t[x] = Basic[s] => x = s

LEMMA TablesGood ==
  ASSUME NEW t \in Tables \cup {BasicTable}
  PROVE  GoodTable(t)
  <1>1. CASE t = BasicTable
    <2>1. /\ t = [s \in Symbol |-> IF s \in Popular THEN Basic[s] ELSE NoCoin]
          /\ \A s \in Popular : s \in Symbol /\ Basic[s] \in CoinId
      BY <1>1, CoinAssumption DEF BasicTable, WellKnown
    <2>2. t \in Table
      BY <2>1 DEF Table
    <2>3. \A s \in Popular, x \in Symbol : t[x] = Basic[s] => x = s
      BY <2>1, CoinAssumption
    <2> QED BY <2>1, <2>2, <2>3 DEF GoodTable
  <1>2. CASE t \in Tables
    <2>1. PICK l \in CoinList : t = TableOf(l)
      BY <1>2 DEF Tables
    <2>2. l \in Seq(Coin) /\ DOMAIN l = 1..Len(l) /\ \A i \in DOMAIN l : l[i] \in Coin
      BY CoinAssumption
    <2>3. t \in Table /\ \A s \in Symbol : t[s] = Preferred(l, s)
      BY <2>1, <2>2, TableIsPreferred
    <2>4. ASSUME NEW s \in Popular PROVE t[s] = Basic[s]
      <3>1. PICK i \in DOMAIN l : l[i] = [id |-> Basic[s], symbol |-> s]
        BY ListAssumption
      <3>2. l[i].symbol = s /\ l[i].id = Basic[s] /\ s \in Symbol /\ Basic[s] \in Priority
        BY <3>1, CoinAssumption DEF WellKnown
      <3>3. Wins(l, i, s)
        BY <3>2 DEF Wins
      <3>4. PICK j \in DOMAIN l : /\ l[j].symbol = s /\ Preferred(l, s) = l[j].id /\ Wins(l, j, s)
        BY <2>2, <3>2, <3>3, PreferredCoin
      <3>5. l[j].id = Basic[s]
        BY <3>4, ListAssumption DEF Wins
      <3> QED BY <2>3, <3>2, <3>4, <3>5
    <2>5. ASSUME NEW s \in Popular, NEW x \in Symbol, t[x] = Basic[s] PROVE x = s
      <3>1. PICK i \in DOMAIN l : l[i] = [id |-> Basic[s], symbol |-> s]
        BY ListAssumption
      <3>2. Basic[s] # NoCoin
        BY CoinAssumption DEF WellKnown
      <3>3. PICK j \in DOMAIN l : l[j].symbol = x /\ l[j].id = Basic[s]
        BY <2>2, <2>3, <2>5, <3>2, PreferredCoin
      <3>4. l[i].id = l[j].id /\ l[i].symbol = s
        BY <3>1, <3>3
      <3>5. i = j
        BY <3>4, ListAssumption
      <3> QED BY <3>3, <3>4, <3>5
    <2> QED BY <2>3, <2>4, <2>5 DEF GoodTable
  <1> QED BY <1>1, <1>2

(* A coin of the basic table is named by its symbol, another is spelled.   *)
LEMMA NameIs ==
  /\ \A s \in Popular : NameOf(Basic[s]) = s
  /\ \A id \in CoinId \ WellKnown : NameOf(id) = Spelled[id]
  /\ \A id \in CoinId : NameOf(id) \in Symbol
  <1>1. ASSUME NEW s \in Popular PROVE NameOf(Basic[s]) = s
    <2>1. Basic[s] \in WellKnown
      BY DEF WellKnown
    <2>2. \A x \in Popular : Basic[x] = Basic[s] => x = s
      BY CoinAssumption
    <2> QED BY <2>1, <2>2 DEF NameOf
  <1>2. \A id \in CoinId \ WellKnown : NameOf(id) = Spelled[id]
    BY DEF NameOf
  <1>3. ASSUME NEW id \in CoinId PROVE NameOf(id) \in Symbol
    <2>1. CASE id \in WellKnown
      <3>1. PICK s \in Popular : id = Basic[s]
        BY <2>1 DEF WellKnown
      <3> QED BY <1>1, <3>1, CoinAssumption
    <2>2. CASE id \notin WellKnown
      BY <1>2, <2>2, CoinAssumption
    <2> QED BY <2>1, <2>2
  <1> QED BY <1>1, <1>2, <1>3

(* The service awaits at most one provider.                                *)
LEMMA OneIsAsked ==
  ASSUME NEW p, NEW q, Asked(p), Asked(q)
  PROVE  p = q
  BY DEF Asked, FallbackLeft

(* What is in an answer of CoinGecko: coins that the table has for symbols *)
(* that were asked for.                                                    *)
LEMMA EntryIs ==
  ASSUME LookupInv, gecko = "prices", NEW listed \in SUBSET Ids(request), NEW e \in Entries(listed)
  PROVE  /\ e \in Price /\ e.coin \in CoinId /\ e.symbol = NameOf(e.coin)
         /\ \E t \in request : t \in Symbol /\ mapping[t] = e.coin
  <1>1. PICK id \in listed : e = [symbol |-> NameOf(id), coin |-> id]
    BY DEF Entries
  <1>2. PICK t \in request : mapping[t] = id /\ id # NoCoin
    BY <1>1 DEF Ids
  <1>3. t \in Symbol
    BY <1>2, LookupAssumption DEF LookupInv, LookupTypeOK
  <1>4. id \in CoinId
    BY <1>2, <1>3 DEF LookupInv, LookupTypeOK, GeckoTypeOK, Table
  <1> QED BY <1>1, <1>2, <1>3, <1>4, NameIs DEF Price

LEMMA LookupInitInv == ASSUME LookupInit PROVE LookupInv
  <1>1. ServiceInv
    BY InitInv DEF LookupInit
  <1>2. NoMapping \in Table
    BY DEF NoMapping, Table
  <1> QED BY <1>1, <1>2 DEF LookupInit, GeckoInit, LookupInv, LookupTypeOK, GeckoTypeOK, ServiceInv

(* CoinGecko's part of the invariant, and what the calls leave of it.      *)
GeckoInv == /\ GeckoTypeOK
            /\ fresh => table # NoTable
            /\ table # NoTable => table \in Tables
            /\ gecko = "prices" => mapping \in Tables \cup {BasicTable}

CallInv == /\ up \in [Provider -> BOOLEAN]
           /\ request \in Requests \cup {{}}
           /\ data \subseteq Price

LEMMA InvParts ==
  LookupInv <=> ServiceInv /\ GeckoInv /\ CallInv /\ (gecko # "idle" => Asked(COINGECKO))
  BY DEF LookupInv, LookupTypeOK, GeckoInv, CallInv, ServiceInv

LEMMA TablesTyped == Tables \subseteq Table /\ BasicTable \in Table /\ NoMapping \in Table
  <1>1. \A t \in Tables \cup {BasicTable} : t \in Table
    BY TablesGood DEF GoodTable
  <1>2. NoMapping \in Table
    BY DEF NoMapping, Table
  <1> QED BY <1>1, <1>2

(* Every step that touches the table, or none, keeps CoinGecko's part.     *)
LEMMA GeckoStepInv ==
  ASSUME LookupInv,
         GeckoStep \/ TableExpires \/ RestartStep \/ GeckoReturns \/ UNCHANGED geckoVars
  PROVE  GeckoInv'
  <1>1. GeckoInv
    BY InvParts
  <1>2. CASE UseTable
    BY <1>1, <1>2 DEF UseTable, GeckoInv, GeckoTypeOK
  <1>3. CASE AskList
    BY <1>1, <1>3 DEF AskList, GeckoInv, GeckoTypeOK
  <1>4. CASE ListArrives
    <2>1. table' \in Tables /\ table' \in Table /\ table' # NoTable
      BY <1>4, TablesTyped, CoinAssumption DEF ListArrives
    <2> QED BY <1>1, <1>4, <2>1 DEF ListArrives, GeckoInv, GeckoTypeOK
  <1>5. CASE ListFails
    BY <1>1, <1>5, TablesTyped DEF ListFails, GeckoInv, GeckoTypeOK
  <1>6. CASE TableExpires
    BY <1>1, <1>6 DEF TableExpires, Expire, GeckoInv, GeckoTypeOK
  <1>7. CASE RestartStep
    BY <1>7, TablesTyped DEF RestartStep, GeckoRestart, GeckoInv, GeckoTypeOK
  <1>8. CASE GeckoReturns
    BY <1>1, <1>8, TablesTyped DEF GeckoReturns, GeckoInv, GeckoTypeOK
  <1>9. CASE UNCHANGED geckoVars
    BY <1>1, <1>9 DEF geckoVars, GeckoInv, GeckoTypeOK
  <1> QED BY <1>2, <1>3, <1>4, <1>5, <1>6, <1>7, <1>8, <1>9 DEF GeckoStep

(* Every step of the lookup, one case per action.                          *)
LEMMA LookupStepInv ==
  ASSUME LookupInv, [LookupNext]_lookupVars PROVE LookupInv'
  <1>1. ServiceInv /\ GeckoInv /\ CallInv /\ (gecko # "idle" => Asked(COINGECKO))
    BY InvParts
  <1>2. ServiceInv'
    <2>1. UpType
      BY <1>1 DEF CallInv, UpType
    <2> QED BY <1>1, <2>1, LookupStepIsServiceStep, StepInv
  <1>3. SUFFICES GeckoInv' /\ CallInv' /\ (gecko' # "idle" => Asked(COINGECKO)')
    <2>1. LookupInv' <=> ServiceInv' /\ GeckoInv' /\ CallInv' /\ (gecko' # "idle" => Asked(COINGECKO)')
      BY DEF LookupInv, LookupTypeOK, GeckoInv, CallInv, ServiceInv
    <2> QED BY <1>2, <1>3, <2>1
  <1>4. ASSUME NEW R \in Requests, Ask(R)
        PROVE  GeckoInv' /\ CallInv' /\ (gecko' # "idle" => Asked(COINGECKO)')
    <2>1. gecko = "idle" /\ gecko' = "idle"
      BY <1>1, <1>4 DEF Ask, GetInstance, Asked, FallbackLeft, geckoVars
    <2>2. GeckoInv'
      BY <1>4, GeckoStepInv DEF Ask
    <2> QED BY <1>1, <1>4, <2>1, <2>2 DEF Ask, CallInv
  <1>5. ASSUME NEW p \in Provider, Probe(p)
        PROVE  GeckoInv' /\ CallInv' /\ (gecko' # "idle" => Asked(COINGECKO)')
    <2>1. gecko = "idle" /\ gecko' = "idle"
      BY <1>1, <1>5 DEF Probe, ProbeReturns, Asked, FallbackLeft, geckoVars
    <2>2. GeckoInv'
      BY <1>5, GeckoStepInv DEF Probe
    <2> QED BY <1>1, <1>5, <2>1, <2>2 DEF Probe, CallInv
  <1>6. CASE ServiceStep
    <2>1. gecko = "idle" /\ gecko' = "idle"
      <3>1. ~Asked(COINGECKO)
        <4>1. CASE InitializeEnds \/ Request
          BY <4>1 DEF InitializeEnds, Request, Asked, FallbackLeft
        <4>2. CASE SkipFallback
          BY <4>2 DEF SkipFallback, Asked, FallbackLeft
        <4>3. CASE GiveUp
          <5>1. next \in Nat /\ Len(Fallbacks) \in Nat
            BY <1>1, ProviderAssumption DEF ServiceInv, ServiceTypeOK
          <5> QED BY <4>3, <5>1 DEF GiveUp, Asked, FallbackLeft
        <4> QED BY <1>6, <4>1, <4>2, <4>3 DEF ServiceStep, OwnStep
      <3> QED BY <1>1, <1>6, <3>1 DEF ServiceStep, geckoVars
    <2>2. GeckoInv'
      BY <1>6, GeckoStepInv DEF ServiceStep
    <2> QED BY <1>1, <1>6, <2>1, <2>2 DEF ServiceStep, CallInv
  <1>7. CASE GeckoStep
    <2>1. Asked(COINGECKO)'
      BY <1>7 DEF GeckoStep, serviceVars, Asked, FallbackLeft, IsAvailable
    <2>2. GeckoInv'
      BY <1>7, GeckoStepInv
    <2> QED BY <1>1, <1>7, <2>1, <2>2 DEF GeckoStep, CallInv
  <1>8. CASE GeckoAnswers
    <2>1. gecko = "prices" /\ gecko' = "idle"
      BY <1>8 DEF GeckoAnswers, GeckoReturns
    <2>2. GeckoInv'
      BY <1>8, GeckoStepInv DEF GeckoAnswers
    <2>3. data' \subseteq Price
      <3>1. CASE UNCHANGED data
        BY <1>1, <3>1 DEF CallInv
      <3>2. CASE \E listed \in SUBSET Ids(request) : data' = Entries(listed)
        BY <2>1, <3>2, EntryIs
      <3> QED BY <1>8, <3>1, <3>2 DEF GeckoAnswers, Fails
    <2> QED BY <1>1, <1>8, <2>1, <2>2, <2>3 DEF GeckoAnswers, CallInv
  <1>9. ASSUME NEW p \in Provider \ {COINGECKO}, NEW symbols \in SUBSET Symbol, Quotes(p, symbols)
        PROVE  GeckoInv' /\ CallInv' /\ (gecko' # "idle" => Asked(COINGECKO)')
    <2>1. gecko = "idle" /\ gecko' = "idle"
      BY <1>1, <1>9, OneIsAsked DEF Quotes, geckoVars
    <2>2. GeckoInv'
      BY <1>9, GeckoStepInv DEF Quotes
    <2>3. data' \subseteq Price
      <3>1. CASE UNCHANGED data
        BY <1>1, <3>1 DEF CallInv
      <3>2. ASSUME NEW S \in SUBSET symbols, data' = {[symbol |-> s, coin |-> Foreign] : s \in S}
            PROVE  data' \subseteq Price
        BY <3>2 DEF Price
      <3> QED BY <1>9, <3>1, <3>2 DEF Quotes, Fails
    <2> QED BY <1>1, <1>9, <2>1, <2>2, <2>3 DEF Quotes, CallInv
  <1>10. CASE FreeCryptoAnswers \/ CoinMarketCapAnswers
    <2>1. {FREECRYPTOAPI, COINMARKETCAP} \subseteq Provider \ {COINGECKO} /\ request \in SUBSET Symbol
      BY <1>1, LookupAssumption DEF CallInv
    <2> QED BY <1>9, <1>10, <2>1 DEF FreeCryptoAnswers, CoinMarketCapAnswers
  <1>11. CASE \E p \in Provider : Toggle(p)
    <2>1. GeckoInv' /\ up' \in [Provider -> BOOLEAN]
      BY <1>1, <1>11, GeckoStepInv DEF Toggle, CallInv
    <2> QED BY <1>1, <1>11, <2>1
         DEF Toggle, CallInv, geckoVars, serviceVars, Asked, FallbackLeft, IsAvailable
  <1>12. CASE TableExpires
    <2>1. GeckoInv'
      BY <1>12, GeckoStepInv
    <2> QED BY <1>1, <1>12, <2>1
         DEF TableExpires, Expire, CallInv, serviceVars, Asked, FallbackLeft, IsAvailable
  <1>13. CASE RestartStep
    <2>1. GeckoInv'
      BY <1>13, GeckoStepInv
    <2> QED BY <1>1, <1>13, <2>1 DEF RestartStep, GeckoRestart, CallInv
  <1>14. CASE UNCHANGED lookupVars
    <2>1. GeckoInv'
      BY <1>14, GeckoStepInv DEF lookupVars
    <2> QED BY <1>1, <1>14, <2>1
         DEF lookupVars, CallInv, geckoVars, serviceVars, Asked, FallbackLeft, IsAvailable
  <1> QED
    BY <1>4, <1>5, <1>6, <1>7, <1>8, <1>10, <1>11, <1>12, <1>13, <1>14 DEF LookupNext, CallStep

(* For any providers, coin lists and failures: a stored table was made of  *)
(* a list, and CoinGecko works on a call only while the service awaits it  *)
(* (CoinGeckoProvider.ts:36-104, :107-153).                                *)
THEOREM LookupInvCorrect == LookupSpec => []LookupInv
  <1>1. LookupInit => LookupInv
    BY LookupInitInv
  <1>2. LookupInv /\ [LookupNext]_lookupVars => LookupInv'
    BY LookupStepInv
  <1> QED BY <1>1, <1>2, PTL DEF LookupSpec

(* The state of a lookup, its table and its answer are of their types.     *)
THEOREM LookupTypeCorrect == LookupSpec => []LookupTypeOK
  <1>1. LookupInv => LookupTypeOK
    BY DEF LookupInv
  <1> QED BY <1>1, LookupInvCorrect, PTL

(* refreshSymbolCache's two loops, whatever the list and its order, give   *)
(* each symbol the last priority coin of it, else its first coin           *)
(* (CoinGeckoProvider.ts:128-144).                                         *)
THEOREM TablesByPreference == LookupSpec => []TableByPreference
  <1>1. ASSUME LookupInv PROVE TableByPreference
    <2>1. SUFFICES ASSUME table # NoTable PROVE table \in PreferredTables
      BY DEF TableByPreference
    <2>2. PICK l \in CoinList : table = TableOf(l)
      BY <1>1, <2>1 DEF LookupInv, Tables
    <2>3. l \in Seq(Coin)
      BY CoinAssumption
    <2> QED BY <2>2, <2>3, TableIsPreferred DEF PreferredTables
  <1> QED BY <1>1, LookupInvCorrect, PTL

(* A call's table has each popular symbol's own coin, whether it was       *)
(* stored, just made or the basic one (CoinGeckoProvider.ts:107-153).      *)
THEOREM PopularStaysMapped == LookupSpec => []PopularMapped
  <1>1. LookupInv => PopularMapped
    BY TablesGood DEF LookupInv, PopularMapped, GoodTable
  <1> QED BY <1>1, LookupInvCorrect, PTL

(* An answer of CoinGecko names a popular coin by its symbol, and under a  *)
(* popular symbol gives that coin, or one asked for by another symbol      *)
(* whose id reads as it (CoinGeckoProvider.ts:38-43, :67-83).              *)
THEOREM PopularRightlyQuoted == LookupSpec => PopularQuotes
  <1> DEFINE Fine(e) ==
        /\ e.symbol \in Popular =>
             \/ e.coin = Basic[e.symbol] /\ e.symbol \in request
             \/ /\ Spelled[e.coin] = e.symbol
                /\ \E t \in request \ {e.symbol} : mapping[t] = e.coin
        /\ \A s \in Popular : e.coin = Basic[s] => e.symbol = s
  <1>1. ASSUME LookupInv, LookupNext, gecko = "prices", answer' = "prices"
        PROVE  \A e \in data' : Fine(e)
    <2>1. Asked(COINGECKO) /\ answer = "none" /\ GoodTable(mapping)
      <3>1. Asked(COINGECKO) /\ mapping \in Tables \cup {BasicTable}
        BY <1>1 DEF LookupInv, LookupTypeOK
      <3>2. answer = "none"
        BY <1>1, <3>1 DEF LookupInv, ServiceInv, RefusedSoFar, Asked, FallbackLeft
      <3> QED BY <3>1, <3>2, TablesGood
    <2>2. GeckoAnswers
      <3>1. ~(\E R \in Requests : Ask(R)) /\ ~(\E p \in Provider : Probe(p))
        BY <2>1 DEF Ask, GetInstance, Probe, ProbeReturns, Asked, FallbackLeft
      <3>2. ~ServiceStep
        BY <1>1, <2>1 DEF ServiceStep, OwnStep, InitializeEnds, Request, SkipFallback, GiveUp
      <3>3. ~GeckoStep /\ ~(\E p \in Provider : Toggle(p)) /\ ~TableExpires /\ ~RestartStep
        BY <1>1, <2>1 DEF GeckoStep, Toggle, TableExpires, RestartStep, Restart, serviceVars
      <3>4. ~FreeCryptoAnswers /\ ~CoinMarketCapAnswers
        BY <2>1, OneIsAsked, LookupAssumption DEF FreeCryptoAnswers, CoinMarketCapAnswers, Quotes
      <3> QED BY <1>1, <3>1, <3>2, <3>3, <3>4 DEF LookupNext, CallStep
    <2>3. PICK listed \in SUBSET Ids(request) : data' = Entries(listed)
      <3>1. ~Answers(FALSE)
        BY <1>1, <2>1 DEF Answers, TryCurrent, TryFallback
      <3> QED BY <2>2, <3>1 DEF GeckoAnswers, Fails
    <2>4. ASSUME NEW e \in Entries(listed) PROVE Fine(e)
      <3>1. e.coin \in CoinId /\ e.symbol = NameOf(e.coin)
        BY <1>1, EntryIs
      <3>2. PICK t \in request : t \in Symbol /\ mapping[t] = e.coin
        BY <1>1, EntryIs
      <3>3. ASSUME NEW s \in Popular, e.coin = Basic[s] PROVE e.symbol = s /\ t = s
        BY <2>1, <3>1, <3>2, <3>3, NameIs DEF GoodTable
      <3>4. CASE e.coin \in WellKnown
        <4>1. PICK s \in Popular : e.coin = Basic[s]
          BY <3>4 DEF WellKnown
        <4> QED BY <3>2, <3>3, <4>1
      <3>5. CASE e.coin \notin WellKnown
        <4>1. e.symbol = Spelled[e.coin] /\ \A s \in Popular : e.coin # Basic[s]
          BY <3>1, <3>5, NameIs DEF WellKnown
        <4>2. e.symbol \in Popular => t # e.symbol
          BY <2>1, <3>2, <4>1 DEF GoodTable
        <4> QED BY <3>2, <4>1, <4>2
      <3> QED BY <3>4, <3>5
    <2> QED BY <2>3, <2>4
  <1>2. LookupInv /\ [LookupNext]_lookupVars =>
          [gecko = "prices" /\ answer' = "prices" => \A e \in data' : Fine(e)]_lookupVars
    BY <1>1
  <1> QED BY <1>2, LookupInvCorrect, PTL DEF LookupSpec, PopularQuotes
===============================================================================
