--------------------------- MODULE CoinGeckoProvider ---------------------------
(***************************************************************************)
(* providers/CoinGeckoProvider.ts.  CoinGecko knows coins by id, alerts    *)
(* know them by symbol.  getPrices first obtains a table from symbols to   *)
(* ids (kept 24 hours, else rebuilt from the list of all coins, else the   *)
(* basic table for this call), asks for the prices of the ids it finds,    *)
(* and names each coin of the answer by a symbol again.  Two awaited       *)
(* calls: the list and the prices.  clearSymbolCache,                      *)
(* forceRefreshSymbolCache and getCacheInfo have no caller.                *)
(***************************************************************************)
EXTENDS SequencesExt

CONSTANTS
  Symbol,       \* symbols, whatever their case: the table is keyed by toLowerCase()
  CoinId,       \* ids of coins
  NoCoin,       \* the table has no id for this symbol
  NoTable,      \* symbolCache is null
  Basic,        \* getBasicSymbolToIdMap: a function on the popular symbols
  Priority,     \* priorityIds
  Spelled,      \* Spelled[id] is the symbol that id.toUpperCase() reads as
  CoinList      \* what /coins/list may answer: sequences of coins, entries
                \* without an id or a symbol left out

Coin == [id : CoinId, symbol : Symbol]

Table == [Symbol -> CoinId \cup {NoCoin}]

Popular == DOMAIN Basic

(* The coins the basic table knows; getIdToSymbolMap is its inverse.       *)
WellKnown == {Basic[s] : s \in Popular}

ASSUME CoinAssumption ==
  /\ NoCoin \notin CoinId
  /\ NoTable \notin Table
  /\ Popular \subseteq Symbol /\ WellKnown \subseteq CoinId \cap Priority
  /\ \A id \in CoinId \ WellKnown : Spelled[id] \in Symbol
  /\ \A s, t \in Popular : Basic[s] = Basic[t] => s = t
  /\ CoinList \subseteq Seq(Coin) \ {<<>>}

(* The list has a coin once.  It names each popular coin by its popular    *)
(* symbol, and no other priority coin by that symbol.  Nothing in the code *)
(* enforces it.                                                            *)
ASSUME ListAssumption ==
  \A l \in CoinList, s \in Popular :
    /\ \A i, j \in DOMAIN l : l[i].id = l[j].id => i = j
    /\ \E i \in DOMAIN l : l[i] = [id |-> Basic[s], symbol |-> s]
    /\ \A i \in DOMAIN l : l[i].id \in Priority /\ l[i].symbol = s => l[i].id = Basic[s]

VARIABLES
  table,        \* symbolCache.data
  fresh,        \* symbolCache is younger than its ttl
  mapping,      \* symbolToIdMap of the getPrices under way
  gecko         \* where that getPrices stands

geckoVars == <<table, fresh, mapping, gecko>>

NoMapping == [s \in Symbol |-> NoCoin]

BasicTable == [s \in Symbol |-> IF s \in Popular THEN Basic[s] ELSE NoCoin]

(* Mutant: the two loops in the other order, the first come kept. *)
TableInListOrder(l) ==
  LET Keep(t, c) == IF t[c.symbol] = NoCoin THEN [t EXCEPT ![c.symbol] = c.id] ELSE t
  IN  FoldLeft(Keep, NoMapping, l)

(* refreshSymbolCache: first the priority coins, of which the last with a  *)
(* symbol keeps it, then the others where the symbol is still free.        *)
TableOf(l) ==
  LET Prefer(t, c) == IF c.id \in Priority THEN [t EXCEPT ![c.symbol] = c.id] ELSE t
      Fill(t, c) == IF t[c.symbol] = NoCoin THEN [t EXCEPT ![c.symbol] = c.id] ELSE t
  IN  FoldLeft(Fill, FoldLeft(Prefer, NoMapping, l), l)

(* What the list may make of the table. *)
Tables == {TableOf(l) : l \in CoinList}

(* Mutant: every id is spelled out. *)
SpelledOut(id) == Spelled[id]

(* The symbol an answer bears: getIdToSymbolMap()[id] || id.toUpperCase(). *)
NameOf(id) ==
  IF id \in WellKnown THEN CHOOSE s \in Popular : Basic[s] = id ELSE Spelled[id]

Ids(symbols) == {mapping[s] : s \in symbols} \ {NoCoin}

-------------------------------------------------------------------------------
(* The one instance that CryptoPriceProviderFactory makes and keeps.       *)
GeckoInit == table = NoTable /\ fresh = FALSE /\ mapping = NoMapping /\ gecko = "idle"

(* isCacheValid. *)
UseTable == /\ gecko = "idle" /\ fresh
            /\ mapping' = table /\ gecko' = "prices"
            /\ UNCHANGED <<table, fresh>>

AskList == /\ gecko = "idle" /\ ~fresh
           /\ gecko' = "list"
           /\ UNCHANGED <<table, fresh, mapping>>

ListArrives ==
  /\ gecko = "list"
  /\ table' \in Tables /\ fresh' = TRUE
  /\ mapping' = table' /\ gecko' = "prices"

(* Mutant: an expired table is used on, or none. *)
ListFailsEmpty ==
  /\ gecko = "list"
  /\ mapping' = IF table = NoTable THEN NoMapping ELSE table
  /\ gecko' = "prices" /\ UNCHANGED <<table, fresh>>

(* No list, or an empty one: the basic table, for this call only.  The     *)
(* expired table stays stored and unused.                                  *)
ListFails ==
  /\ gecko = "list"
  /\ mapping' = BasicTable /\ gecko' = "prices"
  /\ UNCHANGED <<table, fresh>>

(* getPrices returns; what it returns is PriceLookup's.                    *)
GeckoReturns == /\ gecko = "prices"
                /\ gecko' = "idle" /\ mapping' = NoMapping
                /\ UNCHANGED <<table, fresh>>

(* 24 hours have passed since the list arrived.                            *)
Expire == fresh /\ fresh' = FALSE /\ UNCHANGED <<table, mapping, gecko>>

GeckoRestart == table' = NoTable /\ fresh' = FALSE /\ mapping' = NoMapping /\ gecko' = "idle"

-------------------------------------------------------------------------------
GeckoTypeOK == /\ table \in Table \cup {NoTable}
               /\ fresh \in BOOLEAN
               /\ mapping \in Table
               /\ gecko \in {"idle", "list", "prices"}

(* The coin a list gives a symbol, in no loops: the last priority coin of  *)
(* that symbol, else the first coin of that symbol.                        *)
Preferred(l, s) ==
  LET bearers == {i \in DOMAIN l : l[i].symbol = s}
      popular == {i \in bearers : l[i].id \in Priority}
  IN  CASE popular # {} -> l[Max(popular)].id
        [] popular = {} /\ bearers # {} -> l[Min(bearers)].id
        [] OTHER -> NoCoin

PreferredTables == {[s \in Symbol |-> Preferred(l, s)] : l \in CoinList}

(* refreshSymbolCache's two loops give every symbol its preferred coin,    *)
(* whatever the order of the list.                                         *)
TableByPreference == table # NoTable => table \in PreferredTables

(* Whatever the list's order, whenever it expires or cannot be had, and    *)
(* across restarts, a call finds each popular symbol's own coin.           *)
PopularMapped ==
  gecko = "prices" => \A s \in Popular : mapping[s] = Basic[s]
===============================================================================
