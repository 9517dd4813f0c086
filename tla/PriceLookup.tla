------------------------------ MODULE PriceLookup ------------------------------
(***************************************************************************)
(* A price request of the alert job, through CryptoPriceService to the     *)
(* three providers and their APIs: which prices come back, and under which *)
(* symbols.  A price stands for the coin it is the price of.               *)
(***************************************************************************)
EXTENDS CryptoPriceService, CoinGeckoProvider

CONSTANTS
  COINGECKO,     \* the provider that CoinGeckoProvider describes
  FREECRYPTOAPI, \* asked for prices by symbol
  COINMARKETCAP, \* asked for prices by a URL that leaves the symbols out
  Foreign,       \* the coin of a price that another provider gave
  Requests       \* bound: the sets of symbols that are asked for

ASSUME LookupAssumption ==
  /\ Provider = {COINGECKO, FREECRYPTOAPI, COINMARKETCAP}
  /\ FREECRYPTOAPI # COINGECKO /\ COINMARKETCAP # COINGECKO
  /\ Foreign \notin CoinId
  /\ Requests \subseteq SUBSET Symbol \ {{}}

(* An element of response.data, told by its symbol and by whose price it is. *)
Price == [symbol : Symbol, coin : CoinId \cup {Foreign}]

VARIABLES
  up,            \* [Provider -> BOOLEAN]: the API answers, and in the expected format
  request,       \* the symbols of the call under way
  data           \* response.data of the last call

lookupVars == <<serviceVars, geckoVars, up, request, data>>

LookupInit == /\ ServiceInit /\ GeckoInit
              /\ up \in [Provider -> BOOLEAN]
              /\ request = {} /\ data = {}

Ask(R) == /\ GetInstance
          /\ request' = R /\ data' = {}
          /\ UNCHANGED <<geckoVars, up>>

Probe(p) == ProbeReturns(p, up[p]) /\ UNCHANGED <<geckoVars, up, request, data>>

ServiceStep == OwnStep /\ UNCHANGED <<geckoVars, up, request, data>>

GeckoStep == /\ Asked(COINGECKO)
             /\ UseTable \/ AskList \/ ListArrives \/ ListFails
             /\ UNCHANGED <<serviceVars, up, request, data>>

Fails == Answers(FALSE) /\ UNCHANGED data

(* What getPrices makes of the API's answer about the ids in listed.       *)
Entries(listed) == {[symbol |-> NameOf(id), coin |-> id] : id \in listed}

(* No known id, HTTP error, timeout or an empty object: failure.           *)
GeckoAnswers ==
  /\ Asked(COINGECKO) /\ GeckoReturns
  /\ \/ ~up[COINGECKO] /\ Fails
     \/ /\ up[COINGECKO]
        /\ \E listed \in SUBSET Ids(request) :
             IF listed = {} THEN Fails
             ELSE Answers(TRUE) /\ data' = Entries(listed)
  /\ UNCHANGED <<up, request>>

(* A success even if the answer is empty.                                  *)
Quotes(p, symbols) ==
  /\ Asked(p)
  /\ \/ ~up[p] /\ Fails
     \/ /\ up[p] /\ Answers(TRUE)
        /\ \E S \in SUBSET symbols : data' = {[symbol |-> s, coin |-> Foreign] : s \in S}
  /\ UNCHANGED <<geckoVars, up, request>>

FreeCryptoAnswers == Quotes(FREECRYPTOAPI, request)

CoinMarketCapAnswers == Quotes(COINMARKETCAP, Symbol)

(* A price API goes down or comes back.                                    *)
Toggle(p) == /\ up' = [up EXCEPT ![p] = ~@]
             /\ UNCHANGED <<serviceVars, geckoVars, request, data>>

TableExpires == Expire /\ UNCHANGED <<serviceVars, up, request, data>>

RestartStep == /\ Restart /\ GeckoRestart
               /\ request' = {} /\ data' = {} /\ UNCHANGED up

CallStep == \/ \E R \in Requests : Ask(R)
            \/ \E p \in Provider : Probe(p)
            \/ ServiceStep \/ GeckoStep
            \/ GeckoAnswers \/ FreeCryptoAnswers \/ CoinMarketCapAnswers

LookupNext == CallStep \/ (\E p \in Provider : Toggle(p)) \/ TableExpires \/ RestartStep

(* The job keeps asking, and every network call returns or times out.      *)
LookupSpec == LookupInit /\ [][LookupNext]_lookupVars /\ WF_lookupVars(CallStep)

-------------------------------------------------------------------------------
LookupTypeOK == /\ ServiceTypeOK /\ GeckoTypeOK
                /\ up \in [Provider -> BOOLEAN]
                /\ request \in Requests \cup {{}}
                /\ data \subseteq Price
                /\ gecko # "idle" => Asked(COINGECKO)

(* What the runs' properties rest on: a stored table was made of a list,   *)
(* the table of a call under way of a list or of the basic table, and      *)
(* CoinGecko works on a call only while the service awaits it.             *)
LookupInv == /\ ServiceInv /\ LookupTypeOK
             /\ fresh => table # NoTable
             /\ table # NoTable => table \in Tables
             /\ gecko = "prices" => mapping \in Tables \cup {BasicTable}

(* The job takes the price under an alert's symbol for the price of the    *)
(* coin of that symbol (PriceAlertChecker.ts:74).  Of CoinGecko's answers  *)
(* that is true of a popular symbol, unless another coin was asked for     *)
(* whose id, in capitals, reads as that symbol (CoinGeckoProvider.ts:72);  *)
(* and a popular coin is answered under no other symbol.                   *)
PopularQuotes ==
  [][gecko = "prices" /\ answer' = "prices" =>
       \A e \in data' :
         /\ e.symbol \in Popular =>
              \/ e.coin = Basic[e.symbol] /\ e.symbol \in request
              \/ /\ Spelled[e.coin] = e.symbol
                 /\ \E t \in request \ {e.symbol} : mapping[t] = e.coin
         /\ \A s \in Popular : e.coin = Basic[s] => e.symbol = s]_lookupVars

(* While a fallback that the probe found stays up, calls go on giving      *)
(* prices, whatever the other providers and the coin list do.              *)
FallbackServes ==
  \A i \in 1..Len(Fallbacks) :
    LET p == Fallbacks[i]
    IN  <>[](up[p] /\ IsAvailable(p)) => []<>(pc = "idle" /\ answer = "prices")
===============================================================================
