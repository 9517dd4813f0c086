----------------------------- MODULE MCPriceLookup -----------------------------
(* The providers of cryptoPrice/config.ts and a few coins for TLC: the     *)
(* popular LINK, an imitation of it, LN, whose coin has the id "link" and  *)
(* an imitation too, and UNI, a priority coin outside the basic table.     *)
EXTENDS PriceLookup

ConfiguredFallbacks == <<FREECRYPTOAPI, COINMARKETCAP>>

Symbols == {"LINK", "LN", "UNI", "UNISWAP", "LINK-2", "LN-2"}

Listed == [chainlink |-> "LINK", link2 |-> "LINK", link |-> "LN", ln2 |-> "LN",
           uniswap |-> "UNI"]

Ids5 == DOMAIN Listed

Capitals == [chainlink |-> "CHAINLINK", link2 |-> "LINK-2", link |-> "LINK",
             ln2 |-> "LN-2", uniswap |-> "UNISWAP"]

BasicIds == [LINK |-> "chainlink"]

PriorityIds == {"chainlink", "uniswap"}

(* Every list that has chainlink, in every order.                          *)
Lists ==
  {[i \in DOMAIN l |-> [id |-> l[i], symbol |-> Listed[l[i]]]] :
     l \in {q \in SetToAllKPermutations(Ids5) : \E i \in DOMAIN q : q[i] = "chainlink"}}

AskedFor == {{"LINK", "LN"}, {"UNI"}}
==============================================================================
