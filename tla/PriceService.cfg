\* The three configured providers, going down and coming back at any time, and any coin list.
SPECIFICATION LookupSpec
CONSTANTS
  COINGECKO = COINGECKO
  FREECRYPTOAPI = FREECRYPTOAPI
  COINMARKETCAP = COINMARKETCAP
  NoCoin = NoCoin
  NoTable = NoTable
  Foreign = Foreign
  Provider = {COINGECKO, FREECRYPTOAPI, COINMARKETCAP}
  Default = COINGECKO
  Fallbacks <- ConfiguredFallbacks
  Symbol <- Symbols
  CoinId <- Ids5
  Basic <- BasicIds
  Priority <- PriorityIds
  Spelled <- Capitals
  CoinList <- Lists
  Requests <- AskedFor
INVARIANTS LookupTypeOK CurrentIsAvailable TableByPreference PopularMapped
PROPERTIES FailureIsThorough PopularQuotes FallbackServes
