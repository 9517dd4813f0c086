\* One alert names a symbol the price service refuses.
SPECIFICATION CheckerSpec
CONSTANTS
  u1 = u1
  u2 = u2
  a1 = a1
  a2 = a2
  btc = btc
  btc_usd = btc_usd
  t1 = t1
  NoAlert = NoAlert
  NoToken = NoToken
  Unlisted = Unlisted
  User = {u1}
  AlertId = {a1, a2}
  Symbol = {btc, btc_usd}
  Price = {2}
  Column <- ExactColumn
  Token = {t1}
  Quote = {1, 2}
  ValidSymbol = {btc}
  MaxSymbols = 2
  MaxFaults = 0
PROPERTY DueAlertsFire
