\* An import of a buy and a sell.
SPECIFICATION LedgerSpec
CONSTANTS
  u1 = u1
  u2 = u2
  t1 = t1
  t2 = t2
  b1 = b1
  b2 = b2
  b3 = b3
  r1 = r1
  r2 = r2
  NoRow = NoRow
  NoRequest = NoRequest
  User = {u1}
  Token = {t1}
  Owner <- OneOwner
  Amount = {0, 7, 14}
  Doubles <- SomeDoubles
  Cells <- SomeCells
  BalanceId = {b1, b2}
  Req = {r1}
  Files <- SomeFiles
INVARIANT BalanceIsBoughtLessSold
