\* Two requests in flight on the ledgers of two tokens of two users.
SPECIFICATION LedgerSpec
CONSTANTS
  u1 = u1
  u2 = u2
  t1 = t1
  t2 = t2
  b1 = b1
  b2 = b2
  b3 = b3
  r1 = r1
  r2 = r2
  NoRow = NoRow
  NoRequest = NoRequest
  User = {u1, u2}
  Token = {t1, t2}
  Owner <- TwoOwners
  Amount = {0, 7, 14}
  Doubles <- SomeDoubles
  Cells <- SomeCells
  BalanceId = {b1, b2, b3}
  Req = {r1, r2}
  Files <- SomeFiles
INVARIANT LedgerTypeOK
PROPERTIES OverdraftsExplained OwnLedgersOnly ImportAllOrNothing
