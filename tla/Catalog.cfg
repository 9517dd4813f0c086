\* Two requests in flight on the categories and tokens of two users.
SPECIFICATION CatalogSpec
CONSTANTS
  u1 = u1
  u2 = u2
  c1 = c1
  c2 = c2
  t1 = t1
  t2 = t2
  n1 = n1
  btc = btc
  r1 = r1
  r2 = r2
  Blank = Blank
  NoRow = NoRow
  NoRequest = NoRequest
  Absent = Absent
  User = {u1, u2}
  CategoryId = {c1, c2}
  TokenId = {t1, t2}
  Name = {n1}
  Symbol = {btc}
  Req = {r1, r2}
  Patches <- SomePatches
  TokenFiles <- SomeTokenFiles
  CategoryFiles <- SomeCategoryFiles
SYMMETRY Symmetric
INVARIANTS CatalogTypeOK SameSymbolExplained StraysExplained
PROPERTIES TokensChangeByHolders ImportUpserts
