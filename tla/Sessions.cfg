\* Three requests at once, two users, three seconds.
SPECIFICATION SessionsSpec
CONSTANTS
  e1 = e1
  e2 = e2
  u1 = u1
  u2 = u2
  r1 = r1
  r2 = r2
  r3 = r3
  NoUser = NoUser
  NoRequest = NoRequest
  NoToken = NoToken
  Email = {e1, e2}
  UserId = {u1, u2}
  Req = {r1, r2, r3}
  Lifetime = 2
  MaxSecond = 2
SYMMETRY Symmetric
INVARIANTS SessionsTypeOK SessionsBounded LastLoginStored RowsOutliveTokens
