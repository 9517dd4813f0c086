\* Two requests in flight, no PUT: the check of one misses the write of the other.
SPECIFICATION Spec
CONSTANTS
  u1 = u1
  u2 = u2
  a1 = a1
  a2 = a2
  r1 = r1
  r2 = r2
  btc = btc
  NoAlert = NoAlert
  NoRequest = NoRequest
  Absent = Absent
  User = {u1}
  AlertId = {a1, a2}
  Req = {r1, r2}
  Symbol = {btc}
  Price = {1}
  Column <- ExactColumn
  Patches <- NoPatches
INVARIANT NoDuplicateActiveAlerts
