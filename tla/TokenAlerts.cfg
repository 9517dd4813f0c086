\* Two requests in flight: every interleaving of the handlers' calls.
SPECIFICATION Spec
CONSTANTS
  u1 = u1
  u2 = u2
  a1 = a1
  a2 = a2
  r1 = r1
  r2 = r2
  btc = btc
  NoAlert = NoAlert
  NoRequest = NoRequest
  Absent = Absent
  User = {u1, u2}
  AlertId = {a1, a2}
  Req = {r1, r2}
  Symbol = {btc}
  Price = {10, 11}
  Column <- TensColumn
  Patches <- AllPatches
SYMMETRY Symmetric
INVARIANTS TypeOK DuplicateNeedsUncheckedWrite DuplicateInv
PROPERTIES ChangesByHolders NoResurrection ImplementsBook
