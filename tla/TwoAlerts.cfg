\* Two alerts, one request at a time against the job, with a crash or a failed write.
SPECIFICATION PipelineSpec
CONSTANTS
  u1 = u1
  u2 = u2
  a1 = a1
  a2 = a2
  r1 = r1
  r2 = r2
  btc = btc
  t1 = t1
  NoAlert = NoAlert
  NoRequest = NoRequest
  Absent = Absent
  NoToken = NoToken
  Unlisted = Unlisted
  User = {u1}
  AlertId = {a1, a2}
  Req = {r1}
  Symbol = {btc}
  Price = {2}
  Column <- ExactColumn
  Patches <- Turn
  Token = {t1}
  Quote = {2}
  ValidSymbol = {btc}
  MaxSymbols = 1
  MaxFaults = 1
INVARIANT NoDuplicateActiveAlerts
PROPERTIES ImplementsBook DueAlertsFire PassesEnd
