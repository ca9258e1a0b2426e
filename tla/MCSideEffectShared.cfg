CONSTANTS
  a1 = a1
  a2 = a2
  p1 = p1
  p2 = p2
  r1 = r1
  r2 = r2
  i1 = i1
  i2 = i2
  Agents = {a1, a2}
  Procs = {p1, p2}
  ProcOf <- TwoProcesses
  Runs = {r1}
  Keys = {k1}
  Identities = {i1}
  RunIdPolicy = "shared"
  NoAgent = NoAgent
  NoRun = NoRun
  NoKey = NoKey
  NoIdentity = NoIdentity
  NoEntry = NoEntry
  NoLedger = NoLedger
SPECIFICATION Spec
INVARIANTS
  CompletedTookEffect
