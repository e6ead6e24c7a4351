SPECIFICATION Spec
CONSTANTS
  user = user
  listener = listener
  u1 = u1
  u2 = u2
  i1 = i1
  i2 = i2
  blank = blank
  Procs <- MCProcs
  Listeners = {listener}
  Users <- MCUsers
  Nobody = nobody
  Values = {default, blank}
  Default = default
  WithSdk <- MCWithSdk
  Workspaces <- MCWorkspaces
  Absent = absent
  Partial = partial
  Unknown = unknown
  Items <- MCItems
  Keys = {key}
  None = none
  Depth = 2
  MaxCommands = 2
  MaxRequests = 3
  MaxMixed = 2
SYMMETRY Symmetry
INVARIANTS OneIdentity AccountKept SettingsKept ListedStored UpdatesKept SignaturesCounted
