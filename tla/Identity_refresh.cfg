SPECIFICATION Spec
CONSTANTS
  p1 = p1
  p2 = p2
  r1 = r1
  r2 = r2
  r3 = r3
  r4 = r4
  t1 = t1
  t2 = t2
  c1 = c1
  c2 = c2
  c3 = c3
  owner = owner
  None = None
  root = root
  ann = ann
  bob = bob
  Procs = {p1, p2}
  Requests = {r1, r2, r3, r4}
  Owner = owner
  Names = {root, ann, bob}
  AdminName = root
  KindsOf <- MCKindsOf
  BodiesOf <- MCBodiesOf
  HasKey = TRUE
  Tabs = {t1, t2}
  Calls = {c1, c2, c3}
  TabOf <- MCTabOf
  CallKinds <- MCCallKinds
  AccessLife = 1
  RefreshLife = 2
  Fallback = 1
  MaxTime = 3
  MaxTokens = 5
  Starts <- MCBrowser
  MaxDrops = 0
INVARIANTS ExchangedOnce
CHECK_DEADLOCK FALSE
