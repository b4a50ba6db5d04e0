SPECIFICATION Spec
CONSTANTS
  a = a
  b = b
  third = third
  ann = ann
  Owner = {ann}
  OwnerOf <- Owns
  Screen = {a, b}
  MaxClients = 2
  MaxPerUser = 2
  TickMs = 1
  MaxQuietMs = 0
  KeepaliveMs = 0
  CacheTtl = 1
  MaxW = 1
  MaxO = 0
  MaxN = 0
  MaxFailures = 0
INVARIANTS
  LiveScreensCurrent
CHECK_DEADLOCK FALSE
