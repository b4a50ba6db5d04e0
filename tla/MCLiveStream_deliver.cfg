SPECIFICATION Spec
CONSTANTS
  a = a
  b = b
  third = third
  ann = ann
  Owner = {ann}
  OwnerOf <- Owns
  Screen = {a, b, third}
  MaxClients = 2
  MaxPerUser = 2
  TickMs = 1
  MaxQuietMs = 0
  KeepaliveMs = 0
  CacheTtl = 1
  MaxW = 2
  MaxO = 0
  MaxN = 0
  MaxFailures = 1
SYMMETRY Symmetric
INVARIANTS
  NotifiedScreensCurrent
CHECK_DEADLOCK FALSE
