SPECIFICATION FairSpec
CONSTANTS
  a = a
  b = b
  third = third
  ann = ann
  Owner = {ann}
  OwnerOf <- Owns
  Screen = {a}
  MaxClients = 2
  MaxPerUser = 2
  TickMs = 2
  MaxQuietMs = 4
  KeepaliveMs = 3
  CacheTtl = 2
  MaxW = 0
  MaxO = 1
  MaxN = 1
  MaxFailures = 1
PROPERTIES
  NameChangesTimely
  NoTickLeavesQuiet
  ScreensCatchUp
CHECK_DEADLOCK FALSE
