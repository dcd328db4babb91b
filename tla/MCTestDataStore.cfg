SPECIFICATION StoreSpec
CONSTANTS
  u1 = u1
  u2 = u2
  Uploads = {u1, u2}
  g0 = g0
  g1 = g1
  g2 = g2
  Contents = {g0, g1, g2}
  in = in
  DataFiles = {in}
  n1 = n1
  Loads = {n1}
  MetadataFile = MetadataFile
  Remover = Remover
  NoLink = NoLink
  NoOne = NoOne
  MaxUploads = 3
  MaxOverlapping = 2
  MaxLoads = 1
  MaxCrashes = 1
  MayFail = TRUE
  MayDelete = TRUE
SYMMETRY StoreSymmetry
VIEW StoreView
INVARIANT StoreInv
PROPERTY UnreachableOnceDeleted
CHECK_DEADLOCK FALSE
