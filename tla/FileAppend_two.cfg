SPECIFICATION Spec
CONSTANTS
  Clients = {c1, c2}
  Inodes = {i1, i2, i3}
  NoInode = NoInode
  Nothing = Nothing
  BufferSize = 2
  InitialSize = 3
  MaxSize = 4
  Environments <- FaultyEnvironments
SYMMETRY Symmetry
INVARIANTS
  TypeOK
  AppendPathOwned
  CompleteFileKept
PROPERTIES
  AbandonedStays
  SnapshotAppend
