SPECIFICATION FairSpec
CONSTANTS
  Clients = {c1}
  Inodes = {i1, i2}
  NoInode = NoInode
  Nothing = Nothing
  BufferSize = 2
  InitialSize = 5
  MaxSize = 7
  Environments <- EveryEnvironment
PROPERTIES
  BytesKept
  CallsReturn
  CallsSucceed
