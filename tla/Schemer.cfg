SPECIFICATION Spec
CONSTANTS
  me = me
  peer = peer
  other = other
  db = db
  events = events
  view = view
  all = all
  Me = me
  ShardPeers = {peer}
  OtherHosts = {other}
  Listed = {me, peer, other}
  ReplicasCount = 2
  Databases = {db}
  Tables = {events, view, all}
  DatabaseOf <- OneDatabase
  Sources <- ViewOnEvents
  Replicated = {events}
  Distributed = {all}
  LocalTable <- AllEvents
  MaxTries = 2
  MaxFaults = 2
INVARIANTS TypeOK SyncedHasShardTables SyncedHasDistributedTables
PROPERTIES UndisturbedCopySucceeds EventuallySynced
