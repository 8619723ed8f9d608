------------------------------- MODULE Schemer -------------------------------
(***************************************************************************)
(* How one new replica gets its tables: CreateTablesForReplica with its    *)
(* queries on the other replicas and its lists of statements, and          *)
(* DeleteTablesForReplica when the replica is taken away. Beside them,     *)
(* users create tables and pods come and go at every moment.               *)
(***************************************************************************)
EXTENDS Integers, Sequences, FiniteSets, SequencesExt

CONSTANTS
  Me,            \* the new replica
  ShardPeers,    \* the other replicas of its shard
  OtherHosts,    \* the replicas of the other shards of the cluster
  Listed,        \* the replicas that the spec itself lists (di, not Normalized)
  ReplicasCount, \* Layout.ReplicasCount of that spec, 0 when it has none
  Databases, Tables,
  DatabaseOf,    \* the database of each table
  Sources,       \* the tables a view reads from
  Replicated,    \* tables with a Replicated engine, known to ZooKeeper
  Distributed,   \* tables with the engine Distributed
  LocalTable,    \* the table that a distributed one refers to
  MaxTries,      \* defaultMaxTries
  MaxFaults      \* bound: failed calls, lost pods and removals of the replica

Peers == ShardPeers \cup OtherHosts
Replicas == {Me} \cup Peers
Objects == Databases \cup Tables

NoSQL == "no SQL"

ASSUME SchemerConstants ==
  /\ Me \notin Peers /\ ShardPeers \cap OtherHosts = {}
  /\ Listed \subseteq Replicas
  /\ ReplicasCount \in Nat /\ MaxTries \in Nat \ {0} /\ MaxFaults \in Nat
  /\ Databases \cap Tables = {} /\ IsFiniteSet(Tables) /\ NoSQL \notin Objects
  /\ DatabaseOf \in [Tables -> Databases] /\ Sources \in [Tables -> SUBSET Tables]
  /\ Replicated \subseteq Tables /\ Distributed \subseteq Tables \ Replicated
  /\ LocalTable \in [Distributed -> Tables]

VARIABLES
  objects,   \* the databases and tables of each replica
  zooKeeper, \* the tables that ZooKeeper has a replica Me of
  up,        \* the replicas whose pod serves
  state,     \* status.state of Me
  faults,    \* bound: spent so far
  pc,        \* what the call does next
  normal,    \* the shard's replicas with phase Normal in the status it reads
  hosts,     \* the replicas asked for distributed objects
  sqls,      \* the objects its statements create or drop, NoSQL when blanked
  next,      \* index of the statement
  tries,     \* number of the try
  failed,    \* err1 or runErr is set
  seen,      \* history: what serving peers have had since the call began
  lost,      \* history: the lists of this call with rows missing, "shard" and "distributed"
  calm       \* history: nothing came between since the call began

world == <<objects, zooKeeper, up>>
call == <<normal, hosts, sqls, next, tries, failed>>
vars == <<world, state, faults, pc, call, seen, lost, calm>>

Needs(o) ==
  IF o \in Tables THEN {DatabaseOf[o]} \cup Sources[o] ELSE {}

Nothing == [p \in Peers |-> {}]

----------------------------------------------------------------------------
(* Queries *)

(* getCreateReplicaObjects: the peers are those the spec lists.            *)
ShardHosts ==
  IF ReplicasCount <= 1 THEN {} ELSE Listed \cap normal

(* Mutant: some host goes from the list, whichever it is.                  *)
WithoutSomeHost ==
  IF \A a, b \in Listed : a = b THEN {{}} ELSE {Listed \ {host} : host \in Listed}

(***************************************************************************)
(* getCreateDistributedObjects: all listed replicas of the cluster without *)
(* the new one. When it is not listed itself, hostIndex stays 0 and the    *)
(* first of the list goes; maps have no order.                             *)
(***************************************************************************)
DistributedHosts ==
  IF \A a, b \in Listed : a = b THEN {{}}
  ELSE IF Me \in Listed THEN {Listed \ {Me}}
  ELSE {Listed \ {host} : host \in Listed}

(* remote(...) with skip_unavailable_shards.                               *)
TablesOn(asked) ==
  {t \in Tables : \E h \in asked \cap up : t \in objects[h]}

(* Distributed tables, and the tables they refer to where these exist.     *)
LocalTablesOn(asked) ==
  {LocalTable[t] : t \in TablesOn(asked) \cap Distributed} \cap TablesOn(asked)

DistributedTablesOn(asked) ==
  LocalTablesOn(asked) \cup (TablesOn(asked) \cap Distributed)

DistributedDatabasesOn(asked) ==
  LET ts == TablesOn(asked) \cap Distributed
  IN {DatabaseOf[t] : t \in ts} \cup {DatabaseOf[LocalTable[t]] : t \in ts}

(* getObjectListFromClickHouse asks the listed replicas one by one, and Me *)
(* may be among them. Without any there is nothing, and no error.          *)
CanAnswer == Listed = {} \/ Listed \cap up # {}

Fault == faults < MaxFaults /\ faults' = faults + 1 /\ calm' = FALSE

(* A query can also time out everywhere.                                   *)
QueryFails ==
  /\ Listed # {}
  /\ \/ Listed \cap up = {} /\ UNCHANGED <<faults, calm>>
     \/ Fault

(***************************************************************************)
(* The rows of an answer, as they are read. A row that cannot be scanned   *)
(* is only logged, and an answer that ends early (the deadline, a lost     *)
(* connection) looks like its end, because nobody asks Rows.Err(): the     *)
(* list can be any part of the answer, and there is no error.              *)
(***************************************************************************)
Reads(answer, rows, list) ==
  \/ rows = answer /\ UNCHANGED <<lost, faults, calm>>
  \/ rows # answer /\ Fault /\ lost' = lost \cup {list}

----------------------------------------------------------------------------
(* CreateTablesForReplica *)

(* syncReplica calls it for a replica that is Ready and not Sync; the pod  *)
(* may be gone again by then. With no peers in the shard it goes on to the *)
(* distributed objects.                                                    *)
CreateTablesForReplica ==
  /\ pc = "idle" /\ state = "NotSync"
  /\ normal' \in SUBSET ShardPeers
  /\ pc' = IF ShardHosts' = {} THEN "distributed" ELSE "databases"
  /\ UNCHANGED <<hosts, sqls, next, tries, failed>>
  /\ seen' = [p \in Peers |-> IF p \in up THEN objects[p] ELSE {}]
  /\ lost' = {} /\ calm' = (Me \in up)
  /\ UNCHANGED <<world, state, faults>>

Start(sql) ==
  /\ sqls' = sql /\ next' = 1 /\ tries' = 1 /\ failed' = FALSE

(* The error ends the pass, and the replica stays NotSync.                 *)
GiveUp == pc' = "idle" /\ hosts' = {} /\ Start(<<>>)

(* sqlDBs of the shard. Its error is kept, and the second query still made. *)
FetchDatabases ==
  /\ pc = "databases" /\ pc' = "tables"
  /\ LET answer == {DatabaseOf[t] : t \in TablesOn(ShardHosts)} IN
     \/ /\ CanAnswer
        /\ \E rows \in SUBSET answer :
             sqls' \in SetToSeqs(rows) /\ Reads(answer, rows, "shard")
        /\ UNCHANGED failed
     \/ QueryFails /\ failed' = TRUE /\ UNCHANGED <<sqls, lost>>
  /\ UNCHANGED <<world, state, normal, hosts, next, tries, seen>>

(* sqlTables of the shard, in no order.                                    *)
FetchTables ==
  /\ pc = "tables"
  /\ \/ /\ CanAnswer /\ ~failed
        /\ \E rows \in SUBSET TablesOn(ShardHosts) :
             /\ \E ts \in SetToSeqs(rows) : sqls' = sqls \o ts
             /\ Reads(TablesOn(ShardHosts), rows, "shard")
        /\ pc' = "create"
        /\ UNCHANGED <<hosts, next, tries, failed>>
     \/ CanAnswer /\ failed /\ GiveUp /\ UNCHANGED <<lost, faults, calm>>
     \/ QueryFails /\ GiveUp /\ UNCHANGED lost
  /\ UNCHANGED <<world, state, normal, seen>>

(***************************************************************************)
(* Both queries of the distributed objects. Their errors are dropped: one  *)
(* that fails counts as one without rows. Without other hosts none is      *)
(* made. Local tables come first.                                          *)
(***************************************************************************)
FetchDistributedDatabases ==
  /\ pc = "distributed" /\ pc' = "distributed tables"
  /\ hosts' \in DistributedHosts
  /\ \/ /\ CanAnswer \/ hosts' = {}
        /\ \E rows \in SUBSET DistributedDatabasesOn(hosts') :
             /\ sqls' \in SetToSeqs(rows)
             /\ Reads(DistributedDatabasesOn(hosts'), rows, "distributed")
     \/ hosts' # {} /\ QueryFails /\ lost' = lost \cup {"distributed"} /\ sqls' = <<>>
  /\ UNCHANGED <<world, state, normal, next, tries, failed, seen>>

FetchDistributedTables ==
  /\ pc = "distributed tables" /\ pc' = "create distributed"
  /\ \/ /\ CanAnswer \/ hosts = {}
        /\ \E rows \in SUBSET DistributedTablesOn(hosts) :
             /\ \E locals \in SetToSeqs(rows \ Distributed),
                   ts \in SetToSeqs(rows \cap Distributed) :
                  sqls' = sqls \o locals \o ts
             /\ Reads(DistributedTablesOn(hosts), rows, "distributed")
     \/ hosts # {} /\ QueryFails /\ lost' = lost \cup {"distributed"} /\ UNCHANGED sqls
  /\ UNCHANGED <<world, state, normal, hosts, next, tries, failed, seen>>

Synced ==
  /\ pc' = "idle" /\ state' = "Sync" /\ hosts' = {} /\ Start(<<>>)

----------------------------------------------------------------------------
(* applySQLs *)

Dropping == pc = "drop"
Applying == pc \in {"create", "create distributed", "drop"}

(* CREATE ... IF NOT EXISTS as it is, with no second attempt.              *)
SucceedsWithoutAttach(o) ==
  o \in objects[Me] \/ (Needs(o) \subseteq objects[Me] /\ o \notin zooKeeper)

(***************************************************************************)
(* What the replica does with a statement (external): CREATE ... IF NOT    *)
(* EXISTS needs the database and the sources. A replicated table that      *)
(* ZooKeeper knows already (Code 253) is attached instead.                 *)
(***************************************************************************)
Succeeds(o) ==
  o \in objects[Me] \/ Needs(o) \subseteq objects[Me]

(* Mutant: the error of the try is that of its last statement.             *)
ExecSucceedsLast(o) ==
  /\ Me \in up /\ (Dropping \/ Succeeds(o))
  /\ IF Dropping
     THEN /\ objects' = [objects EXCEPT ![Me] = @ \ {o}]
          /\ zooKeeper' = zooKeeper \ {o}
     ELSE /\ objects' = [objects EXCEPT ![Me] = @ \cup {o}]
          /\ zooKeeper' = zooKeeper \cup ({o} \cap Replicated)
  /\ sqls' = [sqls EXCEPT ![next] = NoSQL] /\ failed' = FALSE
  /\ UNCHANGED <<faults, calm>>

ExecSucceeds(o) ==
  /\ Me \in up /\ (Dropping \/ Succeeds(o))
  /\ IF Dropping
     THEN /\ objects' = [objects EXCEPT ![Me] = @ \ {o}]
          /\ zooKeeper' = zooKeeper \ {o}
     ELSE /\ objects' = [objects EXCEPT ![Me] = @ \cup {o}]
          /\ zooKeeper' = zooKeeper \cup ({o} \cap Replicated)
  /\ sqls' = [sqls EXCEPT ![next] = NoSQL]
  /\ UNCHANGED <<failed, faults, calm>>

ExecFails(o) ==
  /\ \/ (Me \notin up \/ ~(Dropping \/ Succeeds(o))) /\ UNCHANGED <<faults, calm>>
     \/ Fault
  /\ failed' = TRUE
  /\ UNCHANGED <<objects, zooKeeper, sqls>>

(* One statement; one that succeeded in an earlier try is skipped.         *)
Exec ==
  /\ Applying /\ next <= Len(sqls)
  /\ IF sqls[next] = NoSQL
     THEN UNCHANGED <<objects, zooKeeper, sqls, failed, faults, calm>>
     ELSE ExecSucceeds(sqls[next]) \/ ExecFails(sqls[next])
  /\ next' = next + 1
  /\ UNCHANGED <<up, state, pc, normal, hosts, tries, seen, lost>>

(* Retry of creations; drops are tried once.                               *)
Tries == IF Dropping THEN 1 ELSE MaxTries

(* Mutants: one try too few, one too many.                                 *)
TryAgainOnceLess == tries < Tries - 1
TryAgainOnceMore == tries <= Tries

TryAgain == tries < Tries

EndOfTry ==
  /\ Applying /\ next > Len(sqls)
  /\ IF failed /\ TryAgain
     THEN /\ tries' = tries + 1 /\ next' = 1 /\ failed' = FALSE
          /\ UNCHANGED <<pc, hosts, sqls, state, objects, seen>>
     ELSE \/ /\ pc = "create" /\ ~failed /\ pc' = "distributed" /\ Start(<<>>)
             /\ UNCHANGED <<hosts, state, objects, seen>>
          \/ /\ pc = "create distributed" /\ ~failed /\ Synced
             /\ UNCHANGED <<objects, seen>>
          \/ /\ ~Dropping /\ failed /\ GiveUp
             /\ UNCHANGED <<state, objects, seen>>
          \/ /\ Dropping /\ GiveUp /\ state' = "NotSync" /\ seen' = Nothing
             /\ objects' = [objects EXCEPT ![Me] = {}]
  /\ UNCHANGED <<zooKeeper, up, faults, normal, lost, calm>>

(***************************************************************************)
(* DeleteTablesForReplica: its list holds the replicated tables of the     *)
(* rows that were read, none when the query fails. After the statements,   *)
(* failed or not, the replica goes with its volume, and one with its name  *)
(* is added again later (EndOfTry).                                        *)
(***************************************************************************)
DeleteTablesForReplica ==
  /\ pc = "idle" /\ Fault
  /\ pc' = "drop"
  /\ \E rows \in SUBSET (objects[Me] \cap Replicated) :
       (rows = {} \/ Me \in up) /\ \E sql \in SetToSeqs(rows) : Start(sql)
  /\ seen' = Nothing
  /\ UNCHANGED <<world, state, normal, hosts, lost>>

----------------------------------------------------------------------------
(* Status, pods and users *)

(* syncRepliaStatus makes the entry of a pod that is not ready NotSync.    *)
PodNotReady ==
  /\ pc = "idle" /\ state = "Sync" /\ Me \notin up
  /\ state' = "NotSync"
  /\ UNCHANGED <<world, faults, pc, call, seen, lost, calm>>

PodLost(r) ==
  /\ r \in up /\ Fault
  /\ up' = up \ {r}
  /\ seen' = [p \in Peers |-> IF p = r THEN {} ELSE seen[p]]
  /\ UNCHANGED <<objects, zooKeeper, state, pc, call, lost>>

PodReady(r) ==
  /\ r \notin up /\ up' = up \cup {r} /\ calm' = FALSE
  /\ UNCHANGED <<objects, zooKeeper, state, faults, pc, call, seen, lost>>

(* A user creates a table, with its database, on a peer.                   *)
CreateTable(p, t) ==
  /\ p \in up /\ t \notin objects[p] /\ Sources[t] \subseteq objects[p]
  /\ objects' = [objects EXCEPT ![p] = @ \cup {t, DatabaseOf[t]}]
  /\ calm' = FALSE
  /\ UNCHANGED <<zooKeeper, up, state, faults, pc, call, seen, lost>>

----------------------------------------------------------------------------
(* The specification *)

Init ==
  /\ objects = [r \in Replicas |-> {}] /\ zooKeeper = {} /\ up = Replicas
  /\ state = "NotSync" /\ faults = 0 /\ pc = "idle"
  /\ normal = {} /\ hosts = {} /\ sqls = <<>> /\ next = 1 /\ tries = 1 /\ failed = FALSE
  /\ seen = Nothing /\ lost = {} /\ calm = FALSE

Call ==
  \/ CreateTablesForReplica
  \/ FetchDatabases
  \/ FetchTables
  \/ FetchDistributedDatabases
  \/ FetchDistributedTables
  \/ Exec
  \/ EndOfTry
  \/ PodNotReady

(* A replica that is Sync needs nothing: the system may stop here.         *)
Rest == pc = "idle" /\ state = "Sync" /\ UNCHANGED vars

Next ==
  \/ Call
  \/ Rest
  \/ DeleteTablesForReplica
  \/ \E r \in Replicas : PodLost(r) \/ PodReady(r)
  \/ \E p \in Peers, t \in Tables : CreateTable(p, t)

Spec ==
  Init /\ [][Next]_vars /\ WF_vars(Call) /\ \A r \in Replicas : WF_vars(PodReady(r))

----------------------------------------------------------------------------
(* Properties *)

(* Every variable has its type, and no list is tried more than MaxTries times. *)
TypeOK ==
  /\ objects \in [Replicas -> SUBSET Objects] /\ zooKeeper \subseteq Replicated
  /\ up \subseteq Replicas /\ state \in {"NotSync", "Sync"}
  /\ faults \in 0..MaxFaults
  /\ pc \in {"idle", "databases", "tables", "create", "distributed",
             "distributed tables", "create distributed", "drop"}
  /\ normal \subseteq ShardPeers /\ hosts \subseteq Listed
  /\ sqls \in Seq(Objects \cup {NoSQL})
  /\ next \in Nat \ {0} /\ tries \in 1..MaxTries /\ failed \in BOOLEAN
  /\ seen \in [Peers -> SUBSET Objects] /\ lost \subseteq {"shard", "distributed"}
  /\ calm \in BOOLEAN

(***************************************************************************)
(* A replica that is Sync has every table that a Normal replica of its     *)
(* shard had when the copy began, if that replica has served since, unless *)
(* the list of them came with rows missing: statements that failed, tries  *)
(* that ran out and pods that went away in between never make it Sync      *)
(* without them (applySQLs, syncReplica).                                  *)
(***************************************************************************)
SyncedHasShardTables ==
  state = "Sync" /\ pc = "idle" /\ "shard" \notin lost =>
    \A p \in normal : seen[p] \subseteq objects[Me]

(***************************************************************************)
(* It also has the distributed tables of every replica of the cluster, and *)
(* the tables behind them, unless a query for them failed, whose error the *)
(* code drops, or was not read to the end (getCreateDistributedObjects).   *)
(***************************************************************************)
SyncedHasDistributedTables ==
  state = "Sync" /\ pc = "idle" /\ "distributed" \notin lost => \A p \in Peers :
    \A t \in seen[p] \cap Distributed :
      {t} \cup ({LocalTable[t]} \cap seen[p]) \subseteq objects[Me]

(***************************************************************************)
(* What the word Sync promises, with no exception: "Sync represent replica *)
(* has synced distributed views and tables", here those of the Normal      *)
(* replicas of the shard and the distributed ones of the cluster. The code *)
(* takes what it could read of a list for all of it                        *)
(* (getObjectListFromClickHouse).                                          *)
(***************************************************************************)
SyncIsComplete ==
  state = "Sync" /\ pc = "idle" =>
    /\ \A p \in normal : seen[p] \subseteq objects[Me]
    /\ \A p \in Peers : seen[p] \cap Distributed \subseteq objects[Me]

(***************************************************************************)
(* A copy that nothing disturbs does not fail: whatever the order of the   *)
(* statements, the retries get through views that come before the tables   *)
(* they read ("until all SQLs succeed", applySQLs).                        *)
(***************************************************************************)
UndisturbedCopySucceeds ==
  [][calm /\ calm' /\ pc # "idle" /\ pc' = "idle" => state' = "Sync"]_vars

(***************************************************************************)
(* Once pods stay up and users rest, the replica becomes Sync and stays    *)
(* it, also when it is a new one under a name that ZooKeeper still knows,  *)
(* because the drop of its tables failed (Code 253).                       *)
(***************************************************************************)
EventuallySynced == <>[](state = "Sync" /\ pc = "idle")
=============================================================================
