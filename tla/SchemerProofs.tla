---------------------------- MODULE SchemerProofs ----------------------------
(***************************************************************************)
(* Proofs about Schemer, for any replicas, tables and dependencies, any    *)
(* number of tries and of faults.                                          *)
(***************************************************************************)
EXTENDS Schemer, FiniteSetTheorems, SequenceTheorems, TLAPS

USE DEF Peers, Replicas, Objects

----------------------------------------------------------------------------
(* Lists of statements *)

(* SetToSeqs lists every member of a finite set, and nothing else.         *)
LEMMA ListOfSet ==
  ASSUME NEW S, IsFiniteSet(S), NEW s \in SetToSeqs(S)
  PROVE  s \in Seq(S) /\ Range(s) = S
<1> DEFINE n == Cardinality(S)
<1>1. n \in Nat
  BY FS_CardinalityType
<1>2. s \in [1..n -> S] /\ \A i, j \in 1..n : i # j => s[i] # s[j]
  BY Zenon DEF SetToSeqs
<1>3. s \in Injection(1..n, S)
  BY <1>2 DEF Injection, IsInjective
<1>4. Cardinality(1..n) = n
  BY <1>1, FS_Interval
<1>5. s \in Surjection(1..n, S)
  BY <1>3, <1>4, FS_Injection
<1>6. \A x \in S : \E i \in 1..n : s[i] = x
  BY <1>5 DEF Surjection
<1>7. s \in Seq(S) /\ DOMAIN s = 1..n
  BY <1>1, <1>2
<1> QED BY <1>2, <1>6, <1>7 DEF Range

(* The sets of tables and databases that are listed are finite.            *)
LEMMA TablesAreFinite ==
  /\ \A S \in SUBSET Tables : IsFiniteSet(S)
  /\ \A S \in SUBSET Tables : IsFiniteSet({DatabaseOf[t] : t \in S})
<1>1. \A S \in SUBSET Tables : IsFiniteSet(S)
  BY SchemerConstants, FS_Subset
<1>2. ASSUME NEW S \in SUBSET Tables
      PROVE  IsFiniteSet({DatabaseOf[t] : t \in S})
  <2> DEFINE D == {DatabaseOf[t] : t \in S}
  <2>1. IsFiniteSet(S)
    BY <1>1
  <2>2. [t \in S |-> DatabaseOf[t]] \in Surjection(S, D)
    BY DEF Surjection
  <2> QED BY <2>1, <2>2, FS_Surjection
<1> QED BY <1>1, <1>2

(* The lists that queries return are lists of objects.                     *)
LEMMA ListTypes ==
  /\ \A S \in SUBSET Tables : SetToSeqs(S) \subseteq Seq(Objects \cup {NoSQL})
  /\ \A S \in SUBSET Tables :
       SetToSeqs({DatabaseOf[t] : t \in S}) \subseteq Seq(Objects \cup {NoSQL})
<1>1. ASSUME NEW S \in SUBSET Objects, IsFiniteSet(S), NEW s \in SetToSeqs(S)
      PROVE  s \in Seq(Objects \cup {NoSQL})
  BY <1>1, ListOfSet
<1>2. ASSUME NEW S \in SUBSET Tables
      PROVE  {DatabaseOf[t] : t \in S} \subseteq Objects
  BY SchemerConstants
<1> QED BY <1>1, <1>2, TablesAreFinite

(* A part of the databases of some tables are the databases of some tables. *)
LEMMA SomeDatabases ==
  ASSUME NEW S \in SUBSET Tables, NEW rows \in SUBSET {DatabaseOf[t] : t \in S}
  PROVE  \E T \in SUBSET Tables : rows = {DatabaseOf[t] : t \in T}
<1> DEFINE T == {t \in S : DatabaseOf[t] \in rows}
<1>1. T \in SUBSET Tables /\ rows = {DatabaseOf[t] : t \in T}
  OBVIOUS
<1> QED BY <1>1

(* What a query finds consists of tables, or of the databases of tables.   *)
LEMMA QueryTypes ==
  ASSUME NEW asked
  PROVE  /\ TablesOn(asked) \subseteq Tables /\ LocalTablesOn(asked) \subseteq Tables
         /\ \E S \in SUBSET Tables :
              DistributedDatabasesOn(asked) = {DatabaseOf[t] : t \in S}
<1> DEFINE D == TablesOn(asked) \cap Distributed
           S == D \cup {LocalTable[t] : t \in D}
<1>1. TablesOn(asked) \subseteq Tables
  BY DEF TablesOn
<1>2. S \subseteq Tables
  BY <1>1, SchemerConstants
<1>3. DistributedDatabasesOn(asked) = {DatabaseOf[t] : t \in S}
  BY DEF DistributedDatabasesOn
<1> QED BY <1>1, <1>2, <1>3 DEF LocalTablesOn

(* The distributed tables an answer lists, and those it lists before them. *)
LEMMA DistributedAnswer ==
  ASSUME NEW asked
  PROVE  /\ DistributedTablesOn(asked) \in SUBSET Tables
         /\ DistributedTablesOn(asked) \ Distributed = LocalTablesOn(asked) \ Distributed
         /\ DistributedTablesOn(asked) \cap Distributed = TablesOn(asked) \cap Distributed
<1>1. LocalTablesOn(asked) \subseteq TablesOn(asked) /\ TablesOn(asked) \subseteq Tables
  BY QueryTypes DEF LocalTablesOn
<1> QED BY <1>1 DEF DistributedTablesOn

(* Nothing is missing from what was read unless the call knows of it.      *)
LEMMA AllIsRead ==
  ASSUME NEW answer, NEW rows, NEW list, Reads(answer, rows, list),
         calm' \/ list \notin lost'
  PROVE  rows = answer /\ lost' = lost
<1>1. CASE rows = answer
  BY Zenon, <1>1 DEF Reads
<1>2. CASE rows # answer
  <2>1. calm' = FALSE /\ lost' = lost \cup {list}
    BY Zenon, <1>2 DEF Reads, Fault
  <2>2. list \in lost'
    BY <2>1
  <2> QED BY Zenon, <2>1, <2>2
<1> QED BY <1>1, <1>2

----------------------------------------------------------------------------
(* Types *)

(* The flags of a call, which Zenon is better at than SMT.                 *)
FlagsOK ==
  failed \in BOOLEAN /\ lost \subseteq {"shard", "distributed"} /\ calm \in BOOLEAN

(* What is missing from the lists of a call is noted until the next call.  *)
LEMMA LostStep ==
  ASSUME lost \subseteq {"shard", "distributed"}, [Next]_vars
  PROVE  lost' \subseteq {"shard", "distributed"}
<1>1. \/ lost' = lost \/ lost' = {}
      \/ lost' = lost \cup {"shard"} \/ lost' = lost \cup {"distributed"}
  BY Zenon DEF Next, Call, Rest, CreateTablesForReplica, FetchDatabases, FetchTables,
     FetchDistributedDatabases, FetchDistributedTables, Reads, Exec, EndOfTry, PodNotReady,
     DeleteTablesForReplica, PodLost, PodReady, CreateTable, vars
<1> QED BY <1>1

(* Every step keeps the flags' type.                                       *)
LEMMA FlagsStep == FlagsOK /\ [Next]_vars => FlagsOK'
<1> SUFFICES ASSUME FlagsOK, [Next]_vars PROVE FlagsOK'
  OBVIOUS
<1> USE DEF FlagsOK
<1>0. lost' \subseteq {"shard", "distributed"}
  BY Zenon, LostStep
<1>1. CASE CreateTablesForReplica
  <2>1. calm' \in BOOLEAN
    BY SMT, <1>1 DEF CreateTablesForReplica
  <2> QED BY Zenon, <1>0, <1>1, <2>1 DEF CreateTablesForReplica
<1>2. CASE FetchDatabases
  BY Zenon, <1>0, <1>2 DEF FetchDatabases, QueryFails, Reads, Fault
<1>3. CASE FetchTables
  BY Zenon, <1>0, <1>3 DEF FetchTables, QueryFails, Reads, Fault, GiveUp, Start
<1>4. CASE FetchDistributedDatabases
  BY Zenon, <1>0, <1>4 DEF FetchDistributedDatabases, QueryFails, Reads, Fault
<1>5. CASE FetchDistributedTables
  BY Zenon, <1>0, <1>5 DEF FetchDistributedTables, QueryFails, Reads, Fault
<1>6. CASE Exec
  BY Zenon, <1>0, <1>6 DEF Exec, ExecSucceeds, ExecFails, Fault
<1>7. CASE EndOfTry
  BY Zenon, <1>0, <1>7 DEF EndOfTry, Synced, GiveUp, Start
<1>8. CASE PodNotReady
  BY Zenon, <1>0, <1>8 DEF PodNotReady, call
<1>9. CASE DeleteTablesForReplica
  BY Zenon, <1>0, <1>9 DEF DeleteTablesForReplica, Start, Fault
<1>10. ASSUME NEW r, PodLost(r) \/ PodReady(r) PROVE FlagsOK'
  BY Zenon, <1>0, <1>10 DEF PodLost, PodReady, call, Fault
<1>11. ASSUME NEW p, NEW t, CreateTable(p, t) PROVE FlagsOK'
  BY Zenon, <1>0, <1>11 DEF CreateTable, call
<1>12. CASE UNCHANGED vars
  BY Zenon, <1>0, <1>12 DEF vars, call
<1> QED
  BY <1>1, <1>2, <1>3, <1>4, <1>5, <1>6, <1>7, <1>8, <1>9, <1>10, <1>11, <1>12
  DEF Next, Call, Rest

(* All of TypeOK but the flags.                                            *)
DataOK ==
  /\ objects \in [Replicas -> SUBSET Objects] /\ zooKeeper \subseteq Replicated
  /\ up \subseteq Replicas /\ state \in {"NotSync", "Sync"}
  /\ faults \in 0..MaxFaults
  /\ pc \in {"idle", "databases", "tables", "create", "distributed",
             "distributed tables", "create distributed", "drop"}
  /\ normal \subseteq ShardPeers /\ hosts \subseteq Listed
  /\ sqls \in Seq(Objects \cup {NoSQL})
  /\ next \in Nat \ {0} /\ tries \in 1..MaxTries
  /\ seen \in [Peers -> SUBSET Objects]

(* The parts make up TypeOK.                                               *)
LEMMA TypeParts == TypeOK <=> DataOK /\ FlagsOK
BY Zenon DEF TypeOK, DataOK, FlagsOK

(* The initial state has the types.                                        *)
LEMMA TypeInit == Init => TypeOK
<1> SUFFICES ASSUME Init PROVE DataOK /\ FlagsOK
  BY TypeParts
<1>1. Nothing \in [Peers -> SUBSET Objects]
  BY DEF Nothing
<1>2. objects \in [Replicas -> SUBSET Objects]
  BY DEF Init
<1>3. FlagsOK
  BY Zenon DEF Init, FlagsOK
<1>4. <<>> \in Seq(Objects \cup {NoSQL})
  OBVIOUS
<1>5. sqls = <<>> /\ next = 1 /\ tries = 1 /\ faults = 0 /\ hosts = {} /\ normal = {}
  BY Zenon DEF Init
<1>6. state = "NotSync" /\ pc = "idle" /\ up = Replicas /\ zooKeeper = {} /\ seen = Nothing
  BY Zenon DEF Init
<1> QED BY <1>1, <1>2, <1>3, <1>4, <1>5, <1>6, SchemerConstants DEF DataOK

(* The bound of the faults.                                                *)
LEMMA QueryFailsType ==
  ASSUME DataOK, QueryFails \/ (\E answer, rows, list : Reads(answer, rows, list))
  PROVE  faults' \in 0..MaxFaults
<1>1. faults' = faults \/ (faults < MaxFaults /\ faults' = faults + 1)
  BY Zenon DEF QueryFails, Reads, Fault
<1>2. faults \in 0..MaxFaults /\ MaxFaults \in Nat
  BY SchemerConstants DEF DataOK
<1> QED BY <1>1, <1>2

(* A list that is begun anew has the types.                                *)
LEMMA StartType ==
  ASSUME NEW sql \in Seq(Objects \cup {NoSQL}), Start(sql)
  PROVE  /\ sqls' \in Seq(Objects \cup {NoSQL})
         /\ next' \in Nat \ {0} /\ tries' \in 1..MaxTries
BY SchemerConstants DEF Start

(* The steps of queries keep the types.                                    *)
LEMMA QueryTypeStep ==
  ASSUME DataOK,
         FetchDatabases \/ FetchTables \/ FetchDistributedDatabases
           \/ FetchDistributedTables
  PROVE  DataOK'
<1> DEFINE List == Seq(Objects \cup {NoSQL})
<1>0. sqls \in List
  BY Zenon DEF DataOK
<1>1. <<>> \in List /\ sqls \in List
  BY <1>0
<1>2. \A s, t \in List : s \o t \in List
  OBVIOUS
<1>3. \A asked : TablesOn(asked) \in SUBSET Tables /\ LocalTablesOn(asked) \in SUBSET Tables
  BY QueryTypes
<1> HIDE DEF List
<1>4. CASE FetchDatabases
  <2>1. sqls' \in List
    <3>1. CASE UNCHANGED sqls
      BY <1>1, <3>1
    <3>2. ASSUME NEW rows \in SUBSET {DatabaseOf[t] : t \in TablesOn(ShardHosts)},
                 sqls' \in SetToSeqs(rows)
          PROVE  sqls' \in List
      <4>1. TablesOn(ShardHosts) \in SUBSET Tables
        BY <1>3
      <4>2. PICK T \in SUBSET Tables : rows = {DatabaseOf[t] : t \in T}
        BY Zenon, <4>1, SomeDatabases
      <4> QED BY <3>2, <4>2, ListTypes DEF List
    <3> QED BY Zenon, <1>4, <3>1, <3>2 DEF FetchDatabases
  <2>2. faults' \in 0..MaxFaults
    <3>1. faults' = faults \/ QueryFails
          \/ \E answer, rows, list : Reads(answer, rows, list)
      BY Zenon, <1>4 DEF FetchDatabases
    <3> QED BY <3>1, QueryFailsType DEF DataOK
  <2> QED BY <1>4, <2>1, <2>2 DEF FetchDatabases, world, DataOK, List
<1>5. CASE FetchTables
  <2>1. sqls' \in List /\ next' \in Nat \ {0} /\ tries' \in 1..MaxTries
    <3>1. CASE GiveUp
      BY <1>1, <3>1, StartType DEF GiveUp, List
    <3>2. ASSUME UNCHANGED <<next, tries>>, NEW rows \in SUBSET TablesOn(ShardHosts),
                 NEW ts \in SetToSeqs(rows), sqls' = sqls \o ts
          PROVE  sqls' \in List /\ next' \in Nat \ {0} /\ tries' \in 1..MaxTries
      <4>1. rows \in SUBSET Tables
        BY <1>3
      <4>2. ts \in List
        BY <4>1, ListTypes DEF List
      <4> QED BY <1>1, <1>2, <3>2, <4>2 DEF DataOK
    <3> QED BY Zenon, <1>5, <3>1, <3>2 DEF FetchTables
  <2>2. faults' \in 0..MaxFaults /\ pc' \in {"idle", "create"} /\ hosts' \subseteq Listed
    <3>1. faults' = faults \/ QueryFails
          \/ \E answer, rows, list : Reads(answer, rows, list)
      BY Zenon, <1>5 DEF FetchTables
    <3>2. (pc' = "idle" /\ hosts' = {}) \/ (pc' = "create" /\ hosts' = hosts)
      BY Zenon, <1>5 DEF FetchTables, GiveUp
    <3> QED BY <3>1, <3>2, QueryFailsType DEF DataOK
  <2> QED BY <1>5, <2>1, <2>2 DEF FetchTables, world, DataOK, List
<1>6. CASE FetchDistributedDatabases
  <2>1. sqls' \in List
    <3>1. CASE sqls' = <<>>
      BY <1>1, <3>1
    <3>2. ASSUME NEW rows \in SUBSET DistributedDatabasesOn(hosts'),
                 sqls' \in SetToSeqs(rows)
          PROVE  sqls' \in List
      <4>1. PICK S \in SUBSET Tables :
              DistributedDatabasesOn(hosts') = {DatabaseOf[t] : t \in S}
        BY QueryTypes
      <4>2. rows \in SUBSET {DatabaseOf[t] : t \in S}
        BY Zenon, <4>1
      <4>3. PICK T \in SUBSET Tables : rows = {DatabaseOf[t] : t \in T}
        BY Zenon, <4>2, SomeDatabases
      <4> QED BY <3>2, <4>3, ListTypes DEF List
    <3> QED BY Zenon, <1>6, <3>1, <3>2 DEF FetchDistributedDatabases
  <2>2. faults' \in 0..MaxFaults /\ hosts' \subseteq Listed
    <3>1. faults' = faults \/ QueryFails
          \/ \E answer, rows, list : Reads(answer, rows, list)
      BY Zenon, <1>6 DEF FetchDistributedDatabases
    <3>2. hosts' \in DistributedHosts
      BY Zenon, <1>6 DEF FetchDistributedDatabases
    <3> QED BY <3>1, <3>2, QueryFailsType DEF DataOK, DistributedHosts
  <2> QED BY <1>6, <2>1, <2>2 DEF FetchDistributedDatabases, world, DataOK, List
<1>7. CASE FetchDistributedTables
  <2>1. sqls' \in List
    <3>1. CASE UNCHANGED sqls
      BY <1>1, <3>1
    <3>2. ASSUME NEW rows \in SUBSET DistributedTablesOn(hosts),
                 NEW locals \in SetToSeqs(rows \ Distributed),
                 NEW ts \in SetToSeqs(rows \cap Distributed),
                 sqls' = sqls \o locals \o ts
          PROVE  sqls' \in List
      <4>0. rows \in SUBSET Tables
        BY DistributedAnswer
      <4>1. locals \in List /\ ts \in List
        BY <4>0, ListTypes DEF List
      <4> QED BY <1>1, <1>2, <3>2, <4>1
    <3> QED BY Zenon, <1>7, <3>1, <3>2 DEF FetchDistributedTables
  <2>2. faults' \in 0..MaxFaults
    <3>1. faults' = faults \/ QueryFails
          \/ \E answer, rows, list : Reads(answer, rows, list)
      BY Zenon, <1>7 DEF FetchDistributedTables
    <3> QED BY <3>1, QueryFailsType DEF DataOK
  <2> QED BY <1>7, <2>1, <2>2 DEF FetchDistributedTables, world, DataOK, List
<1> QED BY <1>4, <1>5, <1>6, <1>7

(* The steps of applySQLs keep the types.                                  *)
LEMMA ExecTypeStep == ASSUME DataOK, Exec PROVE DataOK'
<1> DEFINE List == Seq(Objects \cup {NoSQL})
<1>0. sqls \in List /\ next \in Nat \ {0} /\ objects \in [Replicas -> SUBSET Objects]
  BY Zenon DEF DataOK
<1>1. next \in 1..Len(sqls)
  BY <1>0 DEF Exec
<1>2. sqls[next] \in Objects \cup {NoSQL}
  BY <1>0, <1>1
<1>3. sqls[next] # NoSQL => sqls[next] \in Objects
  BY <1>2
<1>4. faults' \in 0..MaxFaults
  <2>1. faults' = faults \/ (faults < MaxFaults /\ faults' = faults + 1)
    BY Zenon DEF Exec, ExecSucceeds, ExecFails, Fault
  <2>2. faults \in 0..MaxFaults /\ MaxFaults \in Nat
    BY SchemerConstants DEF DataOK
  <2> QED BY <2>1, <2>2
<1>5. sqls' \in List
  <2>1. sqls' = sqls \/ sqls' = [sqls EXCEPT ![next] = NoSQL]
    BY Zenon DEF Exec, ExecSucceeds, ExecFails
  <2> QED BY <1>0, <1>1, <2>1
<1>6. objects' \in [Replicas -> SUBSET Objects] /\ zooKeeper' \subseteq Replicated
  <2>1. CASE UNCHANGED <<objects, zooKeeper>>
    BY <2>1 DEF DataOK
  <2>2. CASE sqls[next] # NoSQL /\ ExecSucceeds(sqls[next])
    <3> DEFINE o == sqls[next]
    <3>1. \/ objects' = [objects EXCEPT ![Me] = @ \ {o}] /\ zooKeeper' = zooKeeper \ {o}
          \/ objects' = [objects EXCEPT ![Me] = @ \cup {o}]
             /\ zooKeeper' = zooKeeper \cup ({o} \cap Replicated)
      BY Zenon, <2>2 DEF ExecSucceeds
    <3>2. o \in Objects /\ zooKeeper \subseteq Replicated
      BY <1>3, <2>2 DEF DataOK
    <3> HIDE DEF o
    <3> QED BY <1>0, <3>1, <3>2
  <2> QED BY <2>1, <2>2 DEF Exec, ExecFails
<1>7. next' \in Nat \ {0}
  BY <1>0 DEF Exec
<1>8. UNCHANGED <<up, state, pc, normal, hosts, tries, seen>>
  BY Zenon DEF Exec
<1> QED BY <1>4, <1>5, <1>6, <1>7, <1>8, Zenon DEF DataOK

(* So does the end of a try.                                               *)
LEMMA EndOfTryTypeStep == ASSUME DataOK, EndOfTry PROVE DataOK'
<1>1. <<>> \in Seq(Objects \cup {NoSQL})
  OBVIOUS
<1>2. CASE failed /\ TryAgain
  <2>1. tries' = tries + 1 /\ next' = 1 /\ UNCHANGED <<pc, hosts, sqls, state, objects, seen>>
    BY Zenon, <1>2 DEF EndOfTry
  <2>2. tries' \in 1..MaxTries /\ next' \in Nat \ {0}
    <3>1. tries < MaxTries \/ tries < 1
      BY Zenon, <1>2 DEF TryAgain, Tries
    <3>2. tries \in 1..MaxTries /\ MaxTries \in Nat
      BY SchemerConstants DEF DataOK
    <3> QED BY <2>1, <3>1, <3>2
  <2>3. UNCHANGED <<zooKeeper, up, faults, normal>>
    BY Zenon DEF EndOfTry
  <2> QED BY Zenon, <2>1, <2>2, <2>3 DEF DataOK
<1>3. CASE ~(failed /\ TryAgain)
  <2>1. /\ Start(<<>>)
        /\ pc' = "idle" \/ pc' = "distributed"
        /\ hosts' = hosts \/ hosts' = {}
        /\ state' = state \/ state' = "Sync" \/ state' = "NotSync"
        /\ seen' = seen \/ seen' = Nothing
        /\ objects' = objects \/ objects' = [objects EXCEPT ![Me] = {}]
    BY Zenon, <1>3 DEF EndOfTry, Synced, GiveUp
  <2>2. UNCHANGED <<zooKeeper, up, faults, normal>>
    BY Zenon DEF EndOfTry
  <2>3. seen' \in [Peers -> SUBSET Objects]
    BY <2>1 DEF DataOK, Nothing
  <2>4. objects' \in [Replicas -> SUBSET Objects]
    BY <2>1 DEF DataOK
  <2> QED BY <1>1, <2>1, <2>2, <2>3, <2>4, StartType DEF DataOK
<1> QED BY <1>2, <1>3

(* The other steps keep the types.                                         *)
LEMMA OtherTypeStep ==
  ASSUME DataOK,
         \/ CreateTablesForReplica \/ DeleteTablesForReplica \/ PodNotReady
         \/ \E r \in Replicas : PodLost(r) \/ PodReady(r)
         \/ \E p \in Peers, t \in Tables : CreateTable(p, t)
  PROVE  DataOK'
<1>1. CASE CreateTablesForReplica
  <2>1. seen' \in [Peers -> SUBSET Objects]
    BY <1>1 DEF CreateTablesForReplica, DataOK
  <2>2. normal' \subseteq ShardPeers /\ (pc' = "distributed" \/ pc' = "databases")
        /\ UNCHANGED <<objects, zooKeeper, up, state, faults, hosts, sqls, next, tries>>
    BY <1>1, Zenon DEF CreateTablesForReplica, world
  <2> QED BY <2>1, <2>2 DEF DataOK
<1>2. CASE DeleteTablesForReplica
  <2>1. SUBSET (objects[Me] \cap Replicated) \subseteq SUBSET Tables
    BY SchemerConstants
  <2>2. \E sql \in Seq(Objects \cup {NoSQL}) : Start(sql)
    BY <1>2, <2>1, ListTypes DEF DeleteTablesForReplica
  <2>3. faults < MaxFaults /\ faults' = faults + 1 /\ pc' = "drop" /\ seen' = Nothing
        /\ UNCHANGED <<objects, zooKeeper, up, state, hosts, normal>>
    BY <1>2, Zenon DEF DeleteTablesForReplica, Fault, world
  <2>4. faults' \in 0..MaxFaults /\ seen' \in [Peers -> SUBSET Objects]
    <3>1. faults \in 0..MaxFaults /\ MaxFaults \in Nat
      BY SchemerConstants DEF DataOK
    <3>2. Nothing \in [Peers -> SUBSET Objects]
      BY DEF Nothing
    <3> QED BY <2>3, <3>1, <3>2
  <2>5. sqls' \in Seq(Objects \cup {NoSQL}) /\ next' \in Nat \ {0} /\ tries' \in 1..MaxTries
    BY <2>2, StartType
  <2> QED BY <2>3, <2>4, <2>5 DEF DataOK
<1>3. CASE PodNotReady
  BY <1>3, Zenon DEF PodNotReady, DataOK, world, call
<1>4. ASSUME NEW r \in Replicas, PodLost(r) PROVE DataOK'
  <2>1. faults < MaxFaults /\ faults' = faults + 1 /\ up' = up \ {r}
        /\ seen' = [p \in Peers |-> IF p = r THEN {} ELSE seen[p]]
        /\ UNCHANGED <<objects, zooKeeper, state, pc, normal, hosts, sqls, next, tries>>
    BY <1>4, Zenon DEF PodLost, Fault, call
  <2>2. faults' \in 0..MaxFaults
    <3>1. faults \in 0..MaxFaults /\ MaxFaults \in Nat
      BY SchemerConstants DEF DataOK
    <3> QED BY <2>1, <3>1
  <2>3. up' \subseteq Replicas /\ seen' \in [Peers -> SUBSET Objects]
    <3>1. up \subseteq Replicas /\ seen \in [Peers -> SUBSET Objects]
      BY DEF DataOK
    <3> QED BY <2>1, <3>1
  <2> QED BY Zenon, <2>1, <2>2, <2>3 DEF DataOK
<1>5. ASSUME NEW r \in Replicas, PodReady(r) PROVE DataOK'
  <2>1. up' = up \cup {r} /\ UNCHANGED <<objects, zooKeeper, state, faults, pc, normal,
                                         hosts, sqls, next, tries, seen>>
    BY <1>5, Zenon DEF PodReady, call
  <2> QED BY <2>1 DEF DataOK
<1>6. ASSUME NEW p \in Peers, NEW t \in Tables, CreateTable(p, t) PROVE DataOK'
  <2>1. objects' = [objects EXCEPT ![p] = @ \cup {t, DatabaseOf[t]}]
        /\ UNCHANGED <<zooKeeper, up, state, faults, pc, normal, hosts, sqls, next,
                       tries, seen>>
    BY <1>6, Zenon DEF CreateTable, call
  <2>2. objects' \in [Replicas -> SUBSET Objects]
    <3>1. objects \in [Replicas -> SUBSET Objects] /\ DatabaseOf[t] \in Databases
      BY SchemerConstants DEF DataOK
    <3> QED BY <2>1, <3>1
  <2> QED BY Zenon, <2>1, <2>2 DEF DataOK
<1> QED BY <1>1, <1>2, <1>3, <1>4, <1>5, <1>6

(* Every step keeps the types.                                             *)
LEMMA TypeStep == TypeOK /\ [Next]_vars => TypeOK'
<1> SUFFICES ASSUME TypeOK, [Next]_vars PROVE TypeOK'
  OBVIOUS
<1>1. DataOK /\ FlagsOK
  BY TypeParts
<1>2. DataOK'
  <2>1. CASE UNCHANGED vars
    BY Zenon, <1>1, <2>1 DEF vars, world, call, DataOK
  <2> QED
    BY Zenon, <1>1, <2>1, QueryTypeStep, ExecTypeStep, EndOfTryTypeStep, OtherTypeStep
    DEF Next, Call, Rest
<1>3. FlagsOK'
  BY <1>1, FlagsStep
<1>4. TypeOK' <=> DataOK' /\ FlagsOK'
  BY Zenon DEF TypeOK, DataOK, FlagsOK
<1> QED BY Zenon, <1>2, <1>3, <1>4

(***************************************************************************)
(* Every variable of the Schemer keeps its type, for any replicas and      *)
(* tables.                                                                 *)
(***************************************************************************)
THEOREM SchemerTypeCorrect == Spec => []TypeOK
BY TypeInit, TypeStep, PTL DEF Spec

----------------------------------------------------------------------------
(* What a call has planned, seen and done *)

(* What the new replica has, or will have when the list is through.        *)
Planned == objects[Me] \cup Range(sqls)

(* What SyncedHasShardTables and SyncedHasDistributedTables ask for.       *)
ShardDue == UNION {seen[p] : p \in normal}

DistributedDue ==
  UNION {{t \in seen[p] \cap Tables :
            t \in Distributed \/ \E d \in seen[p] \cap Distributed : t = LocalTable[d]}
         : p \in Peers}

(* A database comes with a table in it, on a peer and in what was seen.    *)
DatabasesInUse(os) ==
  \A d \in os \cap Databases : \E t \in os \cap Tables : DatabaseOf[t] = d

(* What was seen on a peer is still there, and can still be asked for.     *)
SeenInv ==
  \A p \in Peers :
    /\ seen[p] \subseteq objects[p] /\ (p \in up \/ seen[p] = {})
    /\ DatabasesInUse(objects[p]) /\ DatabasesInUse(seen[p])

(* A try without an error has carried out the statements it is past.       *)
TryInv ==
  /\ ~Applying => next = 1
  /\ Applying /\ ~failed => \A i \in 1..(next - 1) : sqls[i] = NoSQL
  /\ pc \notin {"idle", "drop"} => state = "NotSync"

(* The tables of the shard are planned first and then there.               *)
ShardKept ==
  /\ pc = "tables" /\ ~failed => ShardDue \cap Databases \subseteq Planned
  /\ pc = "create" => ShardDue \subseteq Planned
  /\ pc \in {"distributed", "distributed tables", "create distributed"} =>
       ShardDue \subseteq objects[Me]
  /\ pc = "idle" /\ state = "Sync" => ShardDue \subseteq objects[Me]

ShardInv == "shard" \notin lost => ShardKept

DistributedInv ==
  "distributed" \notin lost =>
    /\ pc = "distributed tables" => hosts = Peers
    /\ pc = "create distributed" => DistributedDue \subseteq Planned
    /\ pc = "idle" /\ state = "Sync" => DistributedDue \subseteq objects[Me]

AllListed == Listed = Replicas /\ ReplicasCount > 1

CopyInv == SeenInv /\ TryInv /\ (AllListed => ShardInv /\ DistributedInv)

(* Nothing has been seen at the start.                                     *)
LEMMA CopyInvInit == Init => CopyInv
<1> SUFFICES ASSUME Init PROVE CopyInv
  OBVIOUS
<1>1. SeenInv
  BY Zenon DEF Init, SeenInv, Nothing, DatabasesInUse
<1>2. TryInv
  BY DEF Init, TryInv, Applying
<1>3. ShardInv /\ DistributedInv
  BY DEF Init, ShardInv, ShardKept, DistributedInv
<1> QED BY <1>1, <1>2, <1>3 DEF CopyInv

(* What is on a peer stays there; statements only run on Me.               *)
LEMMA PeersKeep ==
  ASSUME TypeOK, Exec \/ EndOfTry
  PROVE  /\ \A p \in Peers : objects'[p] = objects[p]
         /\ up' = up
<1>1. objects \in [Replicas -> SUBSET Objects]
  BY Zenon DEF TypeOK
<1>2. \A p \in Peers : p # Me
  BY SchemerConstants
<1>3. CASE Exec
  <2>1. \E S : objects' = objects \/ objects' = [objects EXCEPT ![Me] = S]
    BY Zenon, <1>3 DEF Exec, ExecSucceeds, ExecFails
  <2>2. up' = up
    BY Zenon, <1>3 DEF Exec
  <2> QED BY <1>1, <1>2, <2>1, <2>2
<1>4. CASE EndOfTry
  <2>1. \E S : objects' = objects \/ objects' = [objects EXCEPT ![Me] = S]
    BY Zenon, <1>4 DEF EndOfTry
  <2>2. up' = up
    BY Zenon, <1>4 DEF EndOfTry
  <2> QED BY <1>1, <1>2, <2>1, <2>2
<1> QED BY <1>3, <1>4

(* Nothing that was seen is taken back, but by the loss of the pod.        *)
LEMMA SeenInvStep == TypeOK /\ SeenInv /\ [Next]_vars => SeenInv'
<1> SUFFICES ASSUME TypeOK, SeenInv, [Next]_vars PROVE SeenInv'
  OBVIOUS
<1>0. \A os : os = {} => DatabasesInUse(os)
  BY DEF DatabasesInUse
<1>1. ASSUME UNCHANGED <<objects, up, seen>> PROVE SeenInv'
  BY Zenon, <1>1 DEF SeenInv, DatabasesInUse
<1>2. ASSUME up' = up, \A p \in Peers : objects'[p] = objects[p],
             seen' = seen \/ seen' = Nothing
      PROVE  SeenInv'
  <2>1. CASE seen' = seen
    BY Zenon, <1>2, <2>1 DEF SeenInv, DatabasesInUse
  <2>2. CASE seen' = Nothing
    <3>1. \A p \in Peers : seen'[p] = {}
      BY <2>2 DEF Nothing
    <3> QED BY <1>0, <1>2, <3>1 DEF SeenInv, DatabasesInUse
  <2> QED BY <1>2, <2>1, <2>2
<1>3. CASE CreateTablesForReplica
  <2>1. /\ objects' = objects /\ up' = up
        /\ seen' = [p \in Peers |-> IF p \in up THEN objects[p] ELSE {}]
    BY Zenon, <1>3 DEF CreateTablesForReplica, world
  <2>2. \A p \in Peers : seen'[p] = IF p \in up THEN objects[p] ELSE {}
    BY <2>1
  <2> QED BY <1>0, <2>1, <2>2 DEF SeenInv, DatabasesInUse
<1>4. CASE FetchDatabases \/ FetchTables \/ FetchDistributedDatabases
             \/ FetchDistributedTables \/ PodNotReady \/ UNCHANGED vars
  BY Zenon, <1>1, <1>4 DEF FetchDatabases, FetchTables, FetchDistributedDatabases,
     FetchDistributedTables, PodNotReady, vars, world
<1>5. CASE Exec \/ EndOfTry
  <2>1. seen' = seen \/ seen' = Nothing
    BY Zenon, <1>5 DEF Exec, EndOfTry
  <2> QED BY <1>2, <1>5, <2>1, PeersKeep
<1>6. CASE DeleteTablesForReplica
  BY Zenon, <1>2, <1>6 DEF DeleteTablesForReplica, world
<1>7. ASSUME NEW r \in Replicas, PodLost(r) PROVE SeenInv'
  <2>1. /\ objects' = objects /\ up' = up \ {r}
        /\ seen' = [p \in Peers |-> IF p = r THEN {} ELSE seen[p]]
    BY Zenon, <1>7 DEF PodLost
  <2>2. \A p \in Peers : seen'[p] = IF p = r THEN {} ELSE seen[p]
    BY <2>1
  <2> QED BY <1>0, <2>1, <2>2 DEF SeenInv, DatabasesInUse
<1>8. ASSUME NEW r \in Replicas, PodReady(r) PROVE SeenInv'
  BY <1>8 DEF PodReady, SeenInv, DatabasesInUse
<1>9. ASSUME NEW q \in Peers, NEW t \in Tables, CreateTable(q, t) PROVE SeenInv'
  <2>1. /\ objects' = [objects EXCEPT ![q] = @ \cup {t, DatabaseOf[t]}]
        /\ up' = up /\ seen' = seen
    BY Zenon, <1>9 DEF CreateTable
  <2>2. objects \in [Replicas -> SUBSET Objects]
    BY Zenon DEF TypeOK
  <2>3. \A p \in Peers : objects'[p] = IF p = q THEN objects[p] \cup {t, DatabaseOf[t]}
                                       ELSE objects[p]
    BY <2>1, <2>2
  <2>4. DatabasesInUse(objects[q]) => DatabasesInUse(objects[q] \cup {t, DatabaseOf[t]})
    BY SchemerConstants DEF DatabasesInUse
  <2>5. \A p \in Peers : DatabasesInUse(objects'[p])
    BY <2>3, <2>4 DEF SeenInv
  <2> QED BY <2>1, <2>3, <2>5 DEF SeenInv, DatabasesInUse
<1> QED
  BY Zenon, <1>3, <1>4, <1>5, <1>6, <1>7, <1>8, <1>9 DEF Next, Call, Rest

(* What a concatenation lists.                                             *)
LEMMA ConcatMembers ==
  ASSUME NEW T, NEW s \in Seq(T), NEW t \in Seq(T)
  PROVE  Range(s \o t) = Range(s) \cup Range(t)
<1> DEFINE st == s \o t
<1>1. /\ Len(st) = Len(s) + Len(t) /\ st \in Seq(T)
      /\ \A i \in 1..Len(st) : st[i] = IF i <= Len(s) THEN s[i] ELSE t[i - Len(s)]
  OBVIOUS
<1>2. DOMAIN s = 1..Len(s) /\ DOMAIN t = 1..Len(t) /\ DOMAIN st = 1..Len(st)
      /\ Len(s) \in Nat /\ Len(t) \in Nat
  BY <1>1
<1> HIDE DEF st
<1>3. \A i \in DOMAIN s : i \in DOMAIN st /\ st[i] = s[i]
  BY <1>1, <1>2
<1>4. \A i \in DOMAIN t : i + Len(s) \in DOMAIN st /\ st[i + Len(s)] = t[i]
  BY <1>1, <1>2
<1>5. \A i \in DOMAIN st : (i \in DOMAIN s /\ st[i] = s[i])
        \/ (i - Len(s) \in DOMAIN t /\ st[i] = t[i - Len(s)])
  BY <1>1, <1>2
<1>6. Range(st) = Range(s) \cup Range(t)
  BY <1>3, <1>4, <1>5 DEF Range
<1> QED BY <1>6 DEF st

(* A step of the statements and its end keep TryInv.                       *)
LEMMA TryInvStep == TypeOK /\ TryInv /\ [Next]_vars => TryInv'
<1> SUFFICES ASSUME TypeOK, TryInv, [Next]_vars PROVE TryInv'
  OBVIOUS
<1>0. next \in Nat \ {0} /\ sqls \in Seq(Objects \cup {NoSQL})
  BY Zenon DEF TypeOK
<1>1. ASSUME next' = 1, pc' \notin {"idle", "drop"} => state' = "NotSync" PROVE TryInv'
  <2>1. \A i \in 1..(next' - 1) : sqls'[i] = NoSQL
    BY <1>1
  <2> QED BY Zenon, <1>1, <2>1 DEF TryInv, Applying
<1>2. ASSUME UNCHANGED <<pc, next, sqls, failed>>, state' = state \/ state' = "NotSync"
      PROVE  TryInv'
  BY Zenon, <1>2 DEF TryInv, Applying
<1>3. CASE CreateTablesForReplica
  <2>1. next' = 1 /\ state' = "NotSync"
    BY <1>3 DEF CreateTablesForReplica, TryInv, Applying
  <2> QED BY <1>1, <2>1
<1>4. CASE FetchDatabases \/ FetchDistributedDatabases \/ FetchDistributedTables
  <2>1. pc \in {"databases", "distributed", "distributed tables"}
        /\ next' = next /\ state' = state
    BY <1>4 DEF FetchDatabases, FetchDistributedDatabases, FetchDistributedTables
  <2>2. next = 1 /\ state = "NotSync"
    BY <2>1 DEF TryInv, Applying
  <2> QED BY <1>1, <2>1, <2>2
<1>5. CASE FetchTables
  <2>1. pc = "tables" /\ state' = state /\ (next' = next \/ next' = 1)
    BY Zenon, <1>5 DEF FetchTables, GiveUp, Start
  <2>2. next = 1 /\ state = "NotSync"
    BY <2>1 DEF TryInv, Applying
  <2> QED BY <1>1, <2>1, <2>2
<1>6. CASE Exec
  <2>1. Applying /\ next \in DOMAIN sqls /\ next' = next + 1 /\ UNCHANGED <<pc, state>>
    BY <1>0, <1>6 DEF Exec
  <2>2. Applying'
    BY Zenon, <2>1 DEF Applying
  <2>3. ASSUME ~failed'
        PROVE  sqls'[next] = NoSQL /\ ~failed
               /\ \A i \in 1..(next - 1) : sqls'[i] = sqls[i]
    <3>1. CASE UNCHANGED <<sqls, failed>> /\ sqls[next] = NoSQL
      BY Zenon, <2>3, <3>1
    <3>2. CASE failed' = failed /\ sqls' = [sqls EXCEPT ![next] = NoSQL]
      <4>1. \A i \in 1..(next - 1) : i # next
        BY <1>0
      <4>2. ~failed
        BY Zenon, <2>3, <3>2
      <4>3. \A i \in 1..(next - 1) : sqls'[i] = sqls[i]
        BY <1>0, <2>1, <3>2, <4>1
      <4>4. sqls'[next] = NoSQL
        BY <1>0, <2>1, <3>2
      <4> QED BY <4>2, <4>3, <4>4
    <3>3. \/ UNCHANGED <<sqls, failed>> /\ sqls[next] = NoSQL
          \/ failed' = failed /\ sqls' = [sqls EXCEPT ![next] = NoSQL]
          \/ failed' = TRUE
      BY Zenon, <1>6 DEF Exec, ExecSucceeds, ExecFails
    <3> QED BY Zenon, <2>3, <3>1, <3>2, <3>3
  <2>4. ASSUME ~failed' PROVE \A i \in 1..(next' - 1) : sqls'[i] = NoSQL
    <3>1. \A i \in 1..(next - 1) : sqls[i] = NoSQL
      BY Zenon, <2>1, <2>3, <2>4 DEF TryInv
    <3>2. \A i \in 1..(next - 1) : sqls'[i] = NoSQL
      BY <2>3, <2>4, <3>1
    <3>3. sqls'[next] = NoSQL
      BY <2>3, <2>4
    <3>4. \A i \in 1..(next' - 1) : i = next \/ i \in 1..(next - 1)
      BY <1>0, <2>1
    <3> QED BY <3>2, <3>3, <3>4
  <2> QED BY Zenon, <2>1, <2>2, <2>4 DEF TryInv
<1>7. CASE EndOfTry
  <2>1. next' = 1
    BY Zenon, <1>7 DEF EndOfTry, Synced, GiveUp, Start
  <2>2. (pc' = pc /\ state' = state /\ pc \in {"create", "create distributed", "drop"})
        \/ pc' = "idle"
        \/ (pc' = "distributed" /\ state' = state /\ pc = "create")
    BY Zenon, <1>7 DEF EndOfTry, Synced, GiveUp, Start, Applying
  <2>3. pc' \notin {"idle", "drop"} => state' = "NotSync"
    BY <2>2 DEF TryInv
  <2> QED BY <1>1, <2>1, <2>3
<1>8. CASE PodNotReady \/ UNCHANGED vars
  BY Zenon, <1>2, <1>8 DEF PodNotReady, vars, call
<1>9. CASE DeleteTablesForReplica
  <2>1. next' = 1 /\ pc' = "drop"
    BY Zenon, <1>9 DEF DeleteTablesForReplica, Start
  <2> QED BY <1>1, <2>1
<1>10. ASSUME NEW r, PodLost(r) \/ PodReady(r) PROVE TryInv'
  BY Zenon, <1>2, <1>10 DEF PodLost, PodReady, call
<1>11. ASSUME NEW p, NEW t, CreateTable(p, t) PROVE TryInv'
  BY Zenon, <1>2, <1>11 DEF CreateTable, call
<1> QED
  BY Zenon, <1>3, <1>4, <1>5, <1>6, <1>7, <1>8, <1>9, <1>10, <1>11 DEF Next, Call, Rest

(* What is due are objects, so never the mark of a blanked statement.      *)
LEMMA DueAreObjects ==
  ASSUME TypeOK
  PROVE  /\ ShardDue \subseteq Objects /\ DistributedDue \subseteq Objects
         /\ NoSQL \notin ShardDue /\ NoSQL \notin DistributedDue
<1>1. seen \in [Peers -> SUBSET Objects] /\ normal \subseteq Peers
  BY Zenon DEF TypeOK
<1> QED BY <1>1, SchemerConstants DEF ShardDue, DistributedDue

(* What was seen on a peer is found by a query that asks it, and with it   *)
(* the database of every table.                                            *)
LEMMA SeenIsFound ==
  ASSUME TypeOK, SeenInv, NEW asked, NEW p \in Peers, p \in asked
  PROVE  /\ seen[p] \cap Tables \subseteq TablesOn(asked)
         /\ seen[p] \cap Databases \subseteq {DatabaseOf[t] : t \in TablesOn(asked)}
<1>1. seen[p] \cap Tables \subseteq TablesOn(asked)
  BY DEF SeenInv, TablesOn
<1>2. \A d \in seen[p] \cap Databases : \E t \in seen[p] \cap Tables : DatabaseOf[t] = d
  BY Zenon DEF SeenInv, DatabasesInUse
<1> QED BY <1>1, <1>2

(* The statement that is run moves from the list to the replica.           *)
LEMMA ExecKeepsPlan ==
  ASSUME TypeOK, Exec, ~Dropping
  PROVE  /\ objects[Me] \subseteq objects'[Me]
         /\ Planned \subseteq Planned' \cup {NoSQL}
<1>0. sqls \in Seq(Objects \cup {NoSQL}) /\ objects \in [Replicas -> SUBSET Objects]
      /\ next \in Nat \ {0}
  BY Zenon DEF TypeOK
<1>1. next \in DOMAIN sqls
  BY <1>0 DEF Exec
<1>2. \/ UNCHANGED <<objects, sqls>>
      \/ objects' = [objects EXCEPT ![Me] = @ \cup {sqls[next]}]
         /\ sqls' = [sqls EXCEPT ![next] = NoSQL]
  BY Zenon DEF Exec, ExecSucceeds, ExecFails
<1>3. CASE UNCHANGED <<objects, sqls>>
  BY Zenon, <1>3 DEF Planned
<1>4. CASE objects' = [objects EXCEPT ![Me] = @ \cup {sqls[next]}]
           /\ sqls' = [sqls EXCEPT ![next] = NoSQL]
  <2>1. objects'[Me] = objects[Me] \cup {sqls[next]}
    BY <1>0, <1>4
  <2>2. DOMAIN sqls' = DOMAIN sqls /\ \A i \in DOMAIN sqls : i # next => sqls'[i] = sqls[i]
    BY <1>0, <1>4
  <2>3. \A i \in DOMAIN sqls : sqls[i] \in Planned'
    BY <2>1, <2>2 DEF Planned, Range
  <2> QED BY <2>1, <2>3 DEF Planned, Range
<1> QED BY <1>2, <1>3, <1>4

(* When a try ends without an error, all that was planned is there.        *)
LEMMA PlanIsDone ==
  ASSUME TypeOK, TryInv, Applying, ~failed, next > Len(sqls)
  PROVE  Planned \subseteq objects[Me] \cup {NoSQL}
<1>0. sqls \in Seq(Objects \cup {NoSQL}) /\ next \in Nat \ {0}
  BY Zenon DEF TypeOK
<1>1. \A i \in 1..(next - 1) : sqls[i] = NoSQL
  BY Zenon DEF TryInv
<1>2. \A i \in DOMAIN sqls : i \in 1..(next - 1)
  BY <1>0
<1> QED BY <1>1, <1>2 DEF Planned, Range

(* A step that leaves the call alone, and can only take away what is due.  *)
LEMMA PlanFrame ==
  ASSUME objects'[Me] = objects[Me],
         UNCHANGED <<sqls, normal, hosts, pc, state, failed, lost>>,
         \A p \in Peers : seen'[p] \subseteq seen[p], normal \subseteq Peers,
         ShardInv, DistributedInv
  PROVE  ShardInv' /\ DistributedInv'
<1>1. ShardDue' \subseteq ShardDue
  BY DEF ShardDue
<1>2. DistributedDue' \subseteq DistributedDue
  BY DEF DistributedDue
<1>3. Planned' = Planned
  BY DEF Planned
<1>4. /\ ShardDue \subseteq Planned => ShardDue' \subseteq Planned'
      /\ ShardDue \cap Databases \subseteq Planned =>
           ShardDue' \cap Databases \subseteq Planned'
      /\ ShardDue \subseteq objects[Me] => ShardDue' \subseteq objects'[Me]
      /\ DistributedDue \subseteq Planned => DistributedDue' \subseteq Planned'
      /\ DistributedDue \subseteq objects[Me] => DistributedDue' \subseteq objects'[Me]
  <2> HIDE DEF ShardDue, DistributedDue, Planned
  <2> QED BY <1>1, <1>2, <1>3
<1>5. pc' = pc /\ state' = state /\ hosts' = hosts /\ (failed' <=> failed)
      /\ lost' = lost
  BY Zenon
<1>6. ShardInv'
  <2> SUFFICES ASSUME "shard" \notin lost, ShardKept PROVE ShardKept'
    BY Zenon, <1>5 DEF ShardInv
  <2>1. ASSUME pc' = "tables" /\ ~failed' PROVE ShardDue' \cap Databases \subseteq Planned'
    <3>1. pc = "tables" /\ ~failed
      BY Zenon, <1>5, <2>1
    <3> QED BY Zenon, <1>4, <3>1 DEF ShardKept
  <2>2. pc = "create" => ShardDue' \subseteq Planned'
    BY Zenon, <1>4 DEF ShardKept
  <2>3. \/ pc \in {"distributed", "distributed tables", "create distributed"}
        \/ pc = "idle" /\ state = "Sync"
        => ShardDue' \subseteq objects'[Me]
    BY Zenon, <1>4 DEF ShardKept
  <2> QED BY Zenon, <1>5, <2>1, <2>2, <2>3 DEF ShardKept
<1>7. DistributedInv'
  <2> SUFFICES ASSUME "distributed" \notin lost'
               PROVE  /\ pc = "distributed tables" => hosts = Peers
                      /\ pc = "create distributed" => DistributedDue' \subseteq Planned'
                      /\ pc = "idle" /\ state = "Sync" => DistributedDue' \subseteq objects'[Me]
    BY Zenon, <1>5 DEF DistributedInv
  <2>1. "distributed" \notin lost
    BY Zenon, <1>5
  <2> QED BY Zenon, <1>4, <2>1 DEF DistributedInv
<1> QED BY <1>6, <1>7

(* At these places nothing is asked of what was planned or done.           *)
LEMMA NothingDue ==
  ASSUME pc' \in {"databases", "drop"} \/ (pc' = "idle" /\ state' = "NotSync")
  PROVE  ShardInv' /\ DistributedInv'
BY DEF ShardInv, ShardKept, DistributedInv

(* When the spec lists all replicas, the queries ask all that serve.       *)
LEMMA AllAreAsked ==
  ASSUME TypeOK, AllListed
  PROVE  ShardHosts = normal /\ DistributedHosts = {Peers}
<1>1. Listed = {Me} \cup Peers /\ Me \notin Peers
  BY SchemerConstants DEF AllListed
<1>2. ~(ReplicasCount <= 1) /\ normal \subseteq Listed
  <2>1. normal \subseteq ShardPeers
    BY Zenon DEF TypeOK
  <2> QED BY <1>1, <2>1, SchemerConstants DEF AllListed
<1>3. ShardHosts = normal
  BY <1>2 DEF ShardHosts
<1>4. CASE \A a, b \in Listed : a = b
  <2>1. Peers = {}
    BY <1>1, <1>4
  <2> QED BY <1>3, <1>4, <2>1 DEF DistributedHosts
<1>5. CASE ~(\A a, b \in Listed : a = b)
  <2>1. Listed \ {Me} = Peers /\ Me \in Listed
    BY <1>1
  <2> QED BY <1>3, <1>5, <2>1 DEF DistributedHosts
<1> QED BY <1>4, <1>5

(* The beginning of a call: without peers there is nothing due.            *)
LEMMA BeginCopy ==
  ASSUME TypeOK, AllListed, CreateTablesForReplica
  PROVE  ShardInv' /\ DistributedInv'
<1>1. normal' \subseteq ShardPeers
      /\ pc' = IF ShardHosts' = {} THEN "distributed" ELSE "databases"
  BY Zenon DEF CreateTablesForReplica
<1>2. CASE ShardHosts' = {}
  <2>1. ~(ReplicasCount <= 1) /\ normal' \subseteq Listed
    BY <1>1, SchemerConstants DEF AllListed
  <2>2. normal' = {}
    BY <1>2, <2>1 DEF ShardHosts
  <2>3. ShardDue' = {}
    BY <2>2 DEF ShardDue
  <2> QED BY <1>1, <1>2, <2>3 DEF ShardInv, ShardKept, DistributedInv
<1>3. CASE ShardHosts' # {}
  BY <1>1, <1>3, NothingDue
<1> QED BY <1>2, <1>3

(* The queries for the tables of the shard put all that is due on the list. *)
LEMMA FetchShard ==
  ASSUME TypeOK, SeenInv, TryInv, ShardInv, AllListed, FetchDatabases \/ FetchTables
  PROVE  ShardInv' /\ DistributedInv'
<1>0. /\ sqls \in Seq(Objects \cup {NoSQL}) /\ normal \subseteq Peers
      /\ seen \in [Peers -> SUBSET Objects]
  BY Zenon DEF TypeOK
<1>1. UNCHANGED <<objects, state, normal, seen>>
  BY Zenon DEF FetchDatabases, FetchTables, world
<1>2. ShardDue' = ShardDue
  BY <1>1 DEF ShardDue
<1>3. /\ ShardDue \cap Tables \subseteq TablesOn(ShardHosts)
      /\ ShardDue \cap Databases \subseteq {DatabaseOf[t] : t \in TablesOn(ShardHosts)}
  <2>1. ASSUME NEW p \in normal
        PROVE  /\ seen[p] \cap Tables \subseteq TablesOn(ShardHosts)
               /\ seen[p] \cap Databases \subseteq
                    {DatabaseOf[t] : t \in TablesOn(ShardHosts)}
    <3>1. p \in Peers /\ p \in ShardHosts
      BY <1>0, AllAreAsked
    <3> QED BY <3>1, SeenIsFound
  <2> QED BY <2>1 DEF ShardDue
<1>4. TablesOn(ShardHosts) \in SUBSET Tables
  BY QueryTypes
<1>5. pc' \in {"tables", "create"} \/ (pc' = "idle" /\ state' = "NotSync")
  <2>1. (pc' = "tables" \/ pc' = "create") \/ (pc' = "idle" /\ pc = "tables")
    BY Zenon DEF FetchDatabases, FetchTables, GiveUp
  <2>2. pc = "tables" => state = "NotSync"
    BY DEF TryInv
  <2> QED BY <1>1, <2>1, <2>2
<1>6. DistributedInv'
  BY <1>5 DEF DistributedInv
<1>7. SUFFICES ASSUME "shard" \notin lost' PROVE ShardKept'
  BY <1>6 DEF ShardInv
<1>8. CASE FetchDatabases
  <2> DEFINE D == {DatabaseOf[t] : t \in TablesOn(ShardHosts)}
  <2>1. pc' = "tables" /\ (failed' = TRUE \/ sqls' \in SetToSeqs(D))
    <3>0. pc' = "tables" /\
            \/ failed' = TRUE
            \/ \E rows \in SUBSET D : sqls' \in SetToSeqs(rows) /\ Reads(D, rows, "shard")
      BY Zenon, <1>8 DEF FetchDatabases
    <3> HIDE DEF D
    <3>1. ASSUME NEW rows, sqls' \in SetToSeqs(rows), Reads(D, rows, "shard")
          PROVE  sqls' \in SetToSeqs(D)
      <4>1. "shard" \notin lost' => rows = D
        BY Zenon, <3>1, AllIsRead
      <4> QED BY <1>7, <3>1, <4>1
    <3> QED BY Zenon, <3>0, <3>1
  <2>2. ASSUME sqls' \in SetToSeqs(D) PROVE ShardDue' \cap Databases \subseteq Planned'
    <3>1. Range(sqls') = D
      BY <1>4, <2>2, TablesAreFinite, ListOfSet
    <3> HIDE DEF D
    <3>2. D \subseteq Planned'
      BY <3>1 DEF Planned
    <3> QED BY <1>2, <1>3, <3>2 DEF D
  <2>3. ~failed' => ShardDue' \cap Databases \subseteq Planned'
    BY Zenon, <2>1, <2>2
  <2>4. pc' = "tables"
    BY <2>1
  <2> QED BY <2>3, <2>4 DEF ShardKept
<1>9. CASE FetchTables
  <2>1. CASE GiveUp
    <3>1. pc' = "idle" /\ state' = "NotSync"
      BY <1>5, <2>1 DEF GiveUp
    <3> QED BY <3>1 DEF ShardKept
  <2>2. ASSUME NEW rows, NEW ts \in SetToSeqs(rows), sqls' = sqls \o ts,
               Reads(TablesOn(ShardHosts), rows, "shard"), pc' = "create", ~failed
        PROVE  ShardKept'
    <3>0. rows = TablesOn(ShardHosts) /\ lost' = lost
      BY Zenon, <1>7, <2>2, AllIsRead
    <3>1. ShardDue \cap Databases \subseteq Planned
      BY Zenon, <1>7, <1>9, <2>2, <3>0 DEF FetchTables, ShardInv, ShardKept
    <3>2. ts \in Seq(Objects \cup {NoSQL})
          /\ Range(ts) = TablesOn(ShardHosts)
      BY <1>4, <3>0, TablesAreFinite, ListOfSet, ListTypes
    <3>3. Range(sqls') = Range(sqls) \cup TablesOn(ShardHosts)
      BY <1>0, <2>2, <3>2, ConcatMembers
    <3>4. Planned' = Planned \cup TablesOn(ShardHosts)
      BY <1>1, <3>3 DEF Planned
    <3>5. ShardDue \subseteq Objects
      BY DueAreObjects
    <3>6. ShardDue' \subseteq Planned'
      BY <1>2, <1>3, <3>1, <3>4, <3>5
    <3> QED BY <2>2, <3>6 DEF ShardKept
  <2> QED BY Zenon, <1>9, <2>1, <2>2 DEF FetchTables
<1> QED BY <1>8, <1>9

(* So do the queries for the distributed ones, unless one failed.          *)
LEMMA FetchDistributed ==
  ASSUME TypeOK, SeenInv, ShardInv, DistributedInv, AllListed,
         FetchDistributedDatabases \/ FetchDistributedTables
  PROVE  ShardInv' /\ DistributedInv'
<1>0. /\ sqls \in Seq(Objects \cup {NoSQL}) /\ seen \in [Peers -> SUBSET Objects]
  BY Zenon DEF TypeOK
<1>1. UNCHANGED <<objects, state, normal, seen>>
  BY Zenon DEF FetchDistributedDatabases, FetchDistributedTables, world
<1>2. ShardDue' = ShardDue /\ DistributedDue' = DistributedDue
  BY <1>1 DEF ShardDue, DistributedDue
<1>3. /\ pc \in {"distributed", "distributed tables"}
      /\ pc' \in {"distributed tables", "create distributed"}
  BY Zenon DEF FetchDistributedDatabases, FetchDistributedTables
<1>4. ShardInv'
  <2>1. "shard" \notin lost' => "shard" \notin lost
    <3>1. lost' = lost \/ lost' = lost \cup {"distributed"}
      BY Zenon DEF FetchDistributedDatabases, FetchDistributedTables, Reads
    <3> QED BY <3>1
  <2>2. ShardKept => ShardDue \subseteq objects[Me]
    BY <1>3 DEF ShardKept
  <2>3. ShardDue \subseteq objects[Me] => ShardKept'
    BY <1>1, <1>2, <1>3 DEF ShardKept
  <2> QED BY Zenon, <2>1, <2>2, <2>3 DEF ShardInv
<1>5. CASE FetchDistributedDatabases
  <2>1. pc' = "distributed tables" /\ hosts' \in DistributedHosts
    BY Zenon, <1>5 DEF FetchDistributedDatabases
  <2>2. hosts' = Peers
    BY <2>1, AllAreAsked
  <2> QED BY <1>4, <2>1, <2>2 DEF DistributedInv
<1>6. CASE FetchDistributedTables
  <2>1. pc' = "create distributed" /\ pc = "distributed tables"
    BY Zenon, <1>6 DEF FetchDistributedTables
  <2>2. ASSUME "distributed" \notin lost' PROVE DistributedDue' \subseteq Planned'
    <3>1. ASSUME NEW rows, Reads(DistributedTablesOn(hosts), rows, "distributed")
          PROVE  rows = DistributedTablesOn(hosts) /\ lost' = lost
      BY Zenon, <2>2, <3>1, AllIsRead
    <3>2. "distributed" \in lost \cup {"distributed"}
      OBVIOUS
    <3>3. /\ \E locals \in SetToSeqs(DistributedTablesOn(hosts) \ Distributed),
                ts \in SetToSeqs(DistributedTablesOn(hosts) \cap Distributed) :
               sqls' = sqls \o locals \o ts
          /\ lost' = lost
      BY Zenon, <1>6, <2>2, <3>1, <3>2 DEF FetchDistributedTables
    <3> PICK locals \in SetToSeqs(LocalTablesOn(hosts) \ Distributed),
             ts \in SetToSeqs(TablesOn(hosts) \cap Distributed) :
          sqls' = sqls \o locals \o ts
      BY Zenon, <3>3, DistributedAnswer
    <3>4. hosts = Peers
      BY Zenon, <2>1, <2>2, <3>3 DEF DistributedInv
    <3>5. /\ LocalTablesOn(hosts) \ Distributed \in SUBSET Tables
          /\ TablesOn(hosts) \cap Distributed \in SUBSET Tables
      BY QueryTypes
    <3>6. /\ locals \in Seq(Objects \cup {NoSQL}) /\ ts \in Seq(Objects \cup {NoSQL})
          /\ Range(locals) = LocalTablesOn(hosts) \ Distributed
          /\ Range(ts) = TablesOn(hosts) \cap Distributed
      BY <3>5, TablesAreFinite, ListOfSet, ListTypes
    <3>7. sqls \o locals \in Seq(Objects \cup {NoSQL})
      BY <1>0, <3>6
    <3>8. /\ LocalTablesOn(hosts) \ Distributed \subseteq Range(sqls')
          /\ TablesOn(hosts) \cap Distributed \subseteq Range(sqls')
      <4>1. Range(sqls \o locals) = Range(sqls) \cup Range(locals)
        BY <1>0, <3>6, ConcatMembers
      <4> DEFINE head == sqls \o locals
      <4>2. head \in Seq(Objects \cup {NoSQL}) /\ sqls' = head \o ts
            /\ Range(head) = Range(sqls) \cup Range(locals)
        BY <3>7, <4>1
      <4> HIDE DEF head
      <4>3. Range(head \o ts) = Range(head) \cup Range(ts)
        BY <3>6, <4>2, ConcatMembers
      <4> QED BY <3>6, <4>2, <4>3
    <3>9. /\ LocalTablesOn(hosts) \ Distributed \subseteq Planned'
          /\ TablesOn(hosts) \cap Distributed \subseteq Planned'
      BY <3>8 DEF Planned
    <3>10. DistributedDue \subseteq (TablesOn(hosts) \cap Distributed) \cup LocalTablesOn(hosts)
      <4>1. \A p \in Peers : seen[p] \cap Tables \subseteq TablesOn(hosts)
        BY <3>4, SeenIsFound
      <4>2. Distributed \subseteq Tables
        BY SchemerConstants
      <4> QED BY <4>1, <4>2 DEF DistributedDue, LocalTablesOn
    <3>11. LocalTablesOn(hosts) \subseteq TablesOn(hosts)
      BY DEF LocalTablesOn
    <3> QED BY <1>2, <3>9, <3>10, <3>11
  <2> QED BY <1>4, <2>1, <2>2 DEF DistributedInv
<1> QED BY <1>5, <1>6

(* What is due depends on what was seen alone.                             *)
LEMMA DueFrame ==
  ASSUME normal' = normal, seen' = seen
  PROVE  ShardDue' = ShardDue /\ DistributedDue' = DistributedDue
BY DEF ShardDue, DistributedDue

(* A statement leaves everything due planned or there.                     *)
LEMMA ExecCopy ==
  ASSUME TypeOK, ShardInv, DistributedInv, Exec
  PROVE  ShardInv' /\ DistributedInv'
<1>1. /\ pc \in {"create", "create distributed", "drop"}
      /\ UNCHANGED <<pc, state, normal, seen>> /\ lost' = lost
  BY Zenon DEF Exec, Applying
<1>2. ShardDue' = ShardDue /\ DistributedDue' = DistributedDue
  BY Zenon, <1>1, DueFrame
<1>3. CASE pc = "drop"
  BY <1>1, <1>3, NothingDue
<1>4. CASE pc # "drop"
  <2>1. objects[Me] \subseteq objects'[Me] /\ Planned \subseteq Planned' \cup {NoSQL}
    BY <1>4, ExecKeepsPlan DEF Dropping
  <2>2. /\ ShardDue \subseteq Planned => ShardDue' \subseteq Planned'
        /\ ShardDue \subseteq objects[Me] => ShardDue' \subseteq objects'[Me]
        /\ DistributedDue \subseteq Planned => DistributedDue' \subseteq Planned'
    BY <1>2, <2>1, DueAreObjects
  <2>3. ShardInv'
    <3> SUFFICES ASSUME ShardKept PROVE ShardKept'
      BY Zenon, <1>1 DEF ShardInv
    <3>1. CASE pc = "create"
      <4>1. ShardDue' \subseteq Planned'
        BY <2>2, <3>1 DEF ShardKept
      <4> QED BY <1>1, <3>1, <4>1 DEF ShardKept
    <3>2. CASE pc = "create distributed"
      <4>1. ShardDue' \subseteq objects'[Me]
        BY <2>2, <3>2 DEF ShardKept
      <4> QED BY <1>1, <3>2, <4>1 DEF ShardKept
    <3> QED BY <1>1, <1>4, <3>1, <3>2
  <2>4. DistributedInv'
    <3>1. pc' \notin {"idle", "distributed tables"} /\ pc' = pc
      BY <1>1
    <3> QED BY Zenon, <1>1, <2>2, <3>1 DEF DistributedInv
  <2> QED BY <2>3, <2>4
<1> QED BY <1>3, <1>4

(* When a list is through, what is due is there; a retry keeps the plan.   *)
LEMMA EndOfTryCopy ==
  ASSUME TypeOK, TryInv, ShardInv, DistributedInv, EndOfTry
  PROVE  ShardInv' /\ DistributedInv'
<1>0. /\ Applying /\ next > Len(sqls) /\ normal' = normal /\ lost' = lost
      /\ pc \in {"create", "create distributed", "drop"}
  BY Zenon DEF EndOfTry, Applying
<1>1. CASE failed /\ TryAgain
  <2>1. UNCHANGED <<pc, sqls, state, objects, seen>>
    BY Zenon, <1>1 DEF EndOfTry
  <2>2. /\ ShardDue' = ShardDue /\ DistributedDue' = DistributedDue
        /\ Planned' = Planned /\ objects' = objects
    <3>1. sqls' = sqls /\ objects' = objects
      BY Zenon, <2>1
    <3>2. Planned' = Planned
      BY <3>1 DEF Planned
    <3> QED BY Zenon, <1>0, <2>1, <3>1, <3>2, DueFrame
  <2>3. pc' = pc /\ state' = state /\ pc # "tables" /\ pc # "distributed tables" /\ pc # "idle"
    BY <1>0, <2>1
  <2>4. ShardInv'
    BY Zenon, <1>0, <2>2, <2>3 DEF ShardInv, ShardKept
  <2>5. DistributedInv'
    BY Zenon, <1>0, <2>2, <2>3 DEF DistributedInv
  <2> QED BY <2>4, <2>5
<1>2. ASSUME pc \in {"create", "create distributed"}, ~failed,
             UNCHANGED <<objects, seen>>
      PROVE  /\ ShardDue' = ShardDue /\ DistributedDue' = DistributedDue
             /\ Planned \subseteq objects'[Me] \cup {NoSQL}
  <2>1. Planned \subseteq objects[Me] \cup {NoSQL}
    BY Zenon, <1>0, <1>2, PlanIsDone
  <2>2. objects' = objects
    BY Zenon, <1>2
  <2>3. Planned \subseteq objects'[Me] \cup {NoSQL}
    BY <2>1, <2>2
  <2> QED BY Zenon, <1>0, <1>2, <2>3, DueFrame
<1>3. CASE /\ pc = "create" /\ ~failed /\ pc' = "distributed"
           /\ UNCHANGED <<objects, seen>>
  <2>1. ShardKept => ShardDue \subseteq Planned
    BY <1>3 DEF ShardKept
  <2>2. ShardDue' = ShardDue /\ Planned \subseteq objects'[Me] \cup {NoSQL}
    BY <1>2, <1>3
  <2>3. ShardKept => ShardDue' \subseteq objects'[Me]
    BY <2>1, <2>2, DueAreObjects
  <2>4. ShardDue' \subseteq objects'[Me] => ShardKept'
    BY <1>3 DEF ShardKept
  <2>5. DistributedInv'
    BY <1>3 DEF DistributedInv
  <2> QED BY Zenon, <1>0, <2>3, <2>4, <2>5 DEF ShardInv
<1>4. CASE /\ pc = "create distributed" /\ ~failed /\ Synced
           /\ UNCHANGED <<objects, seen>>
  <2>1. pc' = "idle" /\ pc = "create distributed" /\ objects' = objects
    BY Zenon, <1>4 DEF Synced
  <2>2. /\ ShardDue' = ShardDue /\ DistributedDue' = DistributedDue
        /\ Planned \subseteq objects'[Me] \cup {NoSQL}
    BY <1>2, <1>4
  <2>3. ShardKept => ShardDue' \subseteq objects'[Me]
    BY <2>1, <2>2 DEF ShardKept
  <2>4. DistributedDue \subseteq Planned => DistributedDue' \subseteq objects'[Me]
    BY <2>2, DueAreObjects
  <2>5. "distributed" \notin lost' => DistributedDue' \subseteq objects'[Me]
    BY Zenon, <1>0, <2>1, <2>4 DEF DistributedInv
  <2>6. pc' # "distributed tables" /\ pc' # "create distributed"
    BY <2>1
  <2>7. DistributedInv'
    BY Zenon, <2>5, <2>6 DEF DistributedInv
  <2>8. ShardDue' \subseteq objects'[Me] => ShardKept'
    BY <2>1 DEF ShardKept
  <2> QED BY Zenon, <1>0, <2>3, <2>7, <2>8 DEF ShardInv
<1>5. CASE ~Dropping /\ GiveUp /\ UNCHANGED state
  <2>1. pc' = "idle" /\ pc \notin {"idle", "drop"}
    BY <1>0, <1>5 DEF GiveUp, Dropping
  <2>2. state' = "NotSync"
    BY <1>5, <2>1 DEF TryInv
  <2> QED BY <2>1, <2>2, NothingDue
<1>6. CASE GiveUp /\ state' = "NotSync"
  BY <1>6, NothingDue DEF GiveUp
<1> QED BY Zenon, <1>1, <1>3, <1>4, <1>5, <1>6 DEF EndOfTry

(* Every step keeps what the copy relies on.                               *)
LEMMA CopyStep == TypeOK /\ CopyInv /\ [Next]_vars => CopyInv'
<1> SUFFICES ASSUME TypeOK, CopyInv, [Next]_vars PROVE CopyInv'
  OBVIOUS
<1>1. SeenInv' /\ TryInv'
  BY SeenInvStep, TryInvStep DEF CopyInv
<1>2. AllListed' <=> AllListed
  BY DEF AllListed
<1>3. ASSUME AllListed PROVE ShardInv' /\ DistributedInv'
  <2>0. SeenInv /\ TryInv /\ ShardInv /\ DistributedInv /\ normal \subseteq Peers
    BY Zenon, <1>3 DEF CopyInv, TypeOK
  <2>1. CASE CreateTablesForReplica
    BY <1>3, <2>1, BeginCopy
  <2>2. CASE FetchDatabases \/ FetchTables
    BY <1>3, <2>0, <2>2, FetchShard
  <2>3. CASE FetchDistributedDatabases \/ FetchDistributedTables
    BY <1>3, <2>0, <2>3, FetchDistributed
  <2>4. CASE Exec
    BY <2>0, <2>4, ExecCopy
  <2>5. CASE EndOfTry
    BY <2>0, <2>5, EndOfTryCopy
  <2>6. CASE PodNotReady
    <3>1. pc' = "idle" /\ state' = "NotSync"
      BY Zenon, <2>6 DEF PodNotReady
    <3> QED BY <3>1, NothingDue
  <2>7. CASE DeleteTablesForReplica
    <3>1. pc' = "drop"
      BY Zenon, <2>7 DEF DeleteTablesForReplica
    <3> QED BY <3>1, NothingDue
  <2>8. CASE UNCHANGED vars
    <3>1. objects'[Me] = objects[Me] /\ \A p \in Peers : seen'[p] \subseteq seen[p]
      BY <2>8 DEF vars, world
    <3>2. UNCHANGED <<sqls, normal, hosts, pc, state, failed, lost>>
      BY Zenon, <2>8 DEF vars, call
    <3> QED BY Zenon, <2>0, <3>1, <3>2, PlanFrame
  <2>9. ASSUME NEW r \in Replicas, PodLost(r) \/ PodReady(r)
        PROVE  ShardInv' /\ DistributedInv'
    <3>1. objects'[Me] = objects[Me]
          /\ (seen' = seen \/ seen' = [p \in Peers |-> IF p = r THEN {} ELSE seen[p]])
      BY Zenon, <2>9 DEF PodLost, PodReady
    <3>2. \A p \in Peers : seen'[p] \subseteq seen[p]
      BY <3>1
    <3>3. UNCHANGED <<sqls, normal, hosts, pc, state, failed, lost>>
      BY Zenon, <2>9 DEF PodLost, PodReady, call
    <3> QED BY Zenon, <2>0, <3>1, <3>2, <3>3, PlanFrame
  <2>10. ASSUME NEW p \in Peers, NEW t \in Tables, CreateTable(p, t)
         PROVE  ShardInv' /\ DistributedInv'
    <3>1. objects' = [objects EXCEPT ![p] = @ \cup {t, DatabaseOf[t]}] /\ seen' = seen
      BY Zenon, <2>10 DEF CreateTable
    <3>2. objects \in [Replicas -> SUBSET Objects]
      BY Zenon DEF TypeOK
    <3>3. objects'[Me] = objects[Me] /\ \A q \in Peers : seen'[q] \subseteq seen[q]
      BY <3>1, <3>2, SchemerConstants
    <3>4. UNCHANGED <<sqls, normal, hosts, pc, state, failed, lost>>
      BY Zenon, <2>10 DEF CreateTable, call
    <3> QED BY Zenon, <2>0, <3>3, <3>4, PlanFrame
  <2> QED
    BY Zenon, <2>1, <2>2, <2>3, <2>4, <2>5, <2>6, <2>7, <2>8, <2>9, <2>10
    DEF Next, Call, Rest
<1> QED BY Zenon, <1>1, <1>2, <1>3 DEF CopyInv

(* The copy's invariant, in every state.                                   *)
THEOREM CopyInvariant == Spec => [](TypeOK /\ CopyInv)
BY TypeInit, CopyInvInit, TypeStep, CopyStep, PTL DEF Spec

(***************************************************************************)
(* When the spec lists every replica of the cluster, a replica that became *)
(* Sync has what its Normal peers had when the copy began, as long as they *)
(* served and the list of it was read to its end; whatever failed, was     *)
(* retried or was created meanwhile.                                       *)
(***************************************************************************)
THEOREM SyncedIsComplete == Spec => [](AllListed => SyncedHasShardTables)
<1>1. TypeOK /\ CopyInv => (AllListed => SyncedHasShardTables)
  <2> SUFFICES ASSUME CopyInv, AllListed, state = "Sync", pc = "idle",
                      "shard" \notin lost
               PROVE  \A p \in normal : seen[p] \subseteq objects[Me]
    BY DEF SyncedHasShardTables
  <2>1. ShardDue \subseteq objects[Me]
    BY DEF CopyInv, ShardInv, ShardKept
  <2> QED BY <2>1 DEF ShardDue
<1> QED BY <1>1, CopyInvariant, PTL

(***************************************************************************)
(* It also has the distributed tables of the cluster and the tables behind *)
(* them, when no query for them failed or was read in part.                *)
(***************************************************************************)
THEOREM SyncedIsDistributed == Spec => [](AllListed => SyncedHasDistributedTables)
<1>1. TypeOK /\ CopyInv => (AllListed => SyncedHasDistributedTables)
  <2> SUFFICES ASSUME TypeOK, CopyInv, AllListed, state = "Sync", pc = "idle",
                      "distributed" \notin lost
               PROVE  \A p \in Peers : \A t \in seen[p] \cap Distributed :
                        {t} \cup ({LocalTable[t]} \cap seen[p]) \subseteq objects[Me]
    BY Zenon DEF SyncedHasDistributedTables
  <2>1. DistributedDue \subseteq objects[Me]
    BY Zenon DEF CopyInv, DistributedInv
  <2>2. Distributed \subseteq Tables /\ \A t \in Distributed : LocalTable[t] \in Tables
    BY SchemerConstants
  <2> QED BY <2>1, <2>2 DEF DistributedDue
<1> QED BY <1>1, CopyInvariant, PTL

----------------------------------------------------------------------------
(* A copy that nothing disturbs *)

(***************************************************************************)
(* What such a copy needs to succeed: the views over a table are nested    *)
(* less deep than a list is tried, and neither a distributed table nor the *)
(* table behind it is a view, because the queries for distributed objects  *)
(* do not list what such a view reads from.                                *)
(***************************************************************************)
IsDepth(depth) ==
  \A t \in Tables : \A u \in Sources[t] : depth[u] < depth[t]

ViewsAreShallow == \E depth \in [Tables -> 1..MaxTries] : IsDepth(depth)

NoDistributedViews ==
  \A t \in Distributed : Sources[t] = {} /\ Sources[LocalTable[t]] = {}

CopyCanSucceed == Me \in Listed /\ ViewsAreShallow /\ NoDistributedViews

(* The number of the try by which a table is there.                        *)
Depth == CHOOSE depth \in [Tables -> 1..MaxTries] : IsDepth(depth)

(* A view on a peer has its sources there.                                 *)
SourcesThere ==
  \A p \in Peers : \A t \in objects[p] \cap Tables : Sources[t] \subseteq objects[p]

(* A list begins with its first try.                                       *)
FreshInv ==
  /\ ~Applying => tries = 1 /\ next = 1
  /\ failed => Applying \/ pc = "tables"

(* A list: databases come first, and what a statement needs is there or is *)
(* on the list.                                                            *)
DatabasesFirst(list) ==
  \A i, j \in DOMAIN list : list[i] \in Tables /\ list[j] \in Databases => j < i

NeedsPlanned(list) ==
  \A i \in DOMAIN list : list[i] \in Tables =>
    Needs(list[i]) \subseteq objects[Me] \cup Range(list)

(* The statements that a try is past have run or wait for a later try; no  *)
(* table is left longer than its depth.                                    *)
Left(i) == IF i < next THEN tries + 1 ELSE tries

InTime ==
  \A i \in DOMAIN sqls :
    /\ sqls[i] \in Databases => i >= next
    /\ sqls[i] \in Tables => Depth[sqls[i]] >= Left(i)

FailureIsLeft == failed => \E i \in DOMAIN sqls : i < next /\ sqls[i] # NoSQL

CalmInv ==
  calm =>
    /\ Me \in up /\ pc # "drop" /\ (pc = "tables" => ~failed)
    /\ pc = "tables" => Range(sqls) = {DatabaseOf[t] : t \in TablesOn(ShardHosts)}
    /\ pc = "distributed tables" => Range(sqls) = DistributedDatabasesOn(hosts)
    /\ Applying => DatabasesFirst(sqls) /\ NeedsPlanned(sqls) /\ InTime /\ FailureIsLeft

(* The depth orders a view after its sources.                              *)
LEMMA DepthOrders ==
  ASSUME CopyCanSucceed
  PROVE  Depth \in [Tables -> 1..MaxTries] /\ IsDepth(Depth)
<1>1. \E depth \in [Tables -> 1..MaxTries] : IsDepth(depth)
  BY Zenon DEF CopyCanSucceed, ViewsAreShallow
<1> QED BY Zenon, <1>1 DEF Depth

(* At the start nothing is listed, and no call is undisturbed.             *)
LEMMA CalmInit == Init => SourcesThere /\ FreshInv /\ CalmInv
<1> SUFFICES ASSUME Init PROVE SourcesThere /\ FreshInv /\ CalmInv
  OBVIOUS
<1>1. \A p \in Peers : objects[p] = {}
  BY DEF Init
<1>2. pc = "idle" /\ tries = 1 /\ next = 1
  BY DEF Init
<1>3. ~failed /\ ~calm
  BY Zenon DEF Init
<1> QED BY <1>1, <1>2, <1>3 DEF SourcesThere, FreshInv, Applying, CalmInv

(* Only users create tables on peers, views after their sources.           *)
LEMMA SourcesThereStep == TypeOK /\ SourcesThere /\ [Next]_vars => SourcesThere'
<1> SUFFICES ASSUME TypeOK, SourcesThere, [Next]_vars PROVE SourcesThere'
  OBVIOUS
<1>1. ASSUME \A p \in Peers : objects'[p] = objects[p] PROVE SourcesThere'
  BY <1>1 DEF SourcesThere
<1>2. CASE UNCHANGED objects
  BY <1>1, <1>2
<1>3. CASE Exec \/ EndOfTry
  BY <1>1, <1>3, PeersKeep
<1>4. ASSUME NEW q \in Peers, NEW t \in Tables, CreateTable(q, t) PROVE SourcesThere'
  <2>1. /\ objects' = [objects EXCEPT ![q] = @ \cup {t, DatabaseOf[t]}]
        /\ Sources[t] \subseteq objects[q]
    BY Zenon, <1>4 DEF CreateTable
  <2>2. objects \in [Replicas -> SUBSET Objects]
    BY Zenon DEF TypeOK
  <2>3. \A p \in Peers : objects'[p] = IF p = q THEN objects[p] \cup {t, DatabaseOf[t]}
                                       ELSE objects[p]
    BY <2>1, <2>2
  <2>4. DatabaseOf[t] \notin Tables
    BY SchemerConstants
  <2> QED BY <2>1, <2>3, <2>4 DEF SourcesThere
<1>5. CASE \/ CreateTablesForReplica \/ FetchDatabases \/ FetchTables
           \/ FetchDistributedDatabases \/ FetchDistributedTables \/ PodNotReady
           \/ DeleteTablesForReplica \/ UNCHANGED vars
           \/ \E r \in Replicas : PodLost(r) \/ PodReady(r)
  BY Zenon, <1>2, <1>5
  DEF CreateTablesForReplica, FetchDatabases, FetchTables, FetchDistributedDatabases,
      FetchDistributedTables, PodNotReady, DeleteTablesForReplica, PodLost, PodReady,
      vars, world
<1> QED BY Zenon, <1>3, <1>4, <1>5 DEF Next, Call, Rest

(* Every list begins with its first try, and without an error.             *)
LEMMA FreshInvStep == TypeOK /\ FreshInv /\ [Next]_vars => FreshInv'
<1> SUFFICES ASSUME TypeOK, FreshInv, [Next]_vars PROVE FreshInv'
  OBVIOUS
<1>1. ASSUME UNCHANGED <<pc, next, tries, failed>> PROVE FreshInv'
  BY Zenon, <1>1 DEF FreshInv, Applying
<1>2. ASSUME NEW sql, Start(sql) PROVE FreshInv'
  BY Zenon, <1>2 DEF FreshInv, Start
<1>3. CASE CreateTablesForReplica
  <2>1. pc = "idle" /\ pc' \in {"distributed", "databases"}
        /\ UNCHANGED <<next, tries, failed>>
    BY Zenon, <1>3 DEF CreateTablesForReplica
  <2>2. ~failed /\ tries = 1 /\ next = 1
    BY <2>1 DEF FreshInv, Applying
  <2> QED BY Zenon, <2>1, <2>2 DEF FreshInv
<1>4. CASE FetchDatabases
  <2>1. pc = "databases" /\ pc' = "tables" /\ UNCHANGED <<next, tries>>
    BY Zenon, <1>4 DEF FetchDatabases
  <2>2. tries = 1 /\ next = 1
    BY <2>1 DEF FreshInv, Applying
  <2> QED BY Zenon, <2>1, <2>2 DEF FreshInv
<1>5. CASE FetchTables
  <2>1. CASE GiveUp
    BY Zenon, <1>2, <2>1 DEF GiveUp
  <2>2. CASE pc' = "create" /\ UNCHANGED <<next, tries, failed>>
    <3>1. pc = "tables"
      BY Zenon, <1>5 DEF FetchTables
    <3>2. tries = 1 /\ next = 1 /\ Applying'
      BY <2>2, <3>1 DEF FreshInv, Applying
    <3> QED BY Zenon, <2>2, <3>2 DEF FreshInv
  <2> QED BY Zenon, <1>5, <2>1, <2>2 DEF FetchTables
<1>6. CASE FetchDistributedDatabases \/ FetchDistributedTables
  <2>1. pc \in {"distributed", "distributed tables"} /\ UNCHANGED <<next, tries, failed>>
    BY Zenon, <1>6 DEF FetchDistributedDatabases, FetchDistributedTables
  <2>2. tries = 1 /\ next = 1 /\ ~failed
    BY <2>1 DEF FreshInv, Applying
  <2> QED BY Zenon, <2>1, <2>2 DEF FreshInv
<1>7. CASE Exec
  <2>1. Applying'
    BY Zenon, <1>7 DEF Exec, Applying
  <2> QED BY Zenon, <2>1 DEF FreshInv
<1>8. CASE EndOfTry
  <2>1. CASE failed /\ TryAgain
    <3>1. Applying'
      BY Zenon, <1>8, <2>1 DEF EndOfTry, Applying
    <3> QED BY Zenon, <3>1 DEF FreshInv
  <2>2. CASE ~(failed /\ TryAgain)
    BY Zenon, <1>2, <1>8, <2>2 DEF EndOfTry, Synced, GiveUp
  <2> QED BY <2>1, <2>2
<1>9. CASE DeleteTablesForReplica
  BY Zenon, <1>2, <1>9 DEF DeleteTablesForReplica
<1>10. CASE \/ PodNotReady \/ UNCHANGED vars
            \/ \E r \in Replicas : PodLost(r) \/ PodReady(r)
            \/ \E p \in Peers, t \in Tables : CreateTable(p, t)
  BY Zenon, <1>1, <1>10 DEF PodNotReady, PodLost, PodReady, CreateTable, vars, call
<1> QED
  BY Zenon, <1>3, <1>4, <1>5, <1>6, <1>7, <1>8, <1>9, <1>10 DEF Next, Call, Rest

(* A list of databases and then of tables, with all that these need.       *)
LEMMA DatabasesThenTables ==
  ASSUME NEW dbs \in Seq(Objects \cup {NoSQL}), NEW ts \in Seq(Objects \cup {NoSQL}),
         Range(dbs) \subseteq Databases, Range(ts) \subseteq Tables,
         \A t \in Range(ts) : Needs(t) \subseteq Range(dbs) \cup Range(ts)
  PROVE  /\ DatabasesFirst(dbs \o ts)
         /\ \A i \in DOMAIN (dbs \o ts) : (dbs \o ts)[i] \in Tables =>
              Needs((dbs \o ts)[i]) \subseteq Range(dbs \o ts)
<1> DEFINE list == dbs \o ts
           n == Len(dbs)
<1>1. /\ n \in Nat /\ Len(ts) \in Nat /\ DOMAIN list = 1..(n + Len(ts))
      /\ DOMAIN dbs = 1..n /\ DOMAIN ts = 1..Len(ts)
      /\ \A i \in DOMAIN list : list[i] = IF i <= n THEN dbs[i] ELSE ts[i - n]
  OBVIOUS
<1>2. Range(list) = Range(dbs) \cup Range(ts)
  BY ConcatMembers
<1>3. Databases \cap Tables = {}
  BY SchemerConstants
<1> HIDE DEF list, n
<1>4. ASSUME NEW i \in DOMAIN list PROVE (i <= n /\ list[i] \in Range(dbs))
                                      \/ (i > n /\ list[i] \in Range(ts))
  <2>1. i \in Nat
    BY <1>1
  <2>2. CASE i <= n
    BY <1>1, <2>1, <2>2 DEF Range
  <2>3. CASE ~(i <= n)
    <3>1. i - n \in DOMAIN ts
      BY <1>1, <2>1, <2>3
    <3> QED BY <1>1, <2>1, <2>3, <3>1 DEF Range
  <2> QED BY <2>2, <2>3
<1>5. DatabasesFirst(list)
  <2> SUFFICES ASSUME NEW i \in DOMAIN list, NEW j \in DOMAIN list,
                      list[i] \in Tables, list[j] \in Databases
               PROVE  j < i
    BY DEF DatabasesFirst
  <2>1. i > n
    BY <1>3, <1>4
  <2>2. j <= n
    BY <1>3, <1>4
  <2> QED BY <1>1, <2>1, <2>2
<1>6. ASSUME NEW i \in DOMAIN list, list[i] \in Tables
      PROVE  Needs(list[i]) \subseteq Range(list)
  <2>1. list[i] \in Range(ts)
    BY <1>3, <1>4, <1>6
  <2> QED BY <1>2, <2>1
<1> QED BY <1>5, <1>6 DEF list

(* In its first try nothing of a list is late.                             *)
LEMMA ListBegins ==
  ASSUME CopyCanSucceed, sqls' \in Seq(Objects \cup {NoSQL}), next' = 1, tries' = 1,
         ~failed'
  PROVE  InTime' /\ FailureIsLeft'
<1>1. \A i \in DOMAIN sqls' : i \in Nat /\ i >= 1
  OBVIOUS
<1>2. \A i \in DOMAIN sqls' : Left(i)' = 1
  BY <1>1 DEF Left
<1>3. \A t \in Tables : Depth[t] >= 1
  BY DepthOrders, SchemerConstants
<1> QED BY <1>1, <1>2, <1>3 DEF InTime, FailureIsLeft

(* A query that asks peers finds the sources of every view it finds.       *)
LEMMA SourcesAreFound ==
  ASSUME SourcesThere, NEW asked \in SUBSET Peers, NEW t \in TablesOn(asked)
  PROVE  Sources[t] \subseteq TablesOn(asked)
<1>1. PICK h \in asked \cap up : t \in objects[h] /\ t \in Tables
  BY DEF TablesOn
<1>2. Sources[t] \subseteq objects[h] /\ Sources[t] \subseteq Tables
  BY <1>1, SchemerConstants DEF SourcesThere
<1> QED BY <1>1, <1>2 DEF TablesOn

(* The list of the shard's objects begins well.                            *)
LEMMA ShardListBegins ==
  ASSUME CopyCanSucceed, TypeOK, SourcesThere, FreshInv, ~failed, pc = "tables",
         Range(sqls) = {DatabaseOf[t] : t \in TablesOn(ShardHosts)},
         NEW ts \in SetToSeqs(TablesOn(ShardHosts)), sqls' = sqls \o ts,
         UNCHANGED <<next, tries, objects>>, ~failed'
  PROVE  DatabasesFirst(sqls') /\ NeedsPlanned(sqls)' /\ InTime' /\ FailureIsLeft'
<1> DEFINE T == TablesOn(ShardHosts)
<1>1. T \in SUBSET Tables
  BY QueryTypes
<1>2. ts \in Seq(Objects \cup {NoSQL}) /\ Range(ts) = T
  BY <1>1, TablesAreFinite, ListOfSet, ListTypes
<1>3. sqls \in Seq(Objects \cup {NoSQL})
  BY Zenon DEF TypeOK
<1>4. \A t \in T : Sources[t] \subseteq T
  <2>1. ShardHosts \in SUBSET Peers
    <3>1. normal \subseteq ShardPeers
      BY Zenon DEF TypeOK
    <3> QED BY <3>1 DEF ShardHosts
  <2> QED BY <2>1, SourcesAreFound
<1> HIDE DEF T
<1>5. Range(sqls) = {DatabaseOf[t] : t \in T}
  BY DEF T
<1>6. Range(sqls) \subseteq Databases
  <2>1. \A t \in T : DatabaseOf[t] \in Databases
    BY <1>1, SchemerConstants
  <2> QED BY <1>5, <2>1
<1>7. \A t \in Range(ts) : Needs(t) \subseteq Range(sqls) \cup Range(ts)
  BY <1>1, <1>2, <1>4, <1>5 DEF Needs
<1>8. /\ DatabasesFirst(sqls \o ts)
      /\ \A i \in DOMAIN (sqls \o ts) : (sqls \o ts)[i] \in Tables =>
           Needs((sqls \o ts)[i]) \subseteq Range(sqls \o ts)
  BY <1>1, <1>2, <1>3, <1>6, <1>7, DatabasesThenTables
<1>9. DatabasesFirst(sqls') /\ NeedsPlanned(sqls)'
  BY <1>8 DEF NeedsPlanned
<1>10. InTime' /\ FailureIsLeft'
  <2>1. next' = 1 /\ tries' = 1
    BY DEF FreshInv, Applying
  <2>2. sqls' \in Seq(Objects \cup {NoSQL})
    BY <1>2, <1>3
  <2> QED BY <2>1, <2>2, ListBegins
<1> QED BY <1>9, <1>10

(* Concatenation of lists of statements is associative.                    *)
LEMMA ConcatLists ==
  \A s, t, u \in Seq(Objects \cup {NoSQL}) : (s \o t) \o u = s \o (t \o u)
BY ConcatAssociative

(* It gives a list of the statements of both.                              *)
LEMMA ConcatIsList ==
  \A s, t \in Seq(Objects \cup {NoSQL}) :
    /\ s \o t \in Seq(Objects \cup {NoSQL})
    /\ Range(s \o t) = Range(s) \cup Range(t)
<1>1. \A s, t \in Seq(Objects \cup {NoSQL}) : s \o t \in Seq(Objects \cup {NoSQL})
  OBVIOUS
<1> QED BY <1>1, ConcatMembers

(* So does the list of the cluster's distributed objects.                  *)
LEMMA DistributedListBegins ==
  ASSUME CopyCanSucceed, TypeOK, FreshInv, pc = "distributed tables",
         Range(sqls) = DistributedDatabasesOn(hosts),
         NEW locals \in SetToSeqs(LocalTablesOn(hosts) \ Distributed),
         NEW ts \in SetToSeqs(TablesOn(hosts) \cap Distributed),
         sqls' = sqls \o locals \o ts, UNCHANGED <<next, tries, objects>>, ~failed'
  PROVE  DatabasesFirst(sqls') /\ NeedsPlanned(sqls)' /\ InTime' /\ FailureIsLeft'
<1> DEFINE L == LocalTablesOn(hosts) \ Distributed
           D == TablesOn(hosts) \cap Distributed
           tables == locals \o ts
<1>1. L \in SUBSET Tables /\ D \in SUBSET Tables
  BY QueryTypes
<1>2. /\ locals \in Seq(Objects \cup {NoSQL}) /\ ts \in Seq(Objects \cup {NoSQL})
      /\ Range(locals) = L /\ Range(ts) = D
  BY <1>1, TablesAreFinite, ListOfSet, ListTypes
<1>3. sqls \in Seq(Objects \cup {NoSQL})
  BY Zenon DEF TypeOK
<1> HIDE DEF L, D
<1>4. tables \in Seq(Objects \cup {NoSQL}) /\ sqls' = sqls \o tables
  <2>1. (sqls \o locals) \o ts = sqls \o (locals \o ts)
    BY Zenon, <1>2, <1>3, ConcatLists
  <2>2. locals \o ts \in Seq(Objects \cup {NoSQL})
    BY Zenon, <1>2, ConcatIsList
  <2> QED BY Zenon, <2>1, <2>2
<1>5. Range(tables) = L \cup D
  <2>1. Range(locals \o ts) = Range(locals) \cup Range(ts)
    BY Zenon, <1>2, ConcatIsList
  <2> QED BY Zenon, <1>2, <2>1
<1>6. \A t \in L \cup D : Needs(t) \subseteq Range(sqls)
  <2> USE DEF L, D
  <2>1. ASSUME NEW t \in L PROVE Needs(t) \subseteq Range(sqls)
    <3>1. \E d \in D : t = LocalTable[d]
      BY DEF LocalTablesOn
    <3>2. Sources[t] = {}
      BY <3>1 DEF CopyCanSucceed, NoDistributedViews
    <3>3. DatabaseOf[t] \in Range(sqls)
      BY <3>1 DEF DistributedDatabasesOn
    <3> QED BY <3>2, <3>3 DEF Needs
  <2>2. ASSUME NEW t \in D PROVE Needs(t) \subseteq Range(sqls)
    <3>1. Sources[t] = {}
      BY DEF CopyCanSucceed, NoDistributedViews
    <3>2. DatabaseOf[t] \in Range(sqls)
      BY DEF DistributedDatabasesOn
    <3> QED BY <3>1, <3>2 DEF Needs
  <2> HIDE DEF L, D
  <2> QED BY <2>1, <2>2
<1>7. Range(sqls) \subseteq Databases
  <2>1. \A t \in D : DatabaseOf[t] \in Databases /\ DatabaseOf[LocalTable[t]] \in Databases
    BY <1>1, SchemerConstants DEF D
  <2> QED BY <2>1 DEF DistributedDatabasesOn, D
<1> HIDE DEF tables
<1>8. /\ DatabasesFirst(sqls \o tables)
      /\ \A i \in DOMAIN (sqls \o tables) : (sqls \o tables)[i] \in Tables =>
           Needs((sqls \o tables)[i]) \subseteq Range(sqls \o tables)
  <2>1. \A t \in Range(tables) : Needs(t) \subseteq Range(sqls) \cup Range(tables)
    BY <1>5, <1>6
  <2>2. Range(tables) \subseteq Tables
    BY <1>1, <1>5
  <2> QED BY <1>3, <1>4, <1>7, <2>1, <2>2, DatabasesThenTables
<1>9. DatabasesFirst(sqls') /\ NeedsPlanned(sqls)'
  BY <1>4, <1>8 DEF NeedsPlanned
<1>10. InTime' /\ FailureIsLeft'
  <2>1. next' = 1 /\ tries' = 1
    BY DEF FreshInv, Applying
  <2>2. sqls \o tables \in Seq(Objects \cup {NoSQL})
    BY Zenon, <1>3, <1>4, ConcatIsList
  <2>3. sqls' \in Seq(Objects \cup {NoSQL})
    BY Zenon, <1>4, <2>2
  <2> QED BY Zenon, <2>1, <2>3, ListBegins
<1> QED BY <1>9, <1>10

(* A statement that is not run yet, and fails by itself, creates a view    *)
(* that a later try can create: what it reads from is still on the list.   *)
LEMMA FailureWaits ==
  ASSUME CopyCanSucceed, TypeOK, DatabasesFirst(sqls), NeedsPlanned(sqls), InTime,
         next \in DOMAIN sqls, sqls[next] # NoSQL, ~Succeeds(sqls[next])
  PROVE  sqls[next] \in Tables /\ Depth[sqls[next]] >= tries + 1
<1> DEFINE o == sqls[next]
<1>0. sqls \in Seq(Objects \cup {NoSQL}) /\ next \in Nat /\ tries \in Nat
  <2>1. sqls \in Seq(Objects \cup {NoSQL}) /\ next \in Nat \ {0} /\ tries \in 1..MaxTries
    BY Zenon DEF TypeOK
  <2> QED BY <2>1, SchemerConstants
<1>1. o \in Objects /\ \A i \in DOMAIN sqls : i \in Nat
  BY <1>0
<1>2. o \in Tables /\ Needs(o) = {DatabaseOf[o]} \cup Sources[o]
  <2>1. o \notin Tables => Needs(o) = {}
    BY DEF Needs
  <2>2. Needs(o) # {}
    BY Zenon DEF Succeeds
  <2>3. o \in Tables
    BY <2>1, <2>2
  <2> QED BY <2>3 DEF Needs
<1>3. PICK u \in Needs(o) : u \notin objects[Me]
  BY Zenon DEF Succeeds
<1>4. Needs(o) \subseteq objects[Me] \cup Range(sqls)
  BY <1>2 DEF NeedsPlanned
<1>5. PICK j \in DOMAIN sqls : sqls[j] = u
  BY <1>3, <1>4 DEF Range
<1>6. u # DatabaseOf[o]
  <2> SUFFICES ASSUME u = DatabaseOf[o] PROVE FALSE
    OBVIOUS
  <2>1. u \in Databases
    BY <1>2, SchemerConstants
  <2>2. j < next /\ j >= next
    BY <1>2, <1>5, <2>1 DEF DatabasesFirst, InTime
  <2> QED BY <1>0, <1>1, <2>2
<1>7. u \in Sources[o] /\ u \in Tables
  BY <1>2, <1>3, <1>6, SchemerConstants
<1>8. Depth[u] < Depth[o]
  BY <1>2, <1>7, DepthOrders DEF IsDepth
<1>9. Depth[u] \in Nat /\ Depth[o] \in Nat
  BY <1>2, <1>7, DepthOrders, SchemerConstants
<1>10. Depth[u] >= Left(j)
  BY <1>5, <1>7 DEF InTime
<1>11. Left(j) \in Nat /\ Left(j) >= tries
  BY <1>0 DEF Left
<1> QED BY <1>0, <1>2, <1>8, <1>9, <1>10, <1>11

(* A statement of such a list runs, or waits for a later try.              *)
LEMMA CalmExec ==
  ASSUME CopyCanSucceed, TypeOK, Me \in up, pc # "drop",
         DatabasesFirst(sqls), NeedsPlanned(sqls), InTime, FailureIsLeft, Exec, calm'
  PROVE  DatabasesFirst(sqls') /\ NeedsPlanned(sqls)' /\ InTime' /\ FailureIsLeft'
<1>0. /\ sqls \in Seq(Objects \cup {NoSQL}) /\ next \in Nat
      /\ tries \in Nat /\ objects \in [Replicas -> SUBSET Objects]
  <2>1. /\ sqls \in Seq(Objects \cup {NoSQL}) /\ next \in Nat \ {0} /\ tries \in 1..MaxTries
        /\ objects \in [Replicas -> SUBSET Objects]
    BY Zenon DEF TypeOK
  <2> QED BY <2>1, SchemerConstants
<1>1. /\ next \in DOMAIN sqls /\ next' = next + 1 /\ tries' = tries
      /\ \A i \in DOMAIN sqls : i \in Nat
  <2>1. next <= Len(sqls) /\ next' = next + 1 /\ tries' = tries
    BY Zenon DEF Exec
  <2>2. next \in Nat \ {0}
    BY Zenon DEF TypeOK
  <2> QED BY <1>0, <2>1, <2>2
<1>2. NoSQL \notin Databases /\ NoSQL \notin Tables /\ Databases \cap Tables = {}
  BY SchemerConstants
<1>3. \A i \in DOMAIN sqls : i # next => Left(i)' = Left(i) /\ (i >= next => i >= next')
                                         /\ (i < next => i < next')
  BY <1>0, <1>1 DEF Left
<1>4. next < next' /\ \A i \in DOMAIN sqls : i = next => Left(i)' = tries + 1
  BY <1>0, <1>1 DEF Left
<1>5. ASSUME UNCHANGED sqls,
             \/ sqls[next] = NoSQL /\ (failed' <=> failed)
             \/ /\ sqls[next] # NoSQL
                /\ sqls[next] \in Tables /\ Depth[sqls[next]] >= tries + 1,
             UNCHANGED objects
      PROVE  DatabasesFirst(sqls') /\ NeedsPlanned(sqls)' /\ InTime' /\ FailureIsLeft'
  <2>1. sqls' = sqls /\ objects' = objects
    BY <1>5
  <2>2. DatabasesFirst(sqls')
    BY Zenon, <2>1
  <2>3. NeedsPlanned(sqls)'
    BY Zenon, <2>1 DEF NeedsPlanned
  <2>4. InTime'
    <3>1. ASSUME NEW i \in DOMAIN sqls
          PROVE  /\ sqls[i] \in Databases => i >= next'
                 /\ sqls[i] \in Tables => Depth[sqls[i]] >= Left(i)'
      <4>1. CASE i = next
        BY <1>2, <1>4, <1>5, <4>1
      <4>2. CASE i # next
        BY <1>3, <4>2 DEF InTime
      <4> QED BY <4>1, <4>2
    <3> QED BY <2>1, <3>1 DEF InTime
  <2>5. FailureIsLeft'
    <3>1. CASE sqls[next] # NoSQL
      BY <1>1, <1>4, <2>1, <3>1 DEF FailureIsLeft
    <3>2. ASSUME sqls[next] = NoSQL, failed'
          PROVE  \E i \in DOMAIN sqls' : i < next' /\ sqls'[i] # NoSQL
      <4>1. failed
        BY Zenon, <1>5, <3>2
      <4>2. PICK i \in DOMAIN sqls : i < next /\ sqls[i] # NoSQL
        BY Zenon, <4>1 DEF FailureIsLeft
      <4>3. i < next'
        BY <1>3, <3>2, <4>2
      <4> QED BY <2>1, <4>2, <4>3
    <3> QED BY Zenon, <3>1, <3>2 DEF FailureIsLeft
  <2> QED BY <2>2, <2>3, <2>4, <2>5
<1>6. ASSUME sqls[next] # NoSQL, sqls' = [sqls EXCEPT ![next] = NoSQL],
             objects' = [objects EXCEPT ![Me] = @ \cup {sqls[next]}], failed' <=> failed
      PROVE  DatabasesFirst(sqls') /\ NeedsPlanned(sqls)' /\ InTime' /\ FailureIsLeft'
  <2>1. /\ DOMAIN sqls' = DOMAIN sqls /\ sqls'[next] = NoSQL
        /\ \A i \in DOMAIN sqls : i # next => sqls'[i] = sqls[i]
    BY <1>0, <1>1, <1>6
  <2>2. objects'[Me] = objects[Me] \cup {sqls[next]}
    BY <1>0, <1>6
  <2>3. DatabasesFirst(sqls')
    BY <1>2, <2>1 DEF DatabasesFirst
  <2>4. objects[Me] \cup Range(sqls) \subseteq objects'[Me] \cup Range(sqls')
    <3>1. \A i \in DOMAIN sqls : sqls[i] \in objects'[Me] \cup Range(sqls')
      BY <2>1, <2>2 DEF Range
    <3> QED BY <2>2, <3>1 DEF Range
  <2>5. NeedsPlanned(sqls)'
    <3>1. ASSUME NEW i \in DOMAIN sqls', sqls'[i] \in Tables
          PROVE  Needs(sqls'[i]) \subseteq objects'[Me] \cup Range(sqls')
      <4>1. i # next /\ i \in DOMAIN sqls /\ sqls'[i] = sqls[i]
        BY <1>2, <2>1, <3>1
      <4>2. Needs(sqls[i]) \subseteq objects[Me] \cup Range(sqls)
        BY <3>1, <4>1 DEF NeedsPlanned
      <4> QED BY <2>4, <4>1, <4>2
    <3> QED BY <3>1 DEF NeedsPlanned
  <2>6. InTime'
    <3>1. ASSUME NEW i \in DOMAIN sqls'
          PROVE  /\ sqls'[i] \in Databases => i >= next'
                 /\ sqls'[i] \in Tables => Depth[sqls'[i]] >= Left(i)'
      <4>1. CASE i = next
        BY <1>2, <2>1, <4>1
      <4>2. CASE i # next
        BY <1>3, <2>1, <4>2 DEF InTime
      <4> QED BY <4>1, <4>2
    <3> QED BY <3>1 DEF InTime
  <2>7. FailureIsLeft'
    <3> SUFFICES ASSUME failed' PROVE \E i \in DOMAIN sqls' : i < next' /\ sqls'[i] # NoSQL
      BY Zenon DEF FailureIsLeft
    <3>1. PICK i \in DOMAIN sqls : i < next /\ sqls[i] # NoSQL
      BY Zenon, <1>6 DEF FailureIsLeft
    <3>2. i # next /\ i < next'
      BY <1>0, <1>1, <3>1
    <3> QED BY <2>1, <3>1, <3>2
  <2> QED BY <2>3, <2>5, <2>6, <2>7
<1>7. CASE sqls[next] = NoSQL
  BY Zenon, <1>5, <1>7 DEF Exec
<1>8. CASE sqls[next] # NoSQL /\ ExecSucceeds(sqls[next])
  BY Zenon, <1>6, <1>8 DEF ExecSucceeds, Dropping
<1>9. CASE sqls[next] # NoSQL /\ ExecFails(sqls[next])
  <2>1. ~Succeeds(sqls[next]) /\ UNCHANGED <<objects, sqls>>
    BY Zenon, <1>9 DEF ExecFails, Dropping, Fault
  <2>2. sqls[next] \in Tables /\ Depth[sqls[next]] >= tries + 1
    BY <1>1, <1>9, <2>1, FailureWaits
  <2> QED BY Zenon, <1>5, <1>9, <2>1, <2>2
<1> QED BY Zenon, <1>7, <1>8, <1>9 DEF Exec

(* A try with an error is not the last one, and what it left is in time    *)
(* for the next.                                                           *)
LEMMA CalmTryEnds ==
  ASSUME CopyCanSucceed, TypeOK, pc # "drop", InTime, FailureIsLeft, EndOfTry, failed
  PROVE  /\ TryAgain
         /\ DatabasesFirst(sqls) => DatabasesFirst(sqls')
         /\ NeedsPlanned(sqls) => NeedsPlanned(sqls)'
         /\ InTime' /\ FailureIsLeft'
<1>0. /\ sqls \in Seq(Objects \cup {NoSQL}) /\ next \in Nat /\ tries \in Nat
      /\ tries \in 1..MaxTries /\ MaxTries \in Nat
  <2>1. sqls \in Seq(Objects \cup {NoSQL}) /\ next \in Nat \ {0} /\ tries \in 1..MaxTries
    BY Zenon DEF TypeOK
  <2> QED BY <2>1, SchemerConstants
<1>1. \A i \in DOMAIN sqls : i \in Nat /\ 1 <= i /\ i < next
  BY <1>0 DEF EndOfTry
<1>2. \A i \in DOMAIN sqls : /\ sqls[i] \notin Databases
                             /\ sqls[i] \in Tables => Depth[sqls[i]] >= tries + 1
  BY <1>0, <1>1 DEF InTime, Left
<1>3. PICK i \in DOMAIN sqls : sqls[i] # NoSQL
  BY Zenon DEF FailureIsLeft
<1>4. sqls[i] \in Tables /\ Depth[sqls[i]] >= tries + 1
  <2>1. sqls[i] \in Objects
    BY <1>0, <1>3
  <2> QED BY <1>2, <2>1
<1>5. TryAgain
  <2>1. Depth[sqls[i]] \in 1..MaxTries
    BY <1>4, DepthOrders
  <2>2. tries < MaxTries
    BY <1>0, <1>4, <2>1
  <2> QED BY Zenon, <2>2 DEF TryAgain, Tries, Dropping
<1>6. tries' = tries + 1 /\ next' = 1 /\ ~failed' /\ UNCHANGED <<sqls, objects>>
  BY Zenon, <1>5 DEF EndOfTry
<1>7. InTime'
  <2>1. \A j \in DOMAIN sqls : Left(j)' = tries + 1
    BY <1>1, <1>6 DEF Left
  <2> QED BY <1>2, <1>6, <2>1 DEF InTime
<1>8. FailureIsLeft'
  BY Zenon, <1>6 DEF FailureIsLeft
<1>9. sqls' = sqls /\ objects' = objects
  BY <1>6
<1> QED BY Zenon, <1>5, <1>7, <1>8, <1>9 DEF NeedsPlanned

(* While Me serves and is listed, a query only fails by a disturbance.     *)
LEMMA CalmQuery ==
  ASSUME CopyCanSucceed, Me \in up, calm' PROVE CanAnswer /\ ~QueryFails
<1>1. Listed \cap up # {}
  BY DEF CopyCanSucceed
<1>2. ~QueryFails
  BY Zenon, <1>1 DEF QueryFails, Fault
<1> QED BY Zenon, <1>1, <1>2 DEF CanAnswer

(* Nor are rows missing from what it reads.                                *)
LEMMA CalmReads ==
  ASSUME calm' PROVE \A answer, rows, list : Reads(answer, rows, list) => rows = answer
BY Zenon, AllIsRead

(* Every step of an undisturbed copy keeps what its success relies on.     *)
LEMMA CalmInvStep ==
  CopyCanSucceed /\ TypeOK /\ SourcesThere /\ FreshInv /\ CalmInv /\ [Next]_vars
    => CalmInv'
<1> SUFFICES ASSUME CopyCanSucceed, TypeOK, SourcesThere, FreshInv, CalmInv,
                    [Next]_vars, calm'
             PROVE  CalmInv'
  BY Zenon DEF CalmInv
<1>1. ASSUME UNCHANGED <<objects, up, pc, normal, hosts, sqls, next, tries, failed>>, calm
      PROVE  CalmInv'
  <2>1. /\ objects' = objects /\ up' = up /\ pc' = pc /\ normal' = normal
        /\ hosts' = hosts /\ sqls' = sqls /\ next' = next /\ tries' = tries
        /\ (failed' <=> failed)
    BY Zenon, <1>1
  <2> QED
    BY Zenon, <1>1, <2>1 DEF CalmInv, TablesOn, ShardHosts, DistributedDatabasesOn,
       Applying, NeedsPlanned, InTime, Left, FailureIsLeft
<1>2. CASE CreateTablesForReplica
  <2>1. pc' \in {"distributed", "databases"} /\ up' = up /\ Me \in up
    BY Zenon, <1>2 DEF CreateTablesForReplica, world
  <2> QED BY <2>1 DEF CalmInv, Applying
<1>3. ASSUME calm, FetchDatabases PROVE CalmInv'
  <2>1. ~QueryFails /\ Me \in up
    BY <1>3, CalmQuery DEF CalmInv
  <2>2. /\ pc = "databases" /\ pc' = "tables" /\ failed' = failed
        /\ sqls' \in SetToSeqs({DatabaseOf[t] : t \in TablesOn(ShardHosts)})
        /\ UNCHANGED <<objects, up, normal>>
    <3> DEFINE D == {DatabaseOf[t] : t \in TablesOn(ShardHosts)}
    <3>1. \A rows : Reads(D, rows, "shard") => rows = D
      BY Zenon, CalmReads
    <3>2. /\ pc = "databases" /\ pc' = "tables" /\ failed' = failed
          /\ UNCHANGED <<objects, up, normal>>
          /\ \E rows \in SUBSET D : sqls' \in SetToSeqs(rows) /\ Reads(D, rows, "shard")
      BY Zenon, <1>3, <2>1 DEF FetchDatabases, world
    <3> HIDE DEF D
    <3>3. sqls' \in SetToSeqs(D)
      BY Zenon, <3>1, <3>2
    <3> QED BY Zenon, <3>2, <3>3 DEF D
  <2>3. ~failed'
    <3>1. ~failed
      BY <2>2 DEF FreshInv, Applying
    <3> QED BY Zenon, <2>2, <3>1
  <2>4. Range(sqls') = {DatabaseOf[t] : t \in TablesOn(ShardHosts)}
    <3>1. TablesOn(ShardHosts) \in SUBSET Tables
      BY QueryTypes
    <3> QED BY <2>2, <3>1, TablesAreFinite, ListOfSet
  <2>5. TablesOn(ShardHosts)' = TablesOn(ShardHosts)
    BY <2>2 DEF TablesOn, ShardHosts
  <2>6. Range(sqls)' = {DatabaseOf[t] : t \in TablesOn(ShardHosts)}'
    BY <2>4, <2>5
  <2> QED BY <2>1, <2>2, <2>3, <2>6 DEF CalmInv, Applying
<1>4. ASSUME calm, FetchTables PROVE CalmInv'
  <2>1. /\ ~QueryFails /\ Me \in up /\ pc = "tables" /\ ~failed
        /\ Range(sqls) = {DatabaseOf[t] : t \in TablesOn(ShardHosts)}
    <3>1. pc = "tables"
      BY Zenon, <1>4 DEF FetchTables
    <3>2. Me \in up /\ ~failed
          /\ Range(sqls) = {DatabaseOf[t] : t \in TablesOn(ShardHosts)}
      BY Zenon, <1>4, <3>1 DEF CalmInv
    <3> QED BY Zenon, <3>1, <3>2, CalmQuery
  <2>2. /\ \E ts \in SetToSeqs(TablesOn(ShardHosts)) : sqls' = sqls \o ts
        /\ pc' = "create" /\ UNCHANGED <<objects, up, next, tries, failed>>
    <3>1. \A rows : Reads(TablesOn(ShardHosts), rows, "shard") => rows = TablesOn(ShardHosts)
      BY Zenon, CalmReads
    <3> QED BY Zenon, <1>4, <2>1, <3>1 DEF FetchTables, world
  <2>3. PICK ts \in SetToSeqs(TablesOn(ShardHosts)) : sqls' = sqls \o ts
    BY Zenon, <2>2
  <2>4. ~failed'
    BY Zenon, <2>1, <2>2
  <2>5. UNCHANGED <<next, tries, objects>>
    BY Zenon, <2>2
  <2>6. DatabasesFirst(sqls') /\ NeedsPlanned(sqls)' /\ InTime' /\ FailureIsLeft'
    BY Zenon, <2>1, <2>3, <2>4, <2>5, ShardListBegins
  <2>7. pc' = "create" /\ Me \in up'
    BY <2>1, <2>2
  <2> QED BY <2>6, <2>7 DEF CalmInv
<1>5. ASSUME calm, FetchDistributedDatabases PROVE CalmInv'
  <2>1. ~QueryFails /\ Me \in up
    BY <1>5, CalmQuery DEF CalmInv
  <2>2. /\ pc = "distributed" /\ pc' = "distributed tables"
        /\ sqls' \in SetToSeqs(DistributedDatabasesOn(hosts'))
        /\ UNCHANGED <<objects, up, failed>>
    <3> DEFINE D == DistributedDatabasesOn(hosts')
    <3>1. \A rows : Reads(D, rows, "distributed") => rows = D
      BY Zenon, CalmReads
    <3> QED BY Zenon, <1>5, <2>1, <3>1 DEF FetchDistributedDatabases, world
  <2>3. Range(sqls') = DistributedDatabasesOn(hosts')
    <3>1. PICK S \in SUBSET Tables : DistributedDatabasesOn(hosts') = {DatabaseOf[t] : t \in S}
      BY QueryTypes
    <3> QED BY <2>2, <3>1, TablesAreFinite, ListOfSet
  <2>4. DistributedDatabasesOn(hosts)' = DistributedDatabasesOn(hosts')
    BY <2>2 DEF DistributedDatabasesOn, TablesOn
  <2>5. Range(sqls)' = DistributedDatabasesOn(hosts)'
    BY <2>3, <2>4
  <2> QED BY <2>1, <2>2, <2>5 DEF CalmInv, Applying
<1>6. ASSUME calm, FetchDistributedTables PROVE CalmInv'
  <2>1. /\ ~QueryFails /\ Me \in up /\ pc = "distributed tables" /\ ~failed
        /\ Range(sqls) = DistributedDatabasesOn(hosts)
    <3>1. pc = "distributed tables"
      BY Zenon, <1>6 DEF FetchDistributedTables
    <3>2. Me \in up /\ Range(sqls) = DistributedDatabasesOn(hosts)
      BY Zenon, <1>6, <3>1 DEF CalmInv
    <3>3. ~failed
      BY <3>1 DEF FreshInv, Applying
    <3> QED BY Zenon, <3>1, <3>2, <3>3, CalmQuery
  <2>2. /\ \E locals \in SetToSeqs(LocalTablesOn(hosts) \ Distributed),
              ts \in SetToSeqs(TablesOn(hosts) \cap Distributed) :
             sqls' = sqls \o locals \o ts
        /\ pc' = "create distributed" /\ UNCHANGED <<objects, up, next, tries, failed>>
    <3> DEFINE D == DistributedTablesOn(hosts)
    <3>1. \A rows : Reads(D, rows, "distributed") => rows = D
      BY Zenon, CalmReads
    <3>2. /\ \E locals \in SetToSeqs(D \ Distributed), ts \in SetToSeqs(D \cap Distributed) :
               sqls' = sqls \o locals \o ts
          /\ pc' = "create distributed" /\ UNCHANGED <<objects, up, next, tries, failed>>
      BY Zenon, <1>6, <2>1, <3>1 DEF FetchDistributedTables, world
    <3> QED BY Zenon, <3>2, DistributedAnswer
  <2>3. PICK locals \in SetToSeqs(LocalTablesOn(hosts) \ Distributed),
             ts \in SetToSeqs(TablesOn(hosts) \cap Distributed) :
          sqls' = sqls \o locals \o ts
    BY Zenon, <2>2
  <2>4. ~failed'
    BY Zenon, <2>1, <2>2
  <2>5. UNCHANGED <<next, tries, objects>>
    BY Zenon, <2>2
  <2>6. DatabasesFirst(sqls') /\ NeedsPlanned(sqls)' /\ InTime' /\ FailureIsLeft'
    BY Zenon, <2>1, <2>3, <2>4, <2>5, DistributedListBegins
  <2>7. pc' = "create distributed" /\ Me \in up'
    BY <2>1, <2>2
  <2> QED BY <2>6, <2>7 DEF CalmInv
<1>7. ASSUME calm, Exec PROVE CalmInv'
  <2>1. /\ Applying /\ Me \in up /\ pc # "drop"
        /\ DatabasesFirst(sqls) /\ NeedsPlanned(sqls) /\ InTime /\ FailureIsLeft
    BY Zenon, <1>7 DEF Exec, CalmInv
  <2>2. pc' = pc /\ up' = up
    BY Zenon, <1>7 DEF Exec
  <2>3. DatabasesFirst(sqls') /\ NeedsPlanned(sqls)' /\ InTime' /\ FailureIsLeft'
    BY Zenon, <1>7, <2>1, CalmExec
  <2>4. pc' # "tables" /\ pc' # "distributed tables"
    BY <2>1, <2>2 DEF Applying
  <2> QED BY Zenon, <2>1, <2>2, <2>3, <2>4 DEF CalmInv
<1>8. ASSUME calm, EndOfTry PROVE CalmInv'
  <2>1. /\ Applying /\ Me \in up /\ pc # "drop"
        /\ DatabasesFirst(sqls) /\ NeedsPlanned(sqls) /\ InTime /\ FailureIsLeft
    BY Zenon, <1>8 DEF EndOfTry, CalmInv
  <2>2. up' = up
    BY Zenon, <1>8 DEF EndOfTry
  <2>3. CASE failed
    <3>1. /\ TryAgain /\ DatabasesFirst(sqls') /\ NeedsPlanned(sqls)'
          /\ InTime' /\ FailureIsLeft'
      BY Zenon, <1>8, <2>1, <2>3, CalmTryEnds
    <3>2. pc' = pc
      BY Zenon, <1>8, <2>3, <3>1 DEF EndOfTry
    <3>3. pc' # "tables" /\ pc' # "distributed tables"
      BY <2>1, <3>2 DEF Applying
    <3> QED BY Zenon, <2>1, <2>2, <3>1, <3>2, <3>3 DEF CalmInv
  <2>4. CASE ~failed
    <3>1. pc' = "distributed" \/ pc' = "idle"
      BY Zenon, <1>8, <2>4 DEF EndOfTry, Synced, GiveUp
    <3>2. pc' \notin {"drop", "tables", "distributed tables"} /\ ~Applying'
      BY <3>1 DEF Applying
    <3> QED BY <2>1, <2>2, <3>2 DEF CalmInv
  <2> QED BY <2>3, <2>4
<1>9. ASSUME calm, PodNotReady \/ UNCHANGED vars PROVE CalmInv'
  BY Zenon, <1>1, <1>9 DEF PodNotReady, vars, world, call
<1>10. ~ \/ DeleteTablesForReplica
         \/ \E r \in Replicas : PodLost(r) \/ PodReady(r)
         \/ \E p \in Peers, t \in Tables : CreateTable(p, t)
  BY Zenon DEF DeleteTablesForReplica, PodLost, PodReady, CreateTable, Fault
<1>11. CreateTablesForReplica \/ calm
  BY Zenon, <1>10 DEF Next, Call, Rest, FetchDatabases, FetchTables,
     FetchDistributedDatabases, FetchDistributedTables, Exec, ExecSucceeds, ExecFails,
     EndOfTry, PodNotReady, QueryFails, Reads, Fault, vars
<1> QED
  BY Zenon, <1>2, <1>3, <1>4, <1>5, <1>6, <1>7, <1>8, <1>9, <1>10, <1>11
  DEF Next, Call, Rest

(* A copy that nothing disturbs does not end but with success.             *)
LEMMA CalmCopyEnds ==
  ASSUME CopyCanSucceed, TypeOK, CalmInv, [Next]_vars,
         calm, calm', pc # "idle", pc' = "idle"
  PROVE  state' = "Sync"
<1>1. CASE FetchTables
  <2>1. ~QueryFails /\ ~failed
    <3>1. pc = "tables"
      BY Zenon, <1>1 DEF FetchTables
    <3>2. Me \in up /\ ~failed
      BY Zenon, <3>1 DEF CalmInv
    <3> QED BY Zenon, <3>2, CalmQuery
  <2>2. pc' = "create"
    BY Zenon, <1>1, <2>1 DEF FetchTables
  <2> QED BY <2>2
<1>2. CASE EndOfTry
  <2>1. pc # "drop" /\ InTime /\ FailureIsLeft
    BY Zenon, <1>2 DEF EndOfTry, CalmInv
  <2>2. failed => TryAgain
    BY Zenon, <1>2, <2>1, CalmTryEnds
  <2>3. ~failed
    <3>1. failed => pc' = pc
      BY Zenon, <1>2, <2>2 DEF EndOfTry
    <3> QED BY <3>1
  <2>4. (pc = "create" /\ pc' = "distributed") \/ Synced
    BY Zenon, <1>2, <2>1, <2>3 DEF EndOfTry, Dropping
  <2> QED BY <2>4 DEF Synced
<1>3. CASE ~FetchTables /\ ~EndOfTry
  <2>1. pc' = pc \/ pc' \in {"tables", "distributed tables", "create distributed", "drop"}
        \/ pc = "idle"
    BY Zenon, <1>3
    DEF Next, Call, Rest, CreateTablesForReplica, FetchDatabases, FetchDistributedDatabases,
        FetchDistributedTables, Exec, PodNotReady, DeleteTablesForReplica, PodLost,
        PodReady, CreateTable, vars
  <2> QED BY <2>1
<1> QED BY <1>1, <1>2, <1>3

(***************************************************************************)
(* A copy that nothing disturbs does not fail, if the spec lists the new   *)
(* replica, the views are nested less deep than a list is tried and no     *)
(* view is behind a distributed table; whatever the order of the           *)
(* statements that the queries return.                                     *)
(***************************************************************************)
THEOREM UndisturbedSucceeds ==
  ASSUME CopyCanSucceed PROVE Spec => UndisturbedCopySucceeds
<1> DEFINE I == TypeOK /\ SourcesThere /\ FreshInv /\ CalmInv
<1>1. Init => I
  BY Zenon, TypeInit, CalmInit
<1>2. I /\ [Next]_vars => I'
  BY Zenon, CopyCanSucceed, TypeStep, SourcesThereStep, FreshInvStep, CalmInvStep
<1>3. I /\ [Next]_vars
        => [calm /\ calm' /\ pc # "idle" /\ pc' = "idle" => state' = "Sync"]_vars
  BY Zenon, CopyCanSucceed, CalmCopyEnds
<1> QED BY <1>1, <1>2, <1>3, PTL DEF Spec, UndisturbedCopySucceeds
=============================================================================
