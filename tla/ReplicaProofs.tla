---------------------------- MODULE ReplicaProofs ----------------------------
(***************************************************************************)
(* Proofs about MemberManager: the states of a replica's tables, and the   *)
(* end of a deleted installation.                                          *)
(***************************************************************************)
EXTENDS MemberManagerProofs

----------------------------------------------------------------------------
(* Which steps touch what *)

(* What a step makes of the entries in memory, by the call that is due.    *)
LEMMA EntryWriters ==
  ASSUME TypeInv, Next
  PROVE  \/ Reconcile \/ KeepStatefulSet \/ UpdateStatefulSet \/ SyncServiceForReplica
         \/ CreateTablesForReplica \/ DeleteStatefulSet \/ PassOver
         \/ mem'.rep = mem.rep /\ UNCHANGED <<pc, cur>>
         \/ /\ mem'.rep = mem.rep
            /\ pc \notin {"replicaService", "createTables", "deleteStatefulSet"}
            /\ pc' # "deletePVC"
         \/ /\ mem'.rep = mem.rep /\ pc = "deletePVC" /\ pc' = "deleteConfigMap"
<1>1. CASE SyncReplicas
  <2>1. mem \in InstallationStatus
    BY DEF TypeInv, PassTypeOK
  <2>2. [mem EXCEPT !.cluster = TRUE].rep = mem.rep
    BY <2>1 DEF InstallationStatus
  <2>3. CASE \E s \in Shards : SyncShard(s)
    BY <2>2, <2>3 DEF SyncShard, Goto
  <2> QED
    BY <1>1, <2>3
    DEF SyncReplicas, SyncReplica, SkipStatefulSet, CreateStatefulSet,
        CreateTablesFails, FindExtraReplicas, GiveUp, Goto
<1>2. CASE DeleteReplicas
  BY <1>2
  DEF DeleteReplicas, DeleteShard, SkipReplica, DeleteTables, DeletePVC, DeleteConfigMap,
      DeleteServiceForReplica, StatusAfterDelete, AfterReplica, Goto
<1>3. CASE ApplyConfiguration \/ DeleteServiceForInstallation
  <2>1. mem'.rep = mem.rep
    BY <1>3
    DEF ApplyConfiguration, DeleteServiceForInstallation, TypeInv, PassTypeOK,
        InstallationStatus
  <2> QED BY <1>3, <2>1 DEF ApplyConfiguration, DeleteServiceForInstallation, Goto
<1>4. CASE \/ SyncServiceForInstallation \/ SyncConfigMaps \/ UpdateInstallation
           \/ DeleteConfigMaps \/ StatusTerminated
  BY <1>4
  DEF SyncServiceForInstallation, SyncConfigMaps, UpdateInstallation, DeleteConfigMaps,
      StatusTerminated, Goto
<1>5. CASE Fault \/ UpdateStatus \/ Conflict \/ RemoveFinalizer
  BY <1>5, Zenon DEF Fault, UpdateStatus, Conflict, RemoveFinalizer, GiveUp
<1>6. CASE User \/ Pods \/ Informers \/ CollectGarbage \/ Rest
  <2>1. UNCHANGED <<pc, mem, cur>>
    BY <1>6, Zenon
    DEF User, ChangeLayout, ChangeTemplate, SetPaused, DeleteInstallation, UserWrites,
        Pods, PodReady, PodReplaced, PodLost, Informers, InformerInstallation,
        InformerStatefulSet, CollectGarbage, Rest, vars, passVars
  <2> QED BY <2>1
<1> QED BY <1>1, <1>2, <1>3, <1>4, <1>5, <1>6 DEF Next, Pass

(* Who drops the tables of a replica.                                      *)
LEMMA TableDroppers ==
  ASSUME Next, ~(tables \subseteq tables')
  PROVE  DeletePVC \/ \E r \in Replicas : DeleteTables(r)
<1>1. CASE UNCHANGED tables
  BY <1>1
<1>2. CASE SyncReplicas
  <2>1. CASE CreateTablesForReplica
    BY <2>1 DEF CreateTablesForReplica
  <2> QED
    BY <1>1, <1>2, <2>1, Zenon
    DEF SyncReplicas, SyncShard, SyncReplica, SkipStatefulSet, CreateStatefulSet,
        KeepStatefulSet, UpdateStatefulSet, SyncServiceForReplica, CreateTablesFails,
        FindExtraReplicas, objectVars
<1>3. CASE DeleteReplicas
  BY <1>1, <1>3, Zenon
  DEF DeleteReplicas, DeleteShard, SkipReplica, DeleteStatefulSet, DeleteConfigMap,
      DeleteServiceForReplica, StatusAfterDelete, objectVars
<1>4. CASE Pass /\ ~SyncReplicas /\ ~DeleteReplicas
  BY <1>1, <1>4, Zenon
  DEF Pass, Reconcile, SyncServiceForInstallation, SyncConfigMaps, ApplyConfiguration,
      UpdateInstallation, UpdateStatus, Conflict, DeleteConfigMaps,
      DeleteServiceForInstallation, StatusTerminated, RemoveFinalizer, objectVars
<1>5. CASE ~Pass
  BY <1>1, <1>5, Zenon
  DEF Next, Fault, User, ChangeLayout, ChangeTemplate, SetPaused, DeleteInstallation,
      UserWrites, Pods, PodReady, PodReplaced, PodLost, Informers, InformerInstallation,
      InformerStatefulSet, CollectGarbage, Rest, vars, objectVars
<1> QED BY <1>2, <1>3, <1>4, <1>5

(* What the operator sees of the status is one that has been stored.       *)
LEMMA SeenStatus ==
  ASSUME TypeInv, Next
  PROVE  diCache'.status \in {diCache.status, status, status'}
<1>1. CASE Watch(TRUE) \/ Watch(FALSE) \/ Watch(pending)
  <2>1. diCache' = diCache \/ diCache' = [spec |-> spec', status |-> status']
    BY <1>1, Zenon DEF Watch
  <2> QED BY <2>1
<1>2. CASE Informers
  BY <1>2 DEF Informers, InformerInstallation, InformerStatefulSet
<1>3. CASE UNCHANGED vars
  BY <1>3 DEF vars, cacheVars
<1> QED BY <1>1, <1>2, <1>3, StepsAreWatched

----------------------------------------------------------------------------
(* Stored entries in phase Ready are in state Sync *)

(***************************************************************************)
(* No status that is stored or cached owes a replica its tables, and the   *)
(* one a pass builds owes them only to the replica it is working on.       *)
(***************************************************************************)
ReadyInv ==
  /\ \A r \in Replicas :
       ~NeedsTables(status.rep[r]) /\ ~NeedsTables(diCache.status.rep[r])
  /\ \A r \in Replicas : NeedsTables(mem.rep[r]) =>
       pc \in {"replicaService", "createTables"} /\ r = cur

(* Replacing the entry of cur leaves what a pass owes to cur.              *)
LEMMA OnlyCurOwed ==
  ASSUME TypeInv, ReadyInv, pc \in ReplicaLabels, NEW e,
         mem'.rep = [mem.rep EXCEPT ![cur] = e], cur' = cur
  PROVE  /\ mem'.rep[cur] = e
         /\ \A r \in Replicas : NeedsTables(mem'.rep[r]) => r = cur'
<1>1. mem.rep \in [Replicas -> ReplicaStatus] /\ cur \in Replicas
  BY DEF TypeInv, PassTypeOK, InstallationStatus
<1> QED BY <1>1 DEF ReadyInv

(* What the calls about the StatefulSet do to the entries.                 *)
LEMMA EntryOfStatefulSet ==
  ASSUME TypeInv, KeepStatefulSet \/ UpdateStatefulSet
  PROVE  \E set \in StatefulSet :
           /\ mem'.rep = [mem.rep EXCEPT ![cur] = ReplicaStatusOf(mem.rep[cur], set)]
           /\ KeepStatefulSet => set = stsCache[cur]
<1>1. mem \in InstallationStatus /\ cur \in Replicas /\ stsCache \in [Replicas -> StatefulSet]
  BY DEF TypeInv, PassTypeOK, CacheTypeOK, KeepStatefulSet, UpdateStatefulSet, ReplicaLabels
<1>2. CASE KeepStatefulSet
  <2>1. mem' = SetReplicaStatus(mem, cur, ReplicaStatusOf(mem.rep[cur], stsCache[cur]))
    BY <1>2, Zenon DEF KeepStatefulSet
  <2>2. mem'.rep = [mem.rep EXCEPT ![cur] = ReplicaStatusOf(mem.rep[cur], stsCache[cur])]
    BY <1>1, <2>1 DEF SetReplicaStatus, InstallationStatus
  <2> QED BY <1>1, <2>2
<1>3. CASE UpdateStatefulSet /\ ~KeepStatefulSet
  <2>1. mem' = SetReplicaStatus(CountUpdate(mem), cur,
                                ReplicaStatusOf(mem.rep[cur], NoStatefulSet))
    BY <1>3, Zenon DEF UpdateStatefulSet
  <2>2. CountUpdate(mem).rep = mem.rep
    BY <1>1 DEF CountUpdate, InstallationStatus
  <2>3. CountUpdate(mem) \in InstallationStatus
    BY <1>1, CountUpdateType
  <2>4. mem'.rep = [mem.rep EXCEPT ![cur] = ReplicaStatusOf(mem.rep[cur], NoStatefulSet)]
    BY <2>1, <2>2, <2>3 DEF SetReplicaStatus, InstallationStatus
  <2> QED BY <1>3, <2>4, EmptyTypes
<1> QED BY <1>2, <1>3

(* What CreateTablesForReplica does to them.                               *)
LEMMA EntryOfTables ==
  ASSUME TypeInv, CreateTablesForReplica
  PROVE  mem'.rep = [mem.rep EXCEPT ![cur] = [mem.rep[cur] EXCEPT !.state = "Sync"]]
BY DEF CreateTablesForReplica, TypeInv, PassTypeOK, InstallationStatus

(* What DeleteStatefulSet does to them, when it does not end the pass.     *)
LEMMA EntryOfDeleted ==
  ASSUME TypeInv, DeleteStatefulSet
  PROVE  \/ PassOver
         \/ /\ mem'.rep = [mem.rep EXCEPT ![cur] = NoReplicaStatus]
            /\ pc' = AfterStatefulSet /\ UNCHANGED <<snap, fresh, shards, shard, todo, cur>>
<1>1. CASE GiveUp
  BY <1>1 DEF GiveUp
<1>2. CASE ~GiveUp
  BY <1>2 DEF DeleteStatefulSet, TypeInv, PassTypeOK, InstallationStatus, Goto
<1> QED BY <1>1, <1>2

(* A replica without an entry is not synced.                               *)
LEMMA NoEntryIsNotSync == NoReplicaStatus.state # "Sync"
BY DEF NoReplicaStatus

(* The empty status owes nothing and claims nothing.                       *)
LEMMA NothingOwed ==
  ASSUME NEW r \in Replicas
  PROVE  ~NeedsTables(NoStatus.rep[r]) /\ NoStatus.rep[r].state # "Sync"
BY DEF NoStatus, NoReplicaStatus, NeedsTables

(* The entries a pass starts from are the cached ones.                     *)
LEMMA EntriesAtStart ==
  ASSUME TypeInv, Reconcile
  PROVE  UNCHANGED passVars \/ (mem'.rep = diCache.status.rep /\ fresh' = ~diStale)
<1>1. diCache.status \in InstallationStatus
  BY DEF TypeInv, CacheTypeOK
<1>2. \/ UNCHANGED passVars
      \/ /\ fresh' = ~diStale
         /\ \/ mem' = [diCache.status EXCEPT !.state = "Terminating"]
            \/ mem' = StatusAtStart(diCache.status, diCache.spec.want)
  BY Zenon DEF Reconcile
<1>3. /\ [diCache.status EXCEPT !.state = "Terminating"].rep = diCache.status.rep
      /\ StatusAtStart(diCache.status, diCache.spec.want).rep = diCache.status.rep
  BY <1>1 DEF StatusAtStart, InstallationStatus
<1> QED BY <1>2, <1>3

(* The entries a pass owes tables after a step.                            *)
LEMMA OwedStep ==
  ASSUME TypeInv, ReadyInv, Next
  PROVE  \A r \in Replicas : NeedsTables(mem'.rep[r]) =>
           pc' \in {"replicaService", "createTables"} /\ r = cur'
<1> USE DEF ReplicaLabels, Goto
<1>1. CASE Reconcile
  <2>1. CASE UNCHANGED passVars
    BY <2>1 DEF passVars, ReadyInv
  <2>2. CASE mem'.rep = diCache.status.rep
    BY <2>2 DEF ReadyInv
  <2> QED BY <1>1, <2>1, <2>2, EntriesAtStart
<1>2. CASE KeepStatefulSet \/ UpdateStatefulSet
  <2>1. pc = "statefulSet" /\ pc' = "replicaService" /\ cur' = cur
    BY <1>2 DEF KeepStatefulSet, UpdateStatefulSet
  <2>2. PICK set \in StatefulSet :
          mem'.rep = [mem.rep EXCEPT ![cur] = ReplicaStatusOf(mem.rep[cur], set)]
    BY <1>2, EntryOfStatefulSet
  <2> QED BY <2>1, <2>2, OnlyCurOwed
<1>3. CASE SyncServiceForReplica
  <2>1. cur \in Replicas
    BY <1>3 DEF SyncServiceForReplica, TypeInv, PassTypeOK
  <2> QED BY <1>3, <2>1 DEF SyncServiceForReplica, ReadyInv
<1>4. CASE CreateTablesForReplica
  <2>1. pc = "createTables" /\ cur' = cur
    BY <1>4 DEF CreateTablesForReplica
  <2>2. cur \in Replicas /\ mem.rep[cur] \in ReplicaStatus
    BY <2>1 DEF TypeInv, PassTypeOK, InstallationStatus
  <2>3. ~NeedsTables([mem.rep[cur] EXCEPT !.state = "Sync"])
    BY <2>2 DEF NeedsTables, ReplicaStatus
  <2> QED BY <1>4, <2>1, <2>3, EntryOfTables, OnlyCurOwed
<1>5. CASE DeleteStatefulSet /\ ~PassOver
  <2>1. pc = "deleteStatefulSet"
    BY <1>5 DEF DeleteStatefulSet
  <2>2. mem'.rep = [mem.rep EXCEPT ![cur] = NoReplicaStatus] /\ cur' = cur
    BY <1>5, EntryOfDeleted
  <2>3. ~NeedsTables(NoReplicaStatus)
    BY DEF NeedsTables, NoReplicaStatus
  <2> QED BY <2>1, <2>2, <2>3, OnlyCurOwed
<1>6. CASE PassOver
  BY <1>6, NothingOwed DEF PassOver
<1>7. CASE mem'.rep = mem.rep /\ UNCHANGED <<pc, cur>>
  BY <1>7 DEF ReadyInv
<1>8. CASE /\ mem'.rep = mem.rep
           /\ pc \notin {"replicaService", "createTables", "deleteStatefulSet"}
  BY <1>8 DEF ReadyInv
<1>9. CASE mem'.rep = mem.rep /\ pc = "deletePVC"
  BY <1>9 DEF ReadyInv
<1> QED BY <1>1, <1>2, <1>3, <1>4, <1>5, <1>6, <1>7, <1>8, <1>9, EntryWriters

(* Each step preserves ReadyInv.                                           *)
LEMMA ReadyInvStep ==
  ASSUME TypeInv, ReadyInv, Next
  PROVE  ReadyInv'
<1>1. \A r \in Replicas : ~NeedsTables(status'.rep[r])
  <2>1. CASE status' = status
    BY <2>1 DEF ReadyInv
  <2>2. CASE status' = NoStatus
    BY <2>2, NothingOwed
  <2>3. CASE status' # status /\ status' # NoStatus
    <3>1. pc \in {"replicaDeleted", "status", "terminated"} /\ status' = mem
      BY <2>3, StatusWriters, Zenon DEF UpdateInstallationStatus
    <3> QED BY <3>1 DEF ReadyInv
  <2> QED BY <2>1, <2>2, <2>3
<1>2. \A r \in Replicas : ~NeedsTables(diCache'.status.rep[r])
  BY <1>1, SeenStatus DEF ReadyInv
<1> QED BY <1>1, <1>2, OwedStep DEF ReadyInv

(* ReadyInv holds in every reachable state.                                *)
LEMMA ReadyInvHolds == Spec => []ReadyInv
<1>1. Init => ReadyInv
  <2> SUFFICES ASSUME Init PROVE ReadyInv
    OBVIOUS
  <2>1. status = NoStatus /\ diCache.status = NoStatus /\ mem = NoStatus
    BY DEF Init
  <2> QED BY <2>1, NothingOwed DEF ReadyInv
<1>2. ASSUME ReadyInv, UNCHANGED vars PROVE ReadyInv'
  BY <1>2 DEF ReadyInv, vars, cacheVars, passVars
<1>3. TypeInv /\ ReadyInv /\ [Next]_vars => ReadyInv'
  BY <1>2, ReadyInvStep
<1> QED BY <1>1, <1>3, TypeInvHolds, PTL DEF Spec

(***************************************************************************)
(* No stored status leaves a replica between Ready and Sync: whatever ends *)
(* a pass between the call that finds the pod ready and the one that has   *)
(* copied its tables, the status of that pass is never stored.             *)
(***************************************************************************)
THEOREM StoredReadySynced == Spec => []StoredReadyIsSynced
<1>1. ReadyInv => StoredReadyIsSynced
  BY DEF ReadyInv, StoredReadyIsSynced, NeedsTables
<1> QED BY <1>1, ReadyInvHolds, PTL
----------------------------------------------------------------------------
(* An entry becomes Sync when the tables have been copied *)

(***************************************************************************)
(* While nobody else has written the installation, what a pass claims to   *)
(* be synced either was before, or has its tables, or is the replica whose *)
(* tables it has just dropped, whose entry goes with its StatefulSet.      *)
(***************************************************************************)
SyncInv ==
  /\ fresh => \A r \in Replicas : mem.rep[r].state = "Sync" =>
       \/ status.rep[r].state = "Sync"
       \/ r \in tables
       \/ pc = "deleteStatefulSet" /\ r = cur
  /\ pc = "deletePVC" => mem.rep[cur].state # "Sync"

(* A pass is fresh only if it was, or starts with a cache that is not      *)
(* stale.                                                                  *)
LEMMA FreshBefore ==
  ASSUME Next, fresh', ~Reconcile
  PROVE  fresh
<1>1. ~PassOver
  BY DEF PassOver
<1>2. CASE UpdateInstallation
  BY <1>2 DEF UpdateInstallation
<1> QED BY <1>2, SpecWriters

(* Nobody else writes the status of a pass that stays fresh.               *)
LEMMA StatusWhileFresh ==
  ASSUME Next, fresh', status' # status
  PROVE  (StatusAfterDelete \/ StatusTerminated) /\ status' = mem /\ mem' = mem
<1>1. ~PassOver
  BY DEF PassOver
<1>2. ~User
  BY Zenon
  DEF User, ChangeLayout, ChangeTemplate, SetPaused, DeleteInstallation, UserWrites
<1>3. CASE UNCHANGED status
  BY <1>3
<1>4. CASE SyncReplicas \/ (DeleteReplicas /\ ~StatusAfterDelete)
  BY <1>3, <1>4, Zenon
  DEF SyncReplicas, SyncShard, SyncReplica, SkipStatefulSet, CreateStatefulSet,
      KeepStatefulSet, UpdateStatefulSet, SyncServiceForReplica, CreateTablesForReplica,
      CreateTablesFails, FindExtraReplicas, DeleteReplicas, DeleteShard, SkipReplica,
      DeleteTables, DeleteStatefulSet, DeletePVC, DeleteConfigMap,
      DeleteServiceForReplica
<1>5. CASE StatusAfterDelete \/ StatusTerminated
  BY <1>5 DEF StatusAfterDelete, StatusTerminated, UpdateInstallationStatus
<1>6. CASE Pass /\ ~SyncReplicas /\ ~DeleteReplicas /\ ~StatusTerminated
  BY <1>1, <1>3, <1>6, Zenon
  DEF Pass, Reconcile, SyncServiceForInstallation, SyncConfigMaps, ApplyConfiguration,
      UpdateInstallation, UpdateStatus, Conflict, DeleteConfigMaps,
      DeleteServiceForInstallation, RemoveFinalizer
<1>7. CASE ~Pass
  BY <1>2, <1>3, <1>7, Zenon
  DEF Next, Fault, Pods, PodReady, PodReplaced, PodLost, Informers, InformerInstallation,
      InformerStatefulSet, CollectGarbage, Rest, vars
<1> QED BY <1>4, <1>5, <1>6, <1>7

(* Each step preserves SyncInv.                                            *)
LEMMA SyncInvStep ==
  ASSUME TypeInv, CurrentInv, SyncInv, Next
  PROVE  SyncInv'
<1> DEFINE Backed(r) == \/ status.rep[r].state = "Sync"
                        \/ r \in tables
                        \/ pc = "deleteStatefulSet" /\ r = cur
<1> USE DEF Goto
<1>1. CASE Reconcile
  <2>1. CASE UNCHANGED passVars
    BY <1>1, <2>1 DEF passVars, SyncInv, Reconcile, objectVars
  <2>2. CASE ~UNCHANGED passVars
    <3>1. mem'.rep = diCache.status.rep /\ fresh' = ~diStale
      BY <1>1, <2>2, EntriesAtStart
    <3>2. pc' # "deletePVC" /\ UNCHANGED status
      BY <1>1, <2>2 DEF Reconcile
    <3>3. fresh' => diCache.status = status
      <4>1. fresh' => ~diStale
        BY <3>1, Zenon
      <4>2. ~diStale => diCache.status = status
        BY DEF CurrentInv, CacheInv
      <4> QED BY <4>1, <4>2
    <3> QED BY <3>1, <3>2, <3>3 DEF SyncInv
  <2> QED BY <2>1, <2>2
<1>2. CASE PassOver
  BY <1>2 DEF PassOver, SyncInv
<1>3. CASE ~Reconcile /\ ~PassOver
  <2>1. ASSUME pc' = "deletePVC"
        PROVE  mem'.rep[cur'].state # "Sync"
    <3>1. CASE DeleteStatefulSet
      <4>1. mem'.rep = [mem.rep EXCEPT ![cur] = NoReplicaStatus] /\ cur' = cur
        BY <1>3, <3>1, EntryOfDeleted
      <4>2. mem.rep \in [Replicas -> ReplicaStatus] /\ cur \in Replicas
        BY <3>1 DEF DeleteStatefulSet, TypeInv, PassTypeOK, InstallationStatus, ReplicaLabels
      <4> QED BY <4>1, <4>2, NoEntryIsNotSync
    <3>2. CASE ~DeleteStatefulSet
      <4>1. mem'.rep = mem.rep /\ UNCHANGED <<pc, cur>>
        BY <1>3, <2>1, <3>2, EntryWriters
        DEF KeepStatefulSet, UpdateStatefulSet, SyncServiceForReplica,
            CreateTablesForReplica
      <4> QED BY <2>1, <4>1 DEF SyncInv
    <3> QED BY <3>1, <3>2
  <2>2. ASSUME fresh', NEW r \in Replicas, mem'.rep[r].state = "Sync"
        PROVE  Backed(r)'
    <3>1. fresh
      BY <1>3, <2>2, FreshBefore
    <3>2. CASE status' # status
      BY <2>2, <3>2, StatusWhileFresh
    <3>3. CASE status' = status
      <4>1. CASE mem.rep[r].state = "Sync"
        <5>1. Backed(r)
          BY <3>1, <4>1 DEF SyncInv
        <5>2. CASE \E x \in Replicas : DeleteTables(x)
          BY <3>3, <5>1, <5>2 DEF DeleteTables
        <5>3. CASE DeletePVC
          BY <3>3, <4>1, <5>1, <5>3 DEF DeletePVC, SyncInv
        <5>4. CASE r \in tables /\ tables \subseteq tables'
          BY <5>4
        <5>5. CASE status.rep[r].state = "Sync"
          BY <3>3, <5>5
        <5>6. CASE pc = "deleteStatefulSet" /\ r = cur /\ tables \subseteq tables'
          <6>1. CASE DeleteStatefulSet
            <7>1. mem'.rep = [mem.rep EXCEPT ![cur] = NoReplicaStatus]
              BY <1>3, <6>1, EntryOfDeleted
            <7>2. mem.rep \in [Replicas -> ReplicaStatus]
              BY DEF TypeInv, PassTypeOK, InstallationStatus
            <7> QED BY <2>2, <5>6, <7>1, <7>2, NoEntryIsNotSync
          <6>2. CASE ~DeleteStatefulSet
            <7>1. UNCHANGED <<pc, cur>>
              BY <1>3, <5>6, <6>2, EntryWriters
              DEF KeepStatefulSet, UpdateStatefulSet, SyncServiceForReplica,
                  CreateTablesForReplica
            <7> QED BY <5>6, <7>1
          <6> QED BY <6>1, <6>2
        <5> QED BY <5>1, <5>2, <5>3, <5>4, <5>5, <5>6, TableDroppers
      <4>2. CASE mem.rep[r].state # "Sync"
        <5>1. mem.rep \in [Replicas -> ReplicaStatus]
          BY DEF TypeInv, PassTypeOK, InstallationStatus
        <5>2. CASE KeepStatefulSet \/ UpdateStatefulSet
          <6>1. PICK set \in StatefulSet :
                  mem'.rep = [mem.rep EXCEPT ![cur] = ReplicaStatusOf(mem.rep[cur], set)]
            BY <5>2, EntryOfStatefulSet
          <6>2. ReplicaStatusOf(mem.rep[cur], set).state \in {"NotSync", mem.rep[cur].state}
            BY DEF ReplicaStatusOf
          <6> QED BY <2>2, <4>2, <5>1, <6>1, <6>2
        <5>3. CASE CreateTablesForReplica
          <6>1. mem'.rep = [mem.rep EXCEPT ![cur] = [mem.rep[cur] EXCEPT !.state = "Sync"]]
            BY <5>3, EntryOfTables
          <6>2. cur = r
            BY <2>2, <4>2, <5>1, <6>1
          <6> QED BY <5>3, <6>2 DEF CreateTablesForReplica
        <5>4. CASE DeleteStatefulSet
          <6>1. mem'.rep = [mem.rep EXCEPT ![cur] = NoReplicaStatus]
            BY <1>3, <5>4, EntryOfDeleted
          <6> QED BY <2>2, <4>2, <5>1, <6>1, NoEntryIsNotSync
        <5>5. mem'.rep # mem.rep
          BY <2>2, <4>2
        <5> QED
          BY <1>3, <5>2, <5>3, <5>4, <5>5, EntryWriters DEF SyncServiceForReplica
      <4> QED BY <4>1, <4>2
    <3> QED BY <3>2, <3>3
  <2> QED BY <2>1, <2>2 DEF SyncInv
<1> QED BY <1>1, <1>2, <1>3

(* SyncInv holds in every reachable state.                                 *)
LEMMA SyncInvHolds == Spec => []SyncInv
<1>1. Init => SyncInv
  BY DEF Init, SyncInv
<1>2. ASSUME SyncInv, UNCHANGED vars PROVE SyncInv'
  BY <1>2 DEF SyncInv, vars, passVars, objectVars
<1>3. TypeInv /\ CurrentInv /\ SyncInv /\ [Next]_vars => SyncInv'
  BY <1>2, SyncInvStep
<1> QED BY <1>1, <1>3, TypeInvHolds, CurrentInvHolds, PTL DEF Spec

(***************************************************************************)
(* An entry that becomes Sync belongs to a replica to whose volume the     *)
(* tables have been copied: neither a status carried over from an earlier  *)
(* pass, nor a replica deleted and created again, nor a lagging cache can  *)
(* bring a Sync into the stored status that nothing stands behind.         *)
(***************************************************************************)
THEOREM SyncHasTables == Spec => SyncFollowsTables
<1> DEFINE Follows ==
      \A r \in Replicas :
        status'.rep[r].state = "Sync" /\ status.rep[r].state # "Sync" => r \in tables
<1>1. ASSUME SyncInv, Next PROVE Follows
  <2> SUFFICES ASSUME NEW r \in Replicas, status'.rep[r].state = "Sync",
                      status.rep[r].state # "Sync"
               PROVE  r \in tables
    OBVIOUS
  <2>1. status' # status /\ status' # NoStatus
    BY NothingOwed
  <2>2. pc \in {"replicaDeleted", "status", "terminated"} /\ fresh /\ status' = mem
    BY <1>1, <2>1, StatusWriters, Zenon DEF UpdateInstallationStatus
  <2> QED BY <1>1, <2>2 DEF SyncInv
<1>2. SyncInv /\ [Next]_vars => [Follows]_vars
  BY <1>1
<1>3. Spec => [][Follows]_vars
  BY <1>2, SyncInvHolds, PTL DEF Spec
<1> QED BY <1>3 DEF SyncFollowsTables
----------------------------------------------------------------------------
(* The wanted replicas go before the finalizer *)

(* Without lag the operator sees every StatefulSet as it is.               *)
LagInv == ~CacheLag => ~diStale /\ stsCache = sts

(* LagInv holds in every reachable state.                                  *)
LEMMA LagInvHolds == Spec => []LagInv
<1>1. Init => LagInv
  BY DEF Init, LagInv
<1>2. ASSUME LagInv, Next PROVE LagInv'
  <2>1. CASE Watch(TRUE) \/ Watch(FALSE) \/ Watch(pending)
    BY <2>1, Zenon DEF LagInv, Watch
  <2>2. CASE Informers
    BY <1>2, <2>2, Zenon DEF LagInv, Informers, InformerInstallation, InformerStatefulSet
  <2>3. CASE UNCHANGED vars
    BY <1>2, <2>3, Zenon DEF LagInv, vars, cacheVars
  <2> QED BY <1>2, <2>1, <2>2, <2>3, StepsAreWatched
<1>3. ASSUME LagInv, UNCHANGED vars PROVE LagInv'
  BY <1>3, Zenon DEF LagInv, vars, cacheVars
<1>4. LagInv /\ [Next]_vars => LagInv'
  BY <1>2, <1>3
<1> QED BY <1>1, <1>4, PTL DEF Spec

(* Who creates a StatefulSet.                                              *)
LEMMA ReplicaCreators ==
  ASSUME TypeInv, Next, NEW r \in Replicas, ~sts[r].exists, sts'[r].exists
  PROVE  CreateStatefulSet
<1> USE DEF TypeInv, ObjectTypeOK
<1>1. CASE UNCHANGED sts
  BY <1>1
<1>2. CASE UpdateStatefulSet
  <2>1. sts' = sts \/ sts' = [sts EXCEPT ![cur].template = snap.template,
                                        ![cur].current = FALSE]
    BY <1>2, Zenon DEF UpdateStatefulSet
  <2> QED BY <2>1 DEF StatefulSet
<1>3. CASE DeleteStatefulSet \/ CollectGarbage
  BY <1>3 DEF DeleteStatefulSet, CollectGarbage, NoStatefulSet
<1>4. CASE Pods
  <2>1. PICK x \in Replicas : PodReady(x) \/ PodReplaced(x) \/ PodLost(x)
    BY <1>4 DEF Pods
  <2>2. \/ sts' = [sts EXCEPT ![x].ready = TRUE, ![x].current = TRUE]
        \/ sts' = [sts EXCEPT ![x].ready = FALSE]
    BY <2>1, Zenon DEF PodReady, PodReplaced, PodLost
  <2> QED BY <2>2 DEF StatefulSet
<1>5. CASE SyncReplicas /\ ~CreateStatefulSet /\ ~UpdateStatefulSet
  BY <1>1, <1>5, Zenon
  DEF SyncReplicas, SyncShard, SyncReplica, SkipStatefulSet, KeepStatefulSet,
      SyncServiceForReplica, CreateTablesForReplica, CreateTablesFails, FindExtraReplicas
<1>6. CASE DeleteReplicas /\ ~DeleteStatefulSet
  BY <1>1, <1>6, Zenon
  DEF DeleteReplicas, DeleteShard, SkipReplica, DeleteTables, DeletePVC, DeleteConfigMap,
      DeleteServiceForReplica, StatusAfterDelete
<1>7. CASE Pass /\ ~SyncReplicas /\ ~DeleteReplicas
  BY <1>1, <1>7, Zenon
  DEF Pass, Reconcile, SyncServiceForInstallation, SyncConfigMaps, ApplyConfiguration,
      UpdateInstallation, UpdateStatus, Conflict, DeleteConfigMaps,
      DeleteServiceForInstallation, StatusTerminated, RemoveFinalizer
<1>8. CASE Fault \/ User \/ Informers \/ Rest
  BY <1>1, <1>8, Zenon
  DEF Fault, User, ChangeLayout, ChangeTemplate, SetPaused, DeleteInstallation,
      UserWrites, Informers, InformerInstallation, InformerStatefulSet, Rest, vars
<1> QED BY <1>2, <1>3, <1>4, <1>5, <1>6, <1>7, <1>8 DEF Next

(* The spec a pass works on is the one it started with.                    *)
LEMMA SnapWriters ==
  ASSUME Next
  PROVE  Reconcile \/ PassOver \/ UNCHANGED snap
<1>1. CASE SyncReplicas
  BY <1>1, Zenon
  DEF SyncReplicas, SyncShard, SyncReplica, SkipStatefulSet, CreateStatefulSet,
      KeepStatefulSet, UpdateStatefulSet, SyncServiceForReplica, CreateTablesForReplica,
      CreateTablesFails, FindExtraReplicas, GiveUp
<1>2. CASE DeleteReplicas
  BY <1>2, Zenon
  DEF DeleteReplicas, DeleteShard, SkipReplica, DeleteTables, DeleteStatefulSet,
      DeletePVC, DeleteConfigMap, DeleteServiceForReplica, StatusAfterDelete, GiveUp
<1>3. CASE Pass /\ ~SyncReplicas /\ ~DeleteReplicas
  BY <1>3, Zenon
  DEF Pass, SyncServiceForInstallation, SyncConfigMaps, ApplyConfiguration,
      UpdateInstallation, UpdateStatus, Conflict, DeleteConfigMaps,
      DeleteServiceForInstallation, StatusTerminated, RemoveFinalizer, GiveUp
<1>4. CASE ~Pass
  BY <1>4, Zenon
  DEF Next, Fault, GiveUp, User, ChangeLayout, ChangeTemplate, SetPaused,
      DeleteInstallation, UserWrites, Pods, PodReady, PodReplaced, PodLost, Informers,
      InformerInstallation, InformerStatefulSet, CollectGarbage, Rest, vars, passVars
<1> QED BY <1>1, <1>2, <1>3, <1>4

(* The replicas a deletion has still to come to.                           *)
Remaining ==
  (UNION shards) \cup (IF pc \in DeleteLabels THEN todo ELSE {})
                 \cup (IF pc = "deleteStatefulSet" THEN {cur} ELSE {})

(* The others have no StatefulSet any more.                                *)
TornDownInv ==
  ~CacheLag /\ snap.deleting =>
    \A r \in snap.want : sts[r].exists => r \in Remaining

(* Each step preserves TornDownInv.                                        *)
LEMMA TornDownInvStep ==
  ASSUME ~CacheLag, TypeInv, LoopInv, LagInv, TornDownInv, Next
  PROVE  TornDownInv'
<1> SUFFICES ASSUME snap'.deleting, NEW r \in snap'.want, sts'[r].exists
             PROVE  r \in Remaining'
  BY DEF TornDownInv
<1> USE DEF Goto
<1>1. CASE PassOver
  BY <1>1 DEF PassOver, NoSpec
<1>2. CASE Reconcile /\ ~UNCHANGED passVars
  <2> DEFINE di == diCache.spec
  <2>1. /\ snap' = IF di.deleting THEN di ELSE [di EXCEPT !.finalizer = TRUE]
        /\ shards' = ShardsOf(di.want)
    BY <1>2 DEF Reconcile
  <2>2. di \in InstallationSpec
    BY DEF TypeInv, CacheTypeOK
  <2>3. snap'.want = di.want /\ di.want \subseteq Replicas
    BY <2>1, <2>2 DEF InstallationSpec
  <2>4. \A x \in di.want : x \in UNION ShardsOf(di.want)
    BY <2>3, LayoutAssumption DEF ShardsOf
  <2> HIDE DEF di
  <2> QED BY <2>1, <2>3, <2>4 DEF Remaining
<1>3. CASE ~PassOver /\ (Reconcile => UNCHANGED passVars)
  <2>1. snap' = snap
    BY <1>3, SnapWriters DEF passVars
  <2>2. r \in Replicas /\ snap.deleting
    BY <2>1 DEF TypeInv, PassTypeOK, InstallationSpec
  <2>3. sts[r].exists
    <3>1. CASE CreateStatefulSet
      BY <1>3, <3>1, Zenon DEF CreateStatefulSet, GiveUp
    <3> QED BY <2>2, <3>1, ReplicaCreators
  <2>4. r \in Remaining
    BY <2>1, <2>2, <2>3 DEF TornDownInv
  <2>5. pc \notin SyncLabels \cup {"service", "configMaps", "update", "status"}
    BY <2>2 DEF LoopInv, BranchInv
  <2>6. CASE UNCHANGED <<pc, shards, todo, cur>>
    BY <2>4, <2>6 DEF Remaining
  <2>7. CASE SyncReplicas \/ SyncServiceForInstallation \/ SyncConfigMaps
    BY <2>2, <2>5, <2>7
    DEF SyncReplicas, SyncShard, SyncReplica, SkipStatefulSet, CreateStatefulSet,
        KeepStatefulSet, UpdateStatefulSet, SyncServiceForReplica, CreateTablesForReplica,
        CreateTablesFails, FindExtraReplicas, SyncServiceForInstallation, SyncConfigMaps,
        SyncLabels
  <2>8. CASE \E s \in Shards : DeleteShard(s)
    <3>1. PICK s \in Shards : DeleteShard(s)
      BY <2>8
    <3>2. /\ pc = "shards" /\ pc' = "delete"
          /\ shards' = shards \ {s} /\ todo' = snap.want \cap s
      BY <3>1 DEF DeleteShard
    <3> QED BY <2>1, <2>4, <3>2 DEF Remaining, DeleteLabels
  <2>9. CASE \E x \in Replicas : SkipReplica(x)
    BY <2>2, <2>3, <2>4, <2>9
    DEF SkipReplica, Remaining, DeleteLabels, AfterReplica, LagInv
  <2>10. CASE \E x \in Replicas : DeleteTables(x)
    BY <2>4, <2>10 DEF DeleteTables, Remaining, DeleteLabels
  <2>11. CASE DeleteStatefulSet
    <3>1. /\ pc' \in {"deletePVC", "deleteConfigMap"} /\ UNCHANGED <<shards, todo, cur>>
      BY <1>3, <2>11, EntryOfDeleted DEF AfterStatefulSet
    <3>2. pc = "deleteStatefulSet" /\ cur \in Replicas
      BY <2>11 DEF DeleteStatefulSet, TypeInv, PassTypeOK, ReplicaLabels
    <3>3. r # cur
      <4>1. sts' = IF sts[cur].exists THEN [sts EXCEPT ![cur] = NoStatefulSet] ELSE sts
        BY <2>11 DEF DeleteStatefulSet, LagInv
      <4>2. ~sts'[cur].exists
        BY <3>2, <4>1 DEF NoStatefulSet, TypeInv, ObjectTypeOK
      <4> QED BY <4>2
    <3> QED BY <2>4, <3>1, <3>2, <3>3 DEF Remaining, DeleteLabels
  <2>12. CASE DeletePVC \/ DeleteConfigMap \/ DeleteServiceForReplica \/ StatusAfterDelete
    <3>1. /\ pc \in DeleteLabels \ {"deleteStatefulSet"} /\ UNCHANGED <<shards, todo>>
          /\ pc' \in DeleteLabels \ {"deleteStatefulSet"} \/ todo = {}
      BY <2>12 DEF DeletePVC, DeleteConfigMap, DeleteServiceForReplica, StatusAfterDelete,
                   AfterReplica, DeleteLabels
    <3> QED BY <2>4, <3>1 DEF Remaining
  <2>13. CASE \/ ApplyConfiguration \/ UpdateInstallation \/ DeleteConfigMaps
              \/ DeleteServiceForInstallation \/ StatusTerminated
    <3>1. /\ pc \notin DeleteLabels /\ UNCHANGED <<shards, todo>>
      BY <2>13 DEF ApplyConfiguration, UpdateInstallation, DeleteConfigMaps,
                   DeleteServiceForInstallation, StatusTerminated, DeleteLabels
    <3> QED BY <2>4, <3>1 DEF Remaining, DeleteLabels
  <2>14. CASE Reconcile
    BY <1>3, <2>6, <2>14 DEF passVars
  <2>15. CASE Fault \/ UpdateStatus \/ Conflict \/ RemoveFinalizer
    BY <1>3, <2>15, Zenon DEF Fault, UpdateStatus, Conflict, RemoveFinalizer, GiveUp
  <2>16. CASE User \/ Pods \/ Informers \/ CollectGarbage \/ Rest
    <3>1. UNCHANGED <<pc, shards, todo, cur>>
      BY <2>16, Zenon
      DEF User, ChangeLayout, ChangeTemplate, SetPaused, DeleteInstallation, UserWrites,
          Pods, PodReady, PodReplaced, PodLost, Informers, InformerInstallation,
          InformerStatefulSet, CollectGarbage, Rest, vars, passVars
    <3> QED BY <2>6, <3>1
  <2> QED
    BY <2>7, <2>8, <2>9, <2>10, <2>11, <2>12, <2>13, <2>14, <2>15, <2>16
    DEF Next, Pass, DeleteReplicas
<1> QED BY <1>1, <1>2, <1>3

(* TornDownInv holds in every reachable state.                             *)
LEMMA TornDownInvHolds == ASSUME ~CacheLag PROVE Spec => []TornDownInv
<1>1. Init => TornDownInv
  BY DEF Init, TornDownInv, NoSpec
<1>2. ASSUME TornDownInv, UNCHANGED vars PROVE TornDownInv'
  BY <1>2 DEF TornDownInv, Remaining, vars, passVars
<1>3. TypeInv /\ LoopInv /\ LagInv /\ TornDownInv /\ [Next]_vars => TornDownInv'
  BY <1>2, TornDownInvStep
<1> QED BY <1>1, <1>3, TypeInvHolds, LoopInvHolds, LagInvHolds, PTL DEF Spec

(* Who removes an installation: the operator, or a user who is faster than *)
(* its finalizer.                                                          *)
LEMMA InstallationRemovers ==
  ASSUME TypeInv, CurrentInv, Next, spec.exists, ~spec'.exists
  PROVE  RemoveFinalizer \/ (DeleteInstallation /\ ~spec.finalizer)
<1>1. CASE UpdateInstallation
  BY <1>1 DEF UpdateInstallation, CurrentInv, FreshInv
<1>2. CASE User
  <2>1. /\ \A w : [spec EXCEPT !.want = w].exists = spec.exists
        /\ \A t : [spec EXCEPT !.template = t].exists = spec.exists
        /\ \A b : [spec EXCEPT !.paused = b].exists = spec.exists
        /\ [spec EXCEPT !.deleting = TRUE].exists = spec.exists
    BY DEF TypeInv, ObjectTypeOK, InstallationSpec
  <2> QED
    BY <1>2, <2>1
    DEF User, ChangeLayout, ChangeTemplate, SetPaused, DeleteInstallation, UserWrites
<1>3. CASE UNCHANGED spec
  BY <1>3
<1>4. CASE SyncReplicas \/ DeleteReplicas
  BY <1>3, <1>4, Zenon
  DEF SyncReplicas, SyncShard, SyncReplica, SkipStatefulSet, CreateStatefulSet,
      KeepStatefulSet, UpdateStatefulSet, SyncServiceForReplica, CreateTablesForReplica,
      CreateTablesFails, FindExtraReplicas, DeleteReplicas, DeleteShard, SkipReplica,
      DeleteTables, DeleteStatefulSet, DeletePVC, DeleteConfigMap,
      DeleteServiceForReplica, StatusAfterDelete
<1>5. CASE Pass /\ ~SyncReplicas /\ ~DeleteReplicas /\ ~UpdateInstallation
                /\ ~RemoveFinalizer
  BY <1>3, <1>5, Zenon
  DEF Pass, Reconcile, SyncServiceForInstallation, SyncConfigMaps, ApplyConfiguration,
      UpdateStatus, Conflict, DeleteConfigMaps, DeleteServiceForInstallation,
      StatusTerminated
<1>6. CASE Fault \/ Pods \/ Informers \/ CollectGarbage \/ Rest
  BY <1>3, <1>6, Zenon
  DEF Fault, Pods, PodReady, PodReplaced, PodLost, Informers, InformerInstallation,
      InformerStatefulSet, CollectGarbage, Rest, vars
<1> QED BY <1>1, <1>2, <1>4, <1>5, <1>6 DEF Next

(* After the loop over the shards none of them is left to do.              *)
FinishedInv ==
  pc \in {"update", "status", "deleteInstallationService", "terminated", "removeFinalizer"}
    => shards = {}

(* FinishedInv holds in every reachable state.                             *)
LEMMA FinishedInvHolds == Spec => []FinishedInv
<1>1. Init => FinishedInv
  BY DEF Init, FinishedInv
<1>2. ASSUME FinishedInv, Next PROVE FinishedInv'
  <2>1. CASE SyncReplicas \/ DeleteReplicas
    BY <2>1
    DEF SyncReplicas, SyncShard, SyncReplica, SkipStatefulSet, CreateStatefulSet,
        KeepStatefulSet, UpdateStatefulSet, SyncServiceForReplica, CreateTablesForReplica,
        CreateTablesFails, FindExtraReplicas, DeleteReplicas, DeleteShard, SkipReplica,
        DeleteTables, DeleteStatefulSet, DeletePVC, DeleteConfigMap,
        DeleteServiceForReplica, StatusAfterDelete, AfterReplica, AfterStatefulSet,
        FinishedInv, Goto, GiveUp, PassOver
  <2>2. CASE Reconcile
    BY <1>2, <2>2 DEF Reconcile, FinishedInv, passVars, Goto
  <2>3. CASE Pass /\ ~SyncReplicas /\ ~DeleteReplicas /\ ~Reconcile
    BY <1>2, <2>3
    DEF Pass, SyncServiceForInstallation, SyncConfigMaps, ApplyConfiguration,
        UpdateInstallation, UpdateStatus, Conflict, DeleteConfigMaps,
        DeleteServiceForInstallation, StatusTerminated, RemoveFinalizer, FinishedInv,
        Goto, GiveUp, PassOver
  <2>4. CASE Fault
    BY <2>4 DEF Fault, GiveUp, PassOver, FinishedInv
  <2>5. CASE User \/ Pods \/ Informers \/ CollectGarbage \/ Rest
    <3>1. UNCHANGED <<pc, shards>>
      BY <2>5, Zenon
      DEF User, ChangeLayout, ChangeTemplate, SetPaused, DeleteInstallation, UserWrites,
          Pods, PodReady, PodReplaced, PodLost, Informers, InformerInstallation,
          InformerStatefulSet, CollectGarbage, Rest, vars, passVars
    <3> QED BY <1>2, <3>1 DEF FinishedInv
  <2> QED BY <1>2, <2>1, <2>2, <2>3, <2>4, <2>5 DEF Next
<1>3. ASSUME FinishedInv, UNCHANGED vars PROVE FinishedInv'
  BY <1>3 DEF FinishedInv, vars, passVars
<1>4. FinishedInv /\ [Next]_vars => FinishedInv'
  BY <1>2, <1>3
<1> QED BY <1>1, <1>4, PTL DEF Spec

(* When the operator is about to take its finalizer off, no replica of the *)
(* spec it works on has a StatefulSet.                                     *)
LEMMA NoneLeft ==
  ASSUME ~CacheLag, CurrentInv, LoopInv, TornDownInv, FinishedInv, RemoveFinalizer
  PROVE  /\ snap.want = spec.want /\ spec.deleting /\ pc = "removeFinalizer"
         /\ \A r \in spec.want : ~sts[r].exists
<1>1. pc = "removeFinalizer" /\ fresh
  BY DEF RemoveFinalizer
<1>2. snap.want = spec.want /\ snap.deleting /\ spec.deleting /\ shards = {}
  BY <1>1 DEF CurrentInv, FreshInv, LoopInv, BranchInv, FinishedInv
<1>3. Remaining = {}
  BY <1>1, <1>2 DEF Remaining, DeleteLabels
<1> QED BY <1>1, <1>2, <1>3 DEF TornDownInv

(***************************************************************************)
(* The operator lets go of a deleted installation only when no replica of  *)
(* its spec has a StatefulSet, whatever failed on the way and however often*)
(* the deletion was started over. It needs caches that do not lag: a       *)
(* StatefulSet the cache does not show is skipped. Of replicas that the    *)
(* spec does not name it says nothing: the code does not look for them.    *)
(***************************************************************************)
THEOREM WantedGoFirst == ASSUME ~CacheLag PROVE Spec => WantedGoBeforeFinalizer
<1> DEFINE First ==
      spec.exists /\ spec.finalizer /\ ~spec'.exists =>
        \A r \in spec.want : ~sts[r].exists
<1>1. ASSUME TypeInv, CurrentInv, LoopInv, TornDownInv, FinishedInv, Next PROVE First
  BY <1>1, InstallationRemovers, NoneLeft
<1>2. TypeInv /\ CurrentInv /\ LoopInv /\ TornDownInv /\ FinishedInv /\ [Next]_vars
        => [First]_vars
  BY <1>1
<1>3. Spec => [][First]_vars
  BY <1>2, TypeInvHolds, CurrentInvHolds, LoopInvHolds, TornDownInvHolds,
     FinishedInvHolds, PTL DEF Spec
<1> QED BY <1>3 DEF WantedGoBeforeFinalizer
=============================================================================
