------------------------- MODULE MemberManagerProofs -------------------------
(***************************************************************************)
(* Proofs about MemberManager, for every set of replicas, every division   *)
(* into shards, every set of layouts, any number of edits and faults, with *)
(* and without lagging caches.                                             *)
(***************************************************************************)
EXTENDS MemberManager, FiniteSetTheorems, TLAPS

----------------------------------------------------------------------------
(* Types *)

(* A set of replicas has a cardinality.                                    *)
LEMMA ReplicaSetsAreFinite ==
  ASSUME NEW S \in SUBSET Replicas
  PROVE  IsFiniteSet(S) /\ Cardinality(S) \in Nat
BY ReplicasAssumption, FS_Subset, FS_CardinalityType

(* The empty records have the types of what they stand for.                *)
LEMMA EmptyTypes ==
  /\ NoSpec \in InstallationSpec
  /\ NoReplicaStatus \in ReplicaStatus
  /\ NoStatus \in InstallationStatus
  /\ NoStatefulSet \in StatefulSet
<1>1. NoSpec \in InstallationSpec
  BY LayoutAssumption DEF NoSpec, InstallationSpec
<1>2. NoReplicaStatus \in ReplicaStatus
  BY DEF NoReplicaStatus, ReplicaStatus, Phases, SyncStates
<1>3. NoStatus \in InstallationStatus
  BY <1>2 DEF NoStatus, InstallationStatus
<1>4. NoStatefulSet \in StatefulSet
  BY LayoutAssumption DEF NoStatefulSet, StatefulSet
<1> QED BY <1>1, <1>2, <1>3, <1>4

(* The status a pass starts from is a status.                              *)
LEMMA StatusAtStartType ==
  ASSUME NEW old \in InstallationStatus, NEW want \in SUBSET Replicas
  PROVE  StatusAtStart(old, want) \in InstallationStatus
BY ReplicaSetsAreFinite DEF StatusAtStart, InstallationStatus

(* The entry a pass derives from a StatefulSet is an entry.                *)
LEMMA ReplicaStatusOfType ==
  ASSUME NEW old \in ReplicaStatus, NEW set \in StatefulSet
  PROVE  ReplicaStatusOf(old, set) \in ReplicaStatus
BY DEF ReplicaStatusOf, ReplicaStatus, StatefulSet, Phases, SyncStates

(* Replacing one entry keeps the entries a function.                       *)
LEMMA ReplacedEntryType ==
  ASSUME NEW f \in [Replicas -> ReplicaStatus], NEW r, NEW e \in ReplicaStatus
  PROVE  [f EXCEPT ![r] = e] \in [Replicas -> ReplicaStatus]
OBVIOUS

(* Storing an entry and counting an update keep the status a status.       *)
LEMMA SetReplicaStatusType ==
  ASSUME NEW st \in InstallationStatus, NEW r \in Replicas, NEW new \in ReplicaStatus
  PROVE  SetReplicaStatus(st, r, new) \in InstallationStatus
<1> DEFINE rep == [st.rep EXCEPT ![r] = new]
           ready == IF new.phase = "Normal" THEN st.ready + 1 ELSE st.ready
<1>0. st.rep \in [Replicas -> ReplicaStatus] /\ st.ready \in Nat
  BY Zenon DEF InstallationStatus
<1>1. rep \in [Replicas -> ReplicaStatus] /\ ready \in Nat
  BY <1>0
<1>2. SetReplicaStatus(st, r, new) = [st EXCEPT !.rep = rep, !.ready = ready]
  BY DEF SetReplicaStatus
<1> HIDE DEF rep, ready
<1> QED BY <1>1, <1>2 DEF InstallationStatus

(* Counting an update, as a setter does, keeps the counters' types.        *)
LEMMA CountUpdateType ==
  ASSUME NEW st \in InstallationStatus
  PROVE  CountUpdate(st) \in InstallationStatus
<1> DEFINE stamp == IF st.updated = 0 THEN ~st.stamp ELSE st.stamp
           updated == st.updated + 1
<1>1. stamp \in BOOLEAN
  BY Zenon DEF InstallationStatus
<1>0. st.updated \in Nat
  BY Zenon DEF InstallationStatus
<1>2. updated \in Nat
  BY <1>0
<1>3. CountUpdate(st) = [st EXCEPT !.updated = updated, !.stamp = stamp]
  BY DEF CountUpdate
<1> HIDE DEF stamp, updated
<1> QED BY <1>1, <1>2, <1>3 DEF InstallationStatus

(* The part of TypeOK that Watch determines.                               *)
CacheTypeOK ==
  /\ stsCache \in [Replicas -> StatefulSet]
  /\ diCache \in [spec : InstallationSpec, status : InstallationStatus]
  /\ diStale \in BOOLEAN /\ pending \in BOOLEAN

(* A watch event keeps the types of the queue and of the caches.           *)
LEMMA WatchType ==
  ASSUME CacheTypeOK, spec' \in InstallationSpec, status' \in InstallationStatus,
         sts' \in [Replicas -> StatefulSet],
         Watch(TRUE) \/ Watch(FALSE) \/ Watch(pending)
  PROVE  CacheTypeOK'
<1>1. CacheLag \in BOOLEAN
  BY SwitchAssumption
<1>2. stsCache' \in [Replicas -> StatefulSet]
  BY <1>1, Zenon DEF CacheTypeOK, Watch
<1>3. diCache' \in [spec : InstallationSpec, status : InstallationStatus]
  <2>1. diCache' = diCache \/ diCache' = [spec |-> spec', status |-> status']
    BY Zenon DEF Watch
  <2> QED BY <2>1 DEF CacheTypeOK
<1>4. diStale' \in BOOLEAN /\ pending' \in BOOLEAN
  BY <1>1, Zenon DEF CacheTypeOK, Watch
<1> QED BY <1>2, <1>3, <1>4 DEF CacheTypeOK

(* The calls that are about one replica, the one in `cur`.                 *)
ReplicaLabels == {"statefulSet", "replicaService", "createTables", "deleteStatefulSet",
                  "deletePVC", "deleteConfigMap", "deleteService", "replicaDeleted"}

(* The part of TypeOK that a pass keeps in memory, and what makes it       *)
(* inductive: a call about a replica has one.                              *)
PassTypeOK ==
  /\ pc \in ReplicaLabels => cur \in Replicas
  /\ snap \in InstallationSpec /\ mem \in InstallationStatus /\ fresh \in BOOLEAN
  /\ pc \in {"idle", "service", "configMaps", "shards", "replicas", "statefulSet",
             "replicaService", "createTables", "delete", "deleteStatefulSet",
             "deletePVC", "deleteConfigMap", "deleteService", "replicaDeleted",
             "update", "status", "deleteInstallationService", "terminated",
             "removeFinalizer"}
  /\ shards \subseteq Shards /\ shard \subseteq Replicas /\ todo \subseteq Replicas
  /\ cur \in Replicas \cup {None}

(* The end of a pass forgets what the pass had, and keeps the types.       *)
LEMMA PassOverType == ASSUME PassOver PROVE PassTypeOK'
BY EmptyTypes, Zenon DEF PassOver, PassTypeOK, ReplicaLabels

(* The part of TypeOK that the API server and the pods hold.               *)
ObjectTypeOK ==
  /\ spec \in InstallationSpec /\ status \in InstallationStatus
  /\ sts \in [Replicas -> StatefulSet]
  /\ configMaps \subseteq Replicas /\ services \subseteq Replicas
  /\ pvcs \subseteq Replicas /\ tables \subseteq Replicas
  /\ common \subseteq {"configMaps", "service"}
  /\ edits \in 0..MaxEdits /\ faults \in 0..MaxFaults

TypeInv == ObjectTypeOK /\ CacheTypeOK /\ PassTypeOK

(* The strengthened invariant is about the same types.                     *)
LEMMA TypeInvImpliesTypeOK == TypeInv => TypeOK
BY Zenon DEF TypeInv, TypeOK, ObjectTypeOK, CacheTypeOK, PassTypeOK

(* A change of one field of the spec is a spec.                            *)
LEMMA SpecEditTypes ==
  ASSUME NEW s \in InstallationSpec
  PROVE  /\ \A w \in SUBSET Replicas : [s EXCEPT !.want = w] \in InstallationSpec
         /\ \A t \in Templates : [s EXCEPT !.template = t] \in InstallationSpec
         /\ \A b \in BOOLEAN : [s EXCEPT !.paused = b] \in InstallationSpec
         /\ [s EXCEPT !.deleting = TRUE] \in InstallationSpec
         /\ [s EXCEPT !.finalizer = TRUE] \in InstallationSpec
         /\ s.template \in Templates /\ s.want \subseteq Replicas
BY DEF InstallationSpec

(* So it is with the StatefulSets.                                         *)
LEMMA StatefulSetEditTypes ==
  ASSUME NEW f \in [Replicas -> StatefulSet], NEW r \in Replicas
  PROVE  /\ \A x \in StatefulSet : [f EXCEPT ![r] = x] \in [Replicas -> StatefulSet]
         /\ \A t \in Templates :
              [f EXCEPT ![r].template = t, ![r].current = FALSE]
                \in [Replicas -> StatefulSet]
         /\ [f EXCEPT ![r].ready = TRUE, ![r].current = TRUE]
              \in [Replicas -> StatefulSet]
         /\ [f EXCEPT ![r].ready = FALSE] \in [Replicas -> StatefulSet]
<1>1. \A x \in StatefulSet : [f EXCEPT ![r] = x] \in [Replicas -> StatefulSet]
  OBVIOUS
<1>2. \A t \in Templates : [f EXCEPT ![r].template = t, ![r].current = FALSE]
                              \in [Replicas -> StatefulSet]
  BY DEF StatefulSet
<1>3. [f EXCEPT ![r].ready = TRUE, ![r].current = TRUE] \in [Replicas -> StatefulSet]
  BY DEF StatefulSet
<1>4. [f EXCEPT ![r].ready = FALSE] \in [Replicas -> StatefulSet]
  BY DEF StatefulSet
<1> QED BY <1>1, <1>2, <1>3, <1>4

(* What each action makes of the objects.                                  *)
LEMMA ObjectTypeStep ==
  ASSUME TypeInv, Next
  PROVE  ObjectTypeOK'
<1> USE DEF TypeInv, ObjectTypeOK, objectVars
<1>0. MaxEdits \in Nat /\ MaxFaults \in Nat
  BY SwitchAssumption
<1>1. CASE Fault
  BY <1>0, <1>1 DEF Fault, GiveUp
<1>2. CASE Reconcile
  BY <1>2 DEF Reconcile
<1>3. CASE SyncServiceForInstallation \/ SyncConfigMaps
  BY <1>3 DEF SyncServiceForInstallation, SyncConfigMaps
<1>4. CASE \E s \in Shards : SyncShard(s) \/ DeleteShard(s)
  BY <1>4 DEF SyncShard, DeleteShard
<1>5. CASE \E r \in Replicas : SyncReplica(r)
  BY <1>5 DEF SyncReplica
<1>6. CASE SkipStatefulSet \/ KeepStatefulSet \/ CreateTablesFails \/ FindExtraReplicas
  BY <1>6 DEF SkipStatefulSet, KeepStatefulSet, CreateTablesFails, FindExtraReplicas
<1>7. CASE CreateStatefulSet
  <2>1. cur \in Replicas /\ snap \in InstallationSpec
    BY <1>7 DEF CreateStatefulSet, PassTypeOK, ReplicaLabels
  <2>2. [exists |-> TRUE, template |-> snap.template, ready |-> FALSE,
         current |-> FALSE] \in StatefulSet
    BY <2>1, SpecEditTypes DEF StatefulSet
  <2> QED BY <1>7, <2>1, <2>2, StatefulSetEditTypes DEF CreateStatefulSet
<1>8. CASE UpdateStatefulSet
  <2>1. cur \in Replicas /\ snap \in InstallationSpec
    BY <1>8 DEF UpdateStatefulSet, PassTypeOK, ReplicaLabels
  <2>2. [sts EXCEPT ![cur].template = snap.template, ![cur].current = FALSE]
          \in [Replicas -> StatefulSet]
    BY <2>1, SpecEditTypes, StatefulSetEditTypes
  <2>3. sts' = sts \/ sts' = [sts EXCEPT ![cur].template = snap.template,
                                        ![cur].current = FALSE]
    BY <1>8, Zenon DEF UpdateStatefulSet
  <2>5. faults' \in 0..MaxFaults
    BY <1>0, <1>8 DEF UpdateStatefulSet
  <2>4. UNCHANGED <<spec, status, objectVars, edits>>
    BY <1>8, Zenon DEF UpdateStatefulSet
  <2> QED BY <2>2, <2>3, <2>4, <2>5
<1>9. CASE SyncServiceForReplica \/ CreateTablesForReplica
  BY <1>9 DEF SyncServiceForReplica, CreateTablesForReplica, PassTypeOK, ReplicaLabels
<1>10. CASE \E r \in Replicas : SkipReplica(r) \/ DeleteTables(r)
  <2>1. tables' \subseteq Replicas /\ faults' \in 0..MaxFaults
    BY <1>0, <1>10 DEF SkipReplica, DeleteTables
  <2>2. UNCHANGED <<spec, status, sts, configMaps, services, pvcs, common, edits>>
    BY <1>10, Zenon DEF SkipReplica, DeleteTables
  <2> QED BY <2>1, <2>2
<1>11. CASE DeleteStatefulSet
  <2>1. cur \in Replicas
    BY <1>11 DEF DeleteStatefulSet, PassTypeOK, ReplicaLabels
  <2>2. [sts EXCEPT ![cur] = NoStatefulSet] \in [Replicas -> StatefulSet]
    BY <2>1, EmptyTypes
  <2> QED BY <1>11, <2>2 DEF DeleteStatefulSet
<1>12. CASE DeletePVC \/ DeleteConfigMap \/ DeleteServiceForReplica
  BY <1>12 DEF DeletePVC, DeleteConfigMap, DeleteServiceForReplica
<1>13. CASE StatusAfterDelete \/ UpdateStatus \/ StatusTerminated
  BY <1>13 DEF PassTypeOK, StatusAfterDelete, UpdateStatus, StatusTerminated,
               UpdateInstallationStatus
<1>14. CASE ApplyConfiguration \/ UpdateInstallation \/ Conflict
  BY <1>14 DEF PassTypeOK, ApplyConfiguration, UpdateInstallation, Conflict
<1>15. CASE DeleteConfigMaps \/ DeleteServiceForInstallation
  BY <1>0, <1>15 DEF DeleteConfigMaps, DeleteServiceForInstallation
<1>16. CASE RemoveFinalizer
  BY <1>16, EmptyTypes DEF RemoveFinalizer
<1>17. CASE User
  <2>1. ASSUME NEW new \in InstallationSpec, UserWrites(new)
        PROVE  ObjectTypeOK'
    BY <1>0, <2>1 DEF UserWrites
  <2>2. CASE \E w \in Layouts : ChangeLayout(w)
    <3>1. PICK w \in Layouts : ChangeLayout(w)
      BY <2>2
    <3>2. [spec EXCEPT !.want = w] \in InstallationSpec
      BY SpecEditTypes, LayoutAssumption
    <3> QED BY <2>1, <3>1, <3>2 DEF ChangeLayout
  <2>3. CASE \E t \in Templates : ChangeTemplate(t)
    <3>1. PICK t \in Templates : ChangeTemplate(t)
      BY <2>3
    <3>2. [spec EXCEPT !.template = t] \in InstallationSpec
      BY SpecEditTypes
    <3> QED BY <2>1, <3>1, <3>2 DEF ChangeTemplate
  <2>4. CASE \E b \in BOOLEAN : SetPaused(b)
    <3>1. PICK b \in BOOLEAN : SetPaused(b)
      BY <2>4
    <3>2. [spec EXCEPT !.paused = b] \in InstallationSpec
      BY SpecEditTypes
    <3> QED BY <2>1, <3>1, <3>2 DEF SetPaused
  <2>5. CASE DeleteInstallation
    <3>1. [spec EXCEPT !.deleting = TRUE] \in InstallationSpec
      BY SpecEditTypes
    <3>2. CASE spec.finalizer
      BY <2>1, <2>5, <3>1, <3>2 DEF DeleteInstallation
    <3>3. CASE ~spec.finalizer
      BY <1>0, <2>5, <3>3, EmptyTypes DEF DeleteInstallation
    <3> QED BY <3>2, <3>3
  <2> QED BY <1>17, <2>2, <2>3, <2>4, <2>5 DEF User
<1>18. CASE Pods
  <2>1. sts' \in [Replicas -> StatefulSet]
    <3>1. PICK r \in Replicas : PodReady(r) \/ PodReplaced(r) \/ PodLost(r)
      BY <1>18 DEF Pods
    <3>2. /\ [sts EXCEPT ![r].ready = TRUE, ![r].current = TRUE]
               \in [Replicas -> StatefulSet]
          /\ [sts EXCEPT ![r].ready = FALSE] \in [Replicas -> StatefulSet]
      BY StatefulSetEditTypes
    <3> QED BY <3>1, <3>2 DEF PodReady, PodReplaced, PodLost
  <2>2. pvcs' \subseteq Replicas /\ faults' \in 0..MaxFaults
    BY <1>0, <1>18 DEF Pods, PodReady, PodReplaced, PodLost
  <2>3. UNCHANGED <<spec, status, configMaps, services, tables, common, edits>>
    BY <1>18, Zenon DEF Pods, PodReady, PodReplaced, PodLost
  <2> QED BY <2>1, <2>2, <2>3
<1>19. CASE CollectGarbage
  BY <1>19, EmptyTypes DEF CollectGarbage
<1>20. CASE Informers \/ Rest
  BY <1>20 DEF Informers, InformerInstallation, InformerStatefulSet, Rest, vars
<1> QED
  BY <1>1, <1>2, <1>3, <1>4, <1>5, <1>6, <1>7, <1>8, <1>9, <1>10, <1>11, <1>12, <1>13,
     <1>14, <1>15, <1>16, <1>17, <1>18, <1>19, <1>20
  DEF Next, Pass, SyncReplicas, DeleteReplicas

(* What each action makes of the memory of the pass.                       *)
LEMMA PassTypeStep ==
  ASSUME TypeInv, Next
  PROVE  PassTypeOK'
<1> USE DEF TypeInv, PassTypeOK, ReplicaLabels, Goto
<1>1. CASE Reconcile
  <2> DEFINE di == diCache.spec
             started == IF di.deleting THEN [diCache.status EXCEPT !.state = "Terminating"]
                        ELSE StatusAtStart(diCache.status, di.want)
  <2>1. di \in InstallationSpec /\ diCache.status \in InstallationStatus
    BY DEF CacheTypeOK
  <2>2. [di EXCEPT !.finalizer = TRUE] \in InstallationSpec /\ di.want \subseteq Replicas
    BY <2>1, SpecEditTypes
  <2>3. [diCache.status EXCEPT !.state = "Terminating"] \in InstallationStatus
    BY <2>1 DEF InstallationStatus
  <2>4. started \in InstallationStatus
    BY <2>1, <2>2, <2>3, StatusAtStartType
  <2>5. ShardsOf(di.want) \subseteq Shards
    BY DEF ShardsOf
  <2>6. diStale \in BOOLEAN
    BY DEF CacheTypeOK
  <2>7. CASE UNCHANGED passVars
    BY <2>7 DEF passVars
  <2>8. CASE ~UNCHANGED passVars
    <3>1. /\ snap' = IF di.deleting THEN di ELSE [di EXCEPT !.finalizer = TRUE]
          /\ mem' = started
          /\ fresh' = ~diStale
          /\ shards' = ShardsOf(di.want)
          /\ pc' \in {"shards", "service"}
          /\ UNCHANGED <<shard, todo, cur>>
      BY <1>1, <2>8 DEF Reconcile
    <3>2. snap' \in InstallationSpec /\ mem' \in InstallationStatus
      BY <2>1, <2>2, <2>4, <3>1
    <3>3. fresh' \in BOOLEAN
      BY <2>6, <3>1, Zenon
    <3> HIDE DEF started, di
    <3> QED BY <2>5, <3>1, <3>2, <3>3
  <2> QED BY <2>7, <2>8
<1>2. CASE \/ Fault \/ CreateStatefulSet \/ CreateTablesFails \/ UpdateStatus
           \/ Conflict \/ RemoveFinalizer
  <2>1. PassOver
    BY <1>2, Zenon DEF Fault, CreateStatefulSet, CreateTablesFails, UpdateStatus, Conflict,
                       RemoveFinalizer, GiveUp
  <2> QED BY <2>1, PassOverType
<1>3. CASE SyncServiceForInstallation \/ SyncConfigMaps
  BY <1>3 DEF SyncServiceForInstallation, SyncConfigMaps
<1>4. CASE \E s \in Shards : SyncShard(s) \/ DeleteShard(s)
  <2>1. PICK s \in Shards : SyncShard(s) \/ DeleteShard(s)
    BY <1>4
  <2>2. s \subseteq Replicas
    BY LayoutAssumption
  <2>3. [mem EXCEPT !.cluster = TRUE] \in InstallationStatus
    BY DEF InstallationStatus
  <2> QED BY <2>1, <2>2, <2>3 DEF SyncShard, DeleteShard
<1>5. CASE \E r \in Replicas : SyncReplica(r) \/ SkipReplica(r) \/ DeleteTables(r)
  BY <1>5 DEF SyncReplica, SkipReplica, DeleteTables, AfterReplica
<1>6. CASE KeepStatefulSet \/ UpdateStatefulSet
  <2>1. cur \in Replicas /\ stsCache[cur] \in StatefulSet
    BY <1>6 DEF KeepStatefulSet, UpdateStatefulSet, CacheTypeOK
  <2>2. mem.rep[cur] \in ReplicaStatus
    BY <2>1 DEF InstallationStatus
  <2>3. SetReplicaStatus(mem, cur, ReplicaStatusOf(mem.rep[cur], stsCache[cur]))
          \in InstallationStatus
    BY <2>1, <2>2, ReplicaStatusOfType, SetReplicaStatusType
  <2>4. SetReplicaStatus(CountUpdate(mem), cur, ReplicaStatusOf(mem.rep[cur], NoStatefulSet))
          \in InstallationStatus
    BY <2>1, <2>2, EmptyTypes, CountUpdateType, ReplicaStatusOfType, SetReplicaStatusType
  <2> QED BY <1>6, <2>3, <2>4 DEF KeepStatefulSet, UpdateStatefulSet
<1>7. CASE SkipStatefulSet \/ SyncServiceForReplica
  BY <1>7 DEF SkipStatefulSet, SyncServiceForReplica
<1>8. CASE CreateTablesForReplica
  <2> DEFINE rep == [mem.rep EXCEPT ![cur] = [mem.rep[cur] EXCEPT !.state = "Sync"]]
             ready == mem.ready + 1
  <2>1. mem.rep \in [Replicas -> ReplicaStatus] /\ mem.ready \in Nat
    BY Zenon DEF InstallationStatus
  <2>2. rep \in [Replicas -> ReplicaStatus] /\ ready \in Nat
    <3>1. cur \in Replicas
      BY <1>8 DEF CreateTablesForReplica
    <3>2. [mem.rep[cur] EXCEPT !.state = "Sync"] \in ReplicaStatus
      BY <2>1, <3>1 DEF ReplicaStatus, SyncStates
    <3>3. rep \in [Replicas -> ReplicaStatus]
      BY <2>1, <3>2, ReplacedEntryType
    <3> HIDE DEF rep
    <3> QED BY <2>1, <3>3
  <2>3. mem' = [mem EXCEPT !.rep = rep, !.ready = ready]
    BY <1>8 DEF CreateTablesForReplica
  <2> HIDE DEF rep, ready
  <2>4. mem' \in InstallationStatus
    BY <2>2, <2>3 DEF InstallationStatus
  <2> QED BY <1>8, <2>4 DEF CreateTablesForReplica
<1>9. CASE FindExtraReplicas
  <2>1. ExtraReplicas(mem.prev \cap shard, snap.want \cap shard) \subseteq Replicas
    BY DEF ExtraReplicas
  <2> QED BY <1>9, <2>1 DEF FindExtraReplicas
<1>10. CASE DeleteStatefulSet
  <2> DEFINE rep == [mem.rep EXCEPT ![cur] = NoReplicaStatus]
             deleted == mem.deleted + 1
  <2>1. CASE mem' = [mem EXCEPT !.rep = rep, !.deleted = deleted]
    <3>1. mem.rep \in [Replicas -> ReplicaStatus] /\ mem.deleted \in Nat
      BY Zenon DEF InstallationStatus
    <3>2. rep \in [Replicas -> ReplicaStatus] /\ deleted \in Nat
      <4>1. NoReplicaStatus \in ReplicaStatus
        BY EmptyTypes
      <4>2. rep \in [Replicas -> ReplicaStatus]
        BY <3>1, <4>1, ReplacedEntryType
      <4> HIDE DEF rep
      <4> QED BY <3>1, <4>2
    <3> HIDE DEF rep, deleted
    <3>3. mem' \in InstallationStatus
      BY <2>1, <3>2 DEF InstallationStatus
    <3>4. PassOver \/ (UNCHANGED <<snap, fresh, shards, shard, todo, cur>>
                        /\ pc' \in {"deletePVC", "deleteConfigMap"} /\ cur \in Replicas)
      BY <1>10 DEF DeleteStatefulSet, GiveUp, AfterStatefulSet
    <3> QED BY <3>3, <3>4, PassOverType
  <2>2. CASE mem' # [mem EXCEPT !.rep = rep, !.deleted = deleted]
    <3>1. PassOver
      BY <1>10, <2>2, Zenon DEF DeleteStatefulSet, GiveUp
    <3> QED BY <3>1, PassOverType
  <2> QED BY <2>1, <2>2
<1>11. CASE DeletePVC \/ DeleteConfigMap \/ DeleteServiceForReplica
  BY <1>11 DEF DeletePVC, DeleteConfigMap, DeleteServiceForReplica
<1>12. CASE StatusAfterDelete \/ UpdateInstallation
  BY <1>12 DEF StatusAfterDelete, UpdateInstallation, AfterReplica
<1>13. CASE ApplyConfiguration
  <2>1. /\ snap.want \in SUBSET Replicas
        /\ mem.state \in {"", "InProgress", "Completed", "Terminating"}
    BY DEF InstallationSpec, InstallationStatus
  <2>2. \A st \in {"", "InProgress", "Completed", "Terminating"} :
          [mem EXCEPT !.prev = snap.want, !.state = st] \in InstallationStatus
    BY <2>1 DEF InstallationStatus
  <2>3. mem' \in InstallationStatus
    BY <1>13, <2>1, <2>2 DEF ApplyConfiguration
  <2> QED BY <1>13, <2>3 DEF ApplyConfiguration
<1>14. CASE DeleteConfigMaps \/ DeleteServiceForInstallation \/ StatusTerminated
  <2>1. [mem EXCEPT !.state = "Completed"] \in InstallationStatus
    BY DEF InstallationStatus
  <2> QED BY <1>14, <2>1 DEF DeleteConfigMaps, DeleteServiceForInstallation, StatusTerminated
<1>15. CASE User
  <2>1. fresh' = FALSE /\ UNCHANGED <<pc, snap, mem, shards, shard, todo, cur>>
    BY <1>15, Zenon
    DEF User, ChangeLayout, ChangeTemplate, SetPaused, DeleteInstallation, UserWrites
  <2> QED BY <2>1
<1>16. CASE Pods \/ Informers \/ CollectGarbage \/ Rest
  <2>1. UNCHANGED passVars
    BY <1>16, Zenon DEF Pods, PodReady, PodReplaced, PodLost, Informers, Rest, vars,
                        InformerInstallation, InformerStatefulSet, CollectGarbage
  <2> QED BY <2>1 DEF passVars
<1> QED
  BY <1>1, <1>2, <1>3, <1>4, <1>5, <1>6, <1>7, <1>8, <1>9, <1>10, <1>11, <1>12, <1>13,
     <1>14, <1>15, <1>16
  DEF Next, Pass, SyncReplicas, DeleteReplicas

(* Every step but a delivery and a rest is watched.                        *)
LEMMA StepsAreWatched ==
  ASSUME Next
  PROVE  Watch(TRUE) \/ Watch(FALSE) \/ Watch(pending) \/ Informers \/ UNCHANGED vars
<1>1. CASE Pass
  BY <1>1, Zenon
  DEF Pass, SyncReplicas, DeleteReplicas, Reconcile, SyncServiceForInstallation,
      SyncConfigMaps, SyncShard, SyncReplica, SkipStatefulSet, CreateStatefulSet,
      KeepStatefulSet, UpdateStatefulSet, SyncServiceForReplica, CreateTablesForReplica,
      CreateTablesFails, FindExtraReplicas, DeleteShard, SkipReplica, DeleteTables,
      DeleteStatefulSet, DeletePVC, DeleteConfigMap, DeleteServiceForReplica,
      StatusAfterDelete, ApplyConfiguration, UpdateInstallation, UpdateStatus, Conflict,
      DeleteConfigMaps, DeleteServiceForInstallation, StatusTerminated, RemoveFinalizer,
      GiveUp
<1>2. CASE User
  BY <1>2, Zenon
  DEF User, ChangeLayout, ChangeTemplate, SetPaused, DeleteInstallation, UserWrites
<1>3. CASE Fault \/ Pods \/ CollectGarbage
  BY <1>3, Zenon DEF Fault, GiveUp, Pods, PodReady, PodReplaced, PodLost, CollectGarbage
<1>4. CASE Rest
  BY <1>4 DEF Rest
<1> QED BY <1>1, <1>2, <1>3, <1>4 DEF Next

(* Every step keeps the caches' types.                                     *)
LEMMA CacheTypeStep ==
  ASSUME TypeInv, Next, ObjectTypeOK'
  PROVE  CacheTypeOK'
<1>1. CASE Watch(TRUE) \/ Watch(FALSE) \/ Watch(pending)
  BY <1>1, WatchType, Zenon DEF TypeInv, ObjectTypeOK
<1>2. CASE InformerInstallation
  BY <1>2 DEF TypeInv, ObjectTypeOK, CacheTypeOK, InformerInstallation
<1>3. CASE \E r \in Replicas : InformerStatefulSet(r)
  BY <1>3 DEF TypeInv, ObjectTypeOK, CacheTypeOK, InformerStatefulSet
<1>4. CASE UNCHANGED vars
  BY <1>4 DEF TypeInv, CacheTypeOK, vars, cacheVars
<1> QED BY <1>1, <1>2, <1>3, <1>4, StepsAreWatched DEF Informers

(* The types hold in the initial states.                                   *)
LEMMA TypeInvInit == Init => TypeInv
<1> SUFFICES ASSUME Init PROVE TypeInv
  OBVIOUS
<1>1. spec \in InstallationSpec
  BY LayoutAssumption DEF Init, InstallationSpec
<1>2. ObjectTypeOK
  BY <1>1, EmptyTypes, SwitchAssumption DEF Init, ObjectTypeOK
<1>3. CacheTypeOK
  BY <1>1, EmptyTypes DEF Init, CacheTypeOK
<1>4. PassTypeOK
  BY EmptyTypes DEF Init, PassTypeOK, ReplicaLabels
<1> QED BY <1>2, <1>3, <1>4 DEF TypeInv

(* Every step keeps the types.                                             *)
LEMMA TypeInvStep == TypeInv /\ [Next]_vars => TypeInv'
<1>1. ASSUME TypeInv, Next PROVE TypeInv'
  BY <1>1, ObjectTypeStep, PassTypeStep, CacheTypeStep DEF TypeInv
<1>2. ASSUME TypeInv, UNCHANGED vars PROVE TypeInv'
  BY <1>2, Zenon
  DEF TypeInv, ObjectTypeOK, CacheTypeOK, PassTypeOK, vars, objectVars, cacheVars, passVars
<1> QED BY <1>1, <1>2

(* The types hold in every reachable state.                                *)
LEMMA TypeInvHolds == Spec => []TypeInv
BY TypeInvInit, TypeInvStep, PTL DEF Spec

(***************************************************************************)
(* Every reachable state is well typed, of any installation, with any      *)
(* number of edits and faults.                                             *)
(***************************************************************************)
THEOREM TypeCorrect == Spec => []TypeOK
BY TypeInvHolds, TypeInvImpliesTypeOK, PTL

----------------------------------------------------------------------------
(* Status writes are current *)

(* A cached installation that is not stale is the stored one.              *)
CacheInv == ~diStale => diCache = [spec |-> spec, status |-> status]

(* A pass whose resourceVersion is still the API server's works on the     *)
(* spec that is stored.                                                    *)
FreshInv ==
  /\ pc = "idle" => ~fresh
  /\ fresh => /\ spec.exists /\ snap.exists
              /\ snap.want = spec.want /\ snap.template = spec.template
              /\ snap.deleting = spec.deleting

CurrentInv == CacheInv /\ FreshInv

(* Every step keeps the cache equal to the store, or stale.                *)
LEMMA CacheInvStep ==
  ASSUME CacheInv, Next
  PROVE  CacheInv'
<1>1. CASE Watch(TRUE) \/ Watch(FALSE) \/ Watch(pending)
  <2>1. CASE CacheLag
    BY <1>1, <2>1, Zenon DEF Watch, CacheInv
  <2>2. CASE ~CacheLag
    BY <1>1, <2>2, Zenon DEF Watch, CacheInv
  <2> QED BY <2>1, <2>2
<1>2. CASE Informers
  BY <1>2, Zenon DEF Informers, InformerInstallation, InformerStatefulSet, CacheInv
<1>3. CASE UNCHANGED vars
  BY <1>3, Zenon DEF CacheInv, vars, cacheVars
<1> QED BY <1>1, <1>2, <1>3, StepsAreWatched

(* Who changes the spec, the snapshot of it or its freshness.              *)
LEMMA SpecWriters ==
  ASSUME Next
  PROVE  \/ Reconcile \/ UpdateInstallation
         \/ fresh' = FALSE
         \/ UNCHANGED <<spec, snap, fresh>> /\ (pc' = pc \/ pc' # "idle")
<1>1. CASE Pass
  <2>1. CASE SyncReplicas
    BY <2>1
    DEF SyncReplicas, SyncShard, SyncReplica, SkipStatefulSet, CreateStatefulSet,
        KeepStatefulSet, UpdateStatefulSet, SyncServiceForReplica, CreateTablesForReplica,
        CreateTablesFails, FindExtraReplicas, GiveUp, PassOver, Goto
  <2>2. CASE DeleteReplicas
    BY <2>2
    DEF DeleteReplicas, DeleteShard, SkipReplica, DeleteTables, DeleteStatefulSet,
        DeletePVC, DeleteConfigMap, DeleteServiceForReplica, StatusAfterDelete,
        AfterStatefulSet, AfterReplica, GiveUp, PassOver, Goto
  <2>3. CASE SyncServiceForInstallation \/ SyncConfigMaps \/ ApplyConfiguration
    BY <2>3 DEF SyncServiceForInstallation, SyncConfigMaps, ApplyConfiguration, Goto
  <2>4. CASE DeleteConfigMaps \/ DeleteServiceForInstallation \/ StatusTerminated
    BY <2>4 DEF DeleteConfigMaps, DeleteServiceForInstallation, StatusTerminated, Goto
  <2>5. CASE UpdateStatus \/ Conflict \/ RemoveFinalizer
    BY <2>5, Zenon DEF UpdateStatus, Conflict, RemoveFinalizer, GiveUp, PassOver
  <2> QED BY <1>1, <2>1, <2>2, <2>3, <2>4, <2>5 DEF Pass
<1>2. CASE Fault
  BY <1>2 DEF Fault, GiveUp, PassOver
<1>3. CASE User
  BY <1>3, Zenon
  DEF User, ChangeLayout, ChangeTemplate, SetPaused, DeleteInstallation, UserWrites
<1>4. CASE Pods \/ Informers \/ CollectGarbage \/ Rest
  BY <1>4, Zenon
  DEF Pods, PodReady, PodReplaced, PodLost, Informers, InformerInstallation,
      InformerStatefulSet, CollectGarbage, Rest, vars, passVars
<1> QED BY <1>1, <1>2, <1>3, <1>4 DEF Next

(* Every step keeps a fresh pass on the stored spec.                       *)
LEMMA FreshInvStep ==
  ASSUME TypeInv, CurrentInv, Next
  PROVE  FreshInv'
<1> USE DEF CurrentInv, FreshInv
<1>1. CASE Reconcile
  <2>1. CASE UNCHANGED passVars
    BY <1>1, <2>1 DEF Reconcile, passVars
  <2>2. CASE ~UNCHANGED passVars
    <3> DEFINE di == diCache.spec
    <3>1. /\ di.exists
          /\ snap' = IF di.deleting THEN di ELSE [di EXCEPT !.finalizer = TRUE]
          /\ fresh' = ~diStale
          /\ pc' \in {"shards", "service"}
          /\ spec' = spec
      BY <1>1, <2>2 DEF Reconcile, Goto
    <3>2. di \in InstallationSpec
      BY DEF TypeInv, CacheTypeOK
    <3>3. fresh' => di = spec
      <4>1. fresh' => ~diStale
        BY <3>1, Zenon
      <4>2. ~diStale => diCache = [spec |-> spec, status |-> status]
        BY DEF CacheInv
      <4>3. ~diStale => di = spec
        BY <4>2
      <4> QED BY <4>1, <4>3
    <3>4. /\ snap'.exists = di.exists /\ snap'.want = di.want
          /\ snap'.template = di.template /\ snap'.deleting = di.deleting
      BY <3>1, <3>2 DEF InstallationSpec
    <3> HIDE DEF di
    <3> QED BY <3>1, <3>3, <3>4
  <2> QED BY <2>1, <2>2
<1>2. CASE UpdateInstallation
  BY <1>2 DEF UpdateInstallation, Goto
<1>3. CASE fresh' = FALSE
  BY <1>3
<1>4. CASE UNCHANGED <<spec, snap, fresh>> /\ (pc' = pc \/ pc' # "idle")
  BY <1>4
<1> QED BY <1>1, <1>2, <1>3, <1>4, SpecWriters

(* At the start the cache shows what is stored.                            *)
LEMMA CurrentInvInit == Init => CurrentInv
BY DEF Init, CurrentInv, CacheInv, FreshInv

(* Every step keeps the relation of cache, pass and store.                 *)
LEMMA CurrentInvStep == TypeInv /\ CurrentInv /\ [Next]_vars => CurrentInv'
<1>1. ASSUME TypeInv, CurrentInv, Next PROVE CurrentInv'
  BY <1>1, CacheInvStep, FreshInvStep DEF CurrentInv
<1>2. ASSUME CurrentInv, UNCHANGED vars PROVE CurrentInv'
  BY <1>2 DEF CurrentInv, CacheInv, FreshInv, vars, cacheVars, passVars
<1> QED BY <1>1, <1>2

(* It holds in every reachable state.                                      *)
LEMMA CurrentInvHolds == Spec => []CurrentInv
BY CurrentInvInit, CurrentInvStep, TypeInvHolds, PTL DEF Spec

(* Who changes the status.                                                 *)
LEMMA StatusWriters ==
  ASSUME Next, status' # status
  PROVE  \/ /\ pc \in {"replicaDeleted", "status", "terminated"}
            /\ UpdateInstallationStatus(mem) /\ UNCHANGED spec
         \/ spec' = NoSpec /\ status' = NoStatus
<1>1. CASE Pass
  <2>1. CASE SyncReplicas
    BY <2>1, Zenon
    DEF SyncReplicas, SyncShard, SyncReplica, SkipStatefulSet, CreateStatefulSet,
        KeepStatefulSet, UpdateStatefulSet, SyncServiceForReplica, CreateTablesForReplica,
        CreateTablesFails, FindExtraReplicas
  <2>2. CASE DeleteReplicas
    <3>1. CASE StatusAfterDelete
      BY <3>1 DEF StatusAfterDelete
    <3> QED
      BY <2>2, <3>1, Zenon
      DEF DeleteReplicas, DeleteShard, SkipReplica, DeleteTables, DeleteStatefulSet,
          DeletePVC, DeleteConfigMap, DeleteServiceForReplica
  <2>3. CASE UpdateStatus \/ StatusTerminated \/ RemoveFinalizer
    BY <2>3 DEF UpdateStatus, StatusTerminated, RemoveFinalizer
  <2> QED
    BY <1>1, <2>1, <2>2, <2>3, Zenon
    DEF Pass, Reconcile, SyncServiceForInstallation, SyncConfigMaps, ApplyConfiguration,
        UpdateInstallation, Conflict, DeleteConfigMaps, DeleteServiceForInstallation
<1>2. CASE User
  BY <1>2, Zenon
  DEF User, ChangeLayout, ChangeTemplate, SetPaused, DeleteInstallation, UserWrites
<1> QED
  BY <1>1, <1>2, Zenon
  DEF Next, Fault, Pods, PodReady, PodReplaced, PodLost, Informers, InformerInstallation,
      InformerStatefulSet, CollectGarbage, Rest, vars

(***************************************************************************)
(* No pass, however long it takes and however far the caches lag, writes a *)
(* status that was built from a spec the user has replaced: the            *)
(* resourceVersion of the cached object protects every write.              *)
(***************************************************************************)
THEOREM StatusIsCurrent == Spec => StatusWritesAreCurrent
<1> DEFINE Current ==
      status' # status /\ spec'.exists =>
        /\ snap.want = spec.want /\ snap.template = spec.template
        /\ snap.deleting = spec.deleting
<1>1. ASSUME CurrentInv, Next PROVE Current
  <2> SUFFICES ASSUME status' # status, spec'.exists
               PROVE  /\ snap.want = spec.want /\ snap.template = spec.template
                      /\ snap.deleting = spec.deleting
    OBVIOUS
  <2>1. ~NoSpec.exists
    BY DEF NoSpec
  <2>2. UpdateInstallationStatus(mem)
    BY <1>1, <2>1, StatusWriters
  <2>3. fresh
    BY <2>2, Zenon DEF UpdateInstallationStatus
  <2> QED BY <1>1, <2>3 DEF CurrentInv, FreshInv
<1>2. CurrentInv /\ [Next]_vars => [Current]_vars
  BY <1>1
<1>3. Spec => [][Current]_vars
  BY <1>2, CurrentInvHolds, PTL DEF Spec
<1> QED BY <1>3 DEF StatusWritesAreCurrent

----------------------------------------------------------------------------
(* Replicas that are wanted survive *)

SyncLabels == {"replicas", "statefulSet", "replicaService", "createTables"}
DeleteLabels == {"delete", "deleteStatefulSet", "deletePVC", "deleteConfigMap",
                 "deleteService", "replicaDeleted"}

(* Which branch of Sync the pass is in.                                    *)
BranchInv ==
  /\ pc \in SyncLabels \cup {"service", "configMaps", "update", "status"} => ~snap.deleting
  /\ pc \in {"deleteInstallationService", "terminated", "removeFinalizer"} => snap.deleting

(* Where it is in the loop over the replicas of a shard, ...               *)
SyncLoopInv ==
  /\ pc \in SyncLabels =>
       todo \subseteq shard \cap snap.want /\ shard \cap UNION shards = {}
  /\ pc \in SyncLabels \ {"replicas"} => cur \in (shard \cap snap.want) \ todo
  /\ pc = "createTables" => NeedsTables(mem.rep[cur])

(* ... and in the one over its extra replicas: none of them is wanted.     *)
DeleteLoopInv ==
  ~snap.deleting =>
    /\ pc \in DeleteLabels => todo \cap snap.want = {}
    /\ pc \in DeleteLabels \ {"delete"} => cur \notin snap.want

LoopInv == BranchInv /\ SyncLoopInv /\ DeleteLoopInv

(* Every step keeps the bounds of the loops.                               *)
LEMMA LoopInvStep ==
  ASSUME TypeInv, LoopInv, Next
  PROVE  LoopInv'
<1> USE DEF LoopInv, BranchInv, SyncLoopInv, DeleteLoopInv, SyncLabels, DeleteLabels, Goto
<1>1. CASE Reconcile
  <2>1. CASE UNCHANGED passVars
    BY <2>1 DEF passVars
  <2>2. CASE ~UNCHANGED passVars
    <3> DEFINE di == diCache.spec
    <3>1. /\ snap' = IF di.deleting THEN di ELSE [di EXCEPT !.finalizer = TRUE]
          /\ pc' = IF di.deleting THEN "shards" ELSE "service"
      BY <1>1, <2>2 DEF Reconcile
    <3>2. di \in InstallationSpec
      BY DEF TypeInv, CacheTypeOK
    <3>3. snap'.deleting = di.deleting
      BY <3>1, <3>2 DEF InstallationSpec
    <3> HIDE DEF di
    <3> QED BY <3>1, <3>3
  <2> QED BY <2>1, <2>2
<1>2. CASE \/ Fault \/ CreateStatefulSet \/ CreateTablesFails \/ UpdateStatus
           \/ Conflict \/ RemoveFinalizer
  <2>1. pc' = "idle"
    BY <1>2, Zenon DEF Fault, CreateStatefulSet, CreateTablesFails, UpdateStatus, Conflict,
                       RemoveFinalizer, GiveUp, PassOver
  <2> QED BY <2>1
<1>3. CASE SyncServiceForInstallation \/ SyncConfigMaps
  BY <1>3 DEF SyncServiceForInstallation, SyncConfigMaps
<1>4. CASE \E s \in Shards : SyncShard(s)
  <2>1. PICK s \in Shards : SyncShard(s)
    BY <1>4
  <2>2. s \in shards /\ shards \subseteq Shards
    BY <2>1 DEF SyncShard, TypeInv, PassTypeOK
  <2>3. s \cap UNION (shards \ {s}) = {}
    BY <2>2, LayoutAssumption
  <2> QED BY <2>1, <2>3 DEF SyncShard
<1>5. CASE \E r \in Replicas : SyncReplica(r)
  BY <1>5 DEF SyncReplica
<1>6. CASE SkipStatefulSet \/ KeepStatefulSet \/ UpdateStatefulSet
  BY <1>6 DEF SkipStatefulSet, KeepStatefulSet, UpdateStatefulSet
<1>7. CASE SyncServiceForReplica
  BY <1>7 DEF SyncServiceForReplica
<1>8. CASE CreateTablesForReplica
  BY <1>8 DEF CreateTablesForReplica
<1>9. CASE FindExtraReplicas
  <2>1. ExtraReplicas(mem.prev \cap shard, snap.want \cap shard) \cap snap.want = {}
    BY DEF ExtraReplicas
  <2> QED BY <1>9, <2>1 DEF FindExtraReplicas
<1>10. CASE \E s \in Shards : DeleteShard(s)
  BY <1>10 DEF DeleteShard
<1>11. CASE \E r \in Replicas : SkipReplica(r) \/ DeleteTables(r)
  BY <1>11 DEF SkipReplica, DeleteTables, AfterReplica
<1>12. CASE DeleteStatefulSet
  <2>1. \/ pc' = "idle"
        \/ pc' \in {"deletePVC", "deleteConfigMap"} /\ UNCHANGED <<snap, todo, cur>>
    BY <1>12 DEF DeleteStatefulSet, GiveUp, PassOver, AfterStatefulSet
  <2> QED BY <1>12, <2>1 DEF DeleteStatefulSet
<1>13. CASE DeletePVC \/ DeleteConfigMap \/ DeleteServiceForReplica
  BY <1>13 DEF DeletePVC, DeleteConfigMap, DeleteServiceForReplica
<1>14. CASE StatusAfterDelete
  BY <1>14 DEF StatusAfterDelete, AfterReplica
<1>15. CASE ApplyConfiguration \/ UpdateInstallation
  BY <1>15 DEF ApplyConfiguration, UpdateInstallation
<1>16. CASE DeleteConfigMaps \/ DeleteServiceForInstallation \/ StatusTerminated
  BY <1>16 DEF DeleteConfigMaps, DeleteServiceForInstallation, StatusTerminated
<1>17. CASE User \/ Pods \/ Informers \/ CollectGarbage \/ Rest
  <2>1. UNCHANGED <<pc, snap, mem, shards, shard, todo, cur>>
    BY <1>17, Zenon
    DEF User, ChangeLayout, ChangeTemplate, SetPaused, DeleteInstallation, UserWrites,
        Pods, PodReady, PodReplaced, PodLost, Informers, InformerInstallation,
        InformerStatefulSet, CollectGarbage, Rest, vars, passVars
  <2> QED BY <2>1
<1> QED
  BY <1>1, <1>2, <1>3, <1>4, <1>5, <1>6, <1>7, <1>8, <1>9, <1>10, <1>11, <1>12, <1>13,
     <1>14, <1>15, <1>16, <1>17
  DEF Next, Pass, SyncReplicas, DeleteReplicas

(* They hold in every reachable state.                                     *)
LEMMA LoopInvHolds == Spec => []LoopInv
<1>1. Init => LoopInv
  BY DEF Init, LoopInv, BranchInv, SyncLoopInv, DeleteLoopInv, SyncLabels, DeleteLabels
<1>2. ASSUME LoopInv, UNCHANGED vars PROVE LoopInv'
  BY <1>2 DEF LoopInv, BranchInv, SyncLoopInv, DeleteLoopInv, vars, passVars
<1>3. TypeInv /\ LoopInv /\ [Next]_vars => LoopInv'
  BY <1>2, LoopInvStep
<1> QED BY <1>1, <1>3, TypeInvHolds, PTL DEF Spec

(* Who takes a StatefulSet or a volume away.                               *)
LEMMA ReplicaRemovers ==
  ASSUME TypeInv, Next, NEW r \in Replicas,
         (sts[r].exists /\ ~sts'[r].exists) \/ (r \in pvcs /\ r \notin pvcs')
  PROVE  \/ pc \in DeleteLabels \ {"delete"} /\ cur = r
         \/ ~spec.exists
<1> USE DEF TypeInv, DeleteLabels
<1>1. CASE UNCHANGED <<sts, pvcs>>
  BY <1>1
<1>2. CASE CreateStatefulSet
  BY <1>2 DEF CreateStatefulSet, ObjectTypeOK, objectVars
<1>3. CASE UpdateStatefulSet
  <2>1. UNCHANGED pvcs
    BY <1>3, Zenon DEF UpdateStatefulSet, objectVars
  <2>2. sts' = sts \/ sts' = [sts EXCEPT ![cur].template = snap.template,
                                        ![cur].current = FALSE]
    BY <1>3, Zenon DEF UpdateStatefulSet
  <2>3. sts \in [Replicas -> StatefulSet]
    BY DEF ObjectTypeOK
  <2> QED BY <2>1, <2>2, <2>3 DEF StatefulSet
<1>4. CASE DeleteStatefulSet
  BY <1>4 DEF DeleteStatefulSet, ObjectTypeOK, objectVars
<1>5. CASE DeletePVC
  BY <1>5 DEF DeletePVC
<1>6. CASE Pods
  <2>1. sts \in [Replicas -> StatefulSet]
    BY DEF ObjectTypeOK
  <2>2. PICK x \in Replicas : PodReady(x) \/ PodReplaced(x) \/ PodLost(x)
    BY <1>6 DEF Pods
  <2>3. pvcs \subseteq pvcs'
    BY <2>2 DEF PodReady, PodReplaced, PodLost, objectVars
  <2>4. \/ sts' = [sts EXCEPT ![x].ready = TRUE, ![x].current = TRUE]
        \/ sts' = [sts EXCEPT ![x].ready = FALSE]
    BY <2>2, Zenon DEF PodReady, PodReplaced, PodLost
  <2> QED BY <2>1, <2>3, <2>4 DEF StatefulSet
<1>7. CASE CollectGarbage
  BY <1>7 DEF CollectGarbage
<1>8. CASE \/ \E s \in Shards : SyncShard(s) \/ DeleteShard(s)
           \/ \E x \in Replicas : SyncReplica(x) \/ SkipReplica(x) \/ DeleteTables(x)
           \/ SkipStatefulSet \/ KeepStatefulSet \/ SyncServiceForReplica
           \/ CreateTablesForReplica \/ CreateTablesFails \/ FindExtraReplicas
  BY <1>1, <1>8, Zenon
  DEF SyncShard, DeleteShard, SyncReplica, SkipReplica, DeleteTables, SkipStatefulSet,
      KeepStatefulSet, SyncServiceForReplica, CreateTablesForReplica, CreateTablesFails,
      FindExtraReplicas, objectVars
<1>9. CASE \/ Reconcile \/ SyncServiceForInstallation \/ SyncConfigMaps \/ Fault
           \/ DeleteConfigMap \/ DeleteServiceForReplica \/ StatusAfterDelete
           \/ ApplyConfiguration \/ UpdateInstallation \/ UpdateStatus \/ Conflict
           \/ DeleteConfigMaps \/ DeleteServiceForInstallation \/ StatusTerminated
           \/ RemoveFinalizer
  BY <1>1, <1>9, Zenon
  DEF Reconcile, SyncServiceForInstallation, SyncConfigMaps, Fault, DeleteConfigMap,
      DeleteServiceForReplica, StatusAfterDelete, ApplyConfiguration, UpdateInstallation,
      UpdateStatus, Conflict, DeleteConfigMaps, DeleteServiceForInstallation,
      StatusTerminated, RemoveFinalizer, objectVars
<1>10. CASE User \/ Informers \/ Rest
  BY <1>1, <1>10, Zenon
  DEF User, ChangeLayout, ChangeTemplate, SetPaused, DeleteInstallation, UserWrites,
      Informers, InformerInstallation, InformerStatefulSet, Rest, vars, objectVars
<1> QED
  BY <1>2, <1>3, <1>4, <1>5, <1>6, <1>7, <1>8, <1>9, <1>10
  DEF Next, Pass, SyncReplicas, DeleteReplicas

(***************************************************************************)
(* Scaling in deletes no replica that the stored spec still asks for: at   *)
(* every call of a deletion the pass knows that the replica is not in the  *)
(* spec it read, and that this is the stored one unless it is out of date. *)
(***************************************************************************)
THEOREM WantedSurvive == Spec => WantedReplicasSurvive
<1> DEFINE Survives ==
      \A r \in spec.want :
        \/ sts[r].exists /\ ~sts'[r].exists
        \/ r \in pvcs /\ r \notin pvcs'
        => spec.deleting \/ ~spec.exists \/ ~fresh
<1>1. ASSUME TypeInv, CurrentInv, LoopInv, Next PROVE Survives
  <2> SUFFICES ASSUME NEW r \in spec.want,
                      \/ sts[r].exists /\ ~sts'[r].exists
                      \/ r \in pvcs /\ r \notin pvcs',
                      spec.exists, fresh
               PROVE  spec.deleting
    OBVIOUS
  <2>1. r \in Replicas
    BY <1>1 DEF TypeInv, ObjectTypeOK, InstallationSpec
  <2>2. pc \in DeleteLabels \ {"delete"} /\ cur = r
    BY <1>1, <2>1, ReplicaRemovers
  <2>3. snap.want = spec.want /\ snap.deleting = spec.deleting
    BY <1>1 DEF CurrentInv, FreshInv
  <2>4. snap.deleting
    BY <1>1, <2>2, <2>3 DEF LoopInv, DeleteLoopInv
  <2> QED BY <2>3, <2>4
<1>2. TypeInv /\ CurrentInv /\ LoopInv /\ [Next]_vars => [Survives]_vars
  BY <1>1
<1>3. Spec => [][Survives]_vars
  BY <1>2, TypeInvHolds, CurrentInvHolds, LoopInvHolds, PTL DEF Spec
<1> QED BY <1>3 DEF WantedReplicasSurvive

----------------------------------------------------------------------------
(* Completed is earned *)

(* The replicas the pass has not looked at yet ...                         *)
Left == (UNION shards) \cup (IF pc \in SyncLabels THEN todo ELSE {})
                       \cup (IF pc = "statefulSet" THEN {cur} ELSE {})

(* ... and those it has, and that count as ready.                          *)
Done == {r \in snap.want \ Left : Counted(mem.rep[r])}

(* A pass that deletes says so until the end.                              *)
TerminatingInv ==
  pc \notin {"idle", "terminated", "removeFinalizer"} /\ snap.deleting =>
    mem.state = "Terminating"

(* ReadyReplicas never runs ahead of the replicas that have been looked at *)
(* and are ready: none is counted twice, none for an entry of before.      *)
CountInv ==
  pc \notin {"idle", "update", "status"} /\ ~snap.deleting =>
    /\ mem.state = "InProgress"
    /\ mem.count = Cardinality(snap.want)
    /\ mem.ready <= Cardinality(Done)

(* The status a pass is about to store.                                    *)
EarnedInv ==
  pc \in {"update", "status"} /\ mem.state = "Completed" =>
    \A r \in mem.prev : Counted(mem.rep[r])

BuildInv == TerminatingInv /\ CountInv /\ EarnedInv

(* The replicas that are done can be counted.                              *)
LEMMA DoneIsFinite ==
  ASSUME TypeInv
  PROVE  IsFiniteSet(Done) /\ Cardinality(Done) \in Nat /\ Done \in SUBSET Replicas
<1>1. Done \in SUBSET Replicas
  BY DEF Done, TypeInv, PassTypeOK, InstallationSpec
<1> QED BY <1>1, ReplicaSetsAreFinite

(* The counters are numbers.                                               *)
LEMMA ReadyIsNat == ASSUME TypeInv PROVE mem.ready \in Nat /\ mem.count \in Nat
BY Zenon DEF TypeInv, PassTypeOK, InstallationStatus

(* The count stays covered when nothing is counted ...                     *)
LEMMA DoneGrows ==
  ASSUME TypeInv, TypeInv', mem.ready <= Cardinality(Done), mem'.ready = mem.ready,
         Done \subseteq Done'
  PROVE  mem'.ready <= Cardinality(Done')
<1>1. Done \in SUBSET Done'
  OBVIOUS
<1>2. IsFiniteSet(Done') /\ Cardinality(Done') \in Nat
  <2>1. Done' \in SUBSET Replicas
    BY DEF Done, TypeInv, PassTypeOK, InstallationSpec
  <2> QED BY <2>1, ReplicaSetsAreFinite
<1>3. Cardinality(Done) <= Cardinality(Done')
  BY <1>1, <1>2, FS_Subset
<1> QED BY <1>2, <1>3, ReadyIsNat, DoneIsFinite

(* ... and when one replica is, that was not before.                       *)
LEMMA DoneGrowsByOne ==
  ASSUME TypeInv, TypeInv', mem.ready <= Cardinality(Done), mem'.ready = mem.ready + 1,
         cur \notin Done, Done \cup {cur} \subseteq Done'
  PROVE  mem'.ready <= Cardinality(Done')
<1>1. Done \cup {cur} \in SUBSET Done'
  OBVIOUS
<1>2. IsFiniteSet(Done') /\ Cardinality(Done') \in Nat
  <2>1. Done' \in SUBSET Replicas
    BY DEF Done, TypeInv, PassTypeOK, InstallationSpec
  <2> QED BY <2>1, ReplicaSetsAreFinite
<1>3. Cardinality(Done \cup {cur}) <= Cardinality(Done')
  BY <1>1, <1>2, FS_Subset
<1>4. Cardinality(Done \cup {cur}) = Cardinality(Done) + 1
  BY DoneIsFinite, FS_AddElement
<1> QED BY <1>2, <1>3, <1>4, ReadyIsNat, DoneIsFinite

(* The entry a pass writes counts exactly when it raises ReadyReplicas.    *)
LEMMA CountedWhenNormal ==
  ASSUME NEW old, NEW set, ReplicaStatusOf(old, set).phase = "Normal"
  PROVE  Counted(ReplicaStatusOf(old, set))
BY DEF ReplicaStatusOf, Counted

(* Every step keeps the count of what is ready within what is done.        *)
LEMMA BuildInvStep ==
  ASSUME TypeInv, TypeInv', LoopInv, BuildInv, Next
  PROVE  BuildInv'
<1> USE DEF BuildInv, TerminatingInv, CountInv, EarnedInv, Goto
<1>1. CASE Reconcile
  <2>1. CASE UNCHANGED passVars
    BY <2>1 DEF passVars, Done, Left
  <2>2. CASE ~UNCHANGED passVars
    <3> DEFINE di == diCache.spec
    <3>1. /\ snap' = IF di.deleting THEN di ELSE [di EXCEPT !.finalizer = TRUE]
          /\ mem' = IF di.deleting THEN [diCache.status EXCEPT !.state = "Terminating"]
                    ELSE StatusAtStart(diCache.status, di.want)
          /\ pc' = IF di.deleting THEN "shards" ELSE "service"
      BY <1>1, <2>2 DEF Reconcile
    <3>2. di \in InstallationSpec /\ diCache.status \in InstallationStatus
      BY DEF TypeInv, CacheTypeOK
    <3>3. snap'.deleting = di.deleting /\ snap'.want = di.want
      BY <3>1, <3>2 DEF InstallationSpec
    <3>4. CASE di.deleting
      <4>1. mem'.state = "Terminating"
        BY <3>1, <3>2, <3>4 DEF InstallationStatus
      <4> HIDE DEF di
      <4> QED BY <3>1, <3>3, <3>4, <4>1
    <3>5. CASE ~di.deleting
      <4>1. /\ mem'.state = "InProgress" /\ mem'.count = Cardinality(di.want)
            /\ mem'.ready = 0
        BY <3>1, <3>2, <3>5 DEF StatusAtStart, InstallationStatus
      <4>2. Done' \in SUBSET Replicas
        BY DEF Done, TypeInv, PassTypeOK, InstallationSpec
      <4>3. Cardinality(Done') \in Nat
        BY <4>2, ReplicaSetsAreFinite
      <4>4. mem'.ready <= Cardinality(Done')
        BY <4>1, <4>3
      <4> HIDE DEF di
      <4> QED BY <3>1, <3>3, <3>5, <4>1, <4>4
    <3> QED BY <3>4, <3>5
  <2> QED BY <2>1, <2>2
<1>2. CASE \/ Fault \/ CreateStatefulSet \/ CreateTablesFails \/ UpdateStatus
           \/ Conflict \/ RemoveFinalizer
  <2>1. pc' = "idle"
    BY <1>2, Zenon DEF Fault, CreateStatefulSet, CreateTablesFails, UpdateStatus, Conflict,
                       RemoveFinalizer, GiveUp, PassOver
  <2> QED BY <2>1
<1>3. CASE User \/ Pods \/ Informers \/ CollectGarbage \/ Rest
  <2>1. UNCHANGED <<pc, snap, mem, shards, shard, todo, cur>>
    BY <1>3, Zenon
    DEF User, ChangeLayout, ChangeTemplate, SetPaused, DeleteInstallation, UserWrites,
        Pods, PodReady, PodReplaced, PodLost, Informers, InformerInstallation,
        InformerStatefulSet, CollectGarbage, Rest, vars, passVars
  <2> QED BY <2>1 DEF Done, Left
<1>4. CASE ApplyConfiguration
  <2>1. /\ mem.count = Cardinality(snap.want) /\ mem.ready <= Cardinality(Done)
        /\ mem.state = "InProgress"
    BY <1>4 DEF ApplyConfiguration
  <2>2. mem' = [mem EXCEPT !.prev = snap.want,
                           !.state = IF IsReady(mem) THEN "Completed" ELSE mem.state]
        /\ pc' = "update" /\ UNCHANGED snap /\ ~snap.deleting
    BY <1>4 DEF ApplyConfiguration
  <2>3. /\ mem'.prev = snap.want /\ mem'.rep = mem.rep
        /\ mem'.state = "Completed" => IsReady(mem)
    BY <2>1, <2>2 DEF TypeInv, PassTypeOK, InstallationStatus
  <2>4. ASSUME IsReady(mem) PROVE \A r \in snap.want : Counted(mem.rep[r])
    <3>1. snap.want \in SUBSET Replicas /\ Done \in SUBSET snap.want
      BY DEF TypeInv, PassTypeOK, InstallationSpec, Done
    <3>2. IsFiniteSet(snap.want) /\ Cardinality(snap.want) \in Nat
      BY <3>1, ReplicaSetsAreFinite
    <3>3. Cardinality(Done) <= Cardinality(snap.want) /\ Cardinality(Done) \in Nat
      BY <3>1, <3>2, FS_Subset, DoneIsFinite
    <3>4. Cardinality(Done) = Cardinality(snap.want)
      BY <2>1, <2>4, <3>2, <3>3 DEF IsReady
    <3>5. Done = snap.want
      BY <3>1, <3>2, <3>4, FS_Subset
    <3> QED BY <3>5 DEF Done
  <2> QED BY <2>2, <2>3, <2>4
<1>5. CASE SyncServiceForInstallation \/ SyncConfigMaps \/ SyncServiceForReplica
           \/ UpdateInstallation
  <2>1. Done \subseteq Done'
    BY <1>5 DEF SyncServiceForInstallation, SyncConfigMaps, SyncServiceForReplica,
                UpdateInstallation, Done, Left, SyncLabels
  <2>2. UNCHANGED <<mem, snap>>
    BY <1>5 DEF SyncServiceForInstallation, SyncConfigMaps, SyncServiceForReplica,
                UpdateInstallation
  <2>3. mem.ready <= Cardinality(Done) => mem'.ready <= Cardinality(Done')
    BY <2>1, <2>2, DoneGrows
  <2>4. \/ /\ pc \in {"service", "configMaps", "replicaService"}
           /\ pc' \in {"configMaps", "shards", "createTables", "replicas"}
        \/ pc = "update" /\ pc' = "status"
    BY <1>5 DEF SyncServiceForInstallation, SyncConfigMaps, SyncServiceForReplica,
                UpdateInstallation
  <2> QED BY <2>2, <2>3, <2>4
<1>6. CASE \/ \E s \in Shards : SyncShard(s) \/ DeleteShard(s)
           \/ \E r \in Replicas : SyncReplica(r) \/ SkipReplica(r) \/ DeleteTables(r)
           \/ SkipStatefulSet \/ FindExtraReplicas
  <2>1. /\ mem' = mem \/ mem' = [mem EXCEPT !.cluster = TRUE]
        /\ UNCHANGED snap
        /\ pc \in {"shards", "replicas", "statefulSet", "delete"}
        /\ pc' \in {"shards", "replicas", "statefulSet", "replicaService", "delete",
                    "deleteStatefulSet"}
    BY <1>6 DEF SyncShard, DeleteShard, SyncReplica, SkipReplica, DeleteTables,
                SkipStatefulSet, FindExtraReplicas, AfterReplica
  <2>2. /\ mem'.rep = mem.rep /\ mem'.ready = mem.ready /\ mem'.state = mem.state
        /\ mem'.count = mem.count
    BY <2>1 DEF TypeInv, PassTypeOK, InstallationStatus
  <2>3. Left' \cap snap.want \subseteq Left
    <3>1. CASE \E s \in Shards : SyncShard(s) \/ DeleteShard(s)
      BY <3>1 DEF SyncShard, DeleteShard, Left, SyncLabels
    <3>2. CASE \E r \in Replicas : SyncReplica(r) \/ SkipReplica(r) \/ DeleteTables(r)
      BY <3>2 DEF SyncReplica, SkipReplica, DeleteTables, AfterReplica, Left, SyncLabels
    <3>3. CASE SkipStatefulSet \/ FindExtraReplicas
      BY <3>3 DEF SkipStatefulSet, FindExtraReplicas, Left, SyncLabels
    <3> QED BY <1>6, <3>1, <3>2, <3>3
  <2>4. Done \subseteq Done'
    BY <2>1, <2>2, <2>3 DEF Done
  <2>5. mem.ready <= Cardinality(Done) => mem'.ready <= Cardinality(Done')
    BY <2>2, <2>4, DoneGrows
  <2> QED BY <2>1, <2>2, <2>5
<1>7. CASE KeepStatefulSet \/ UpdateStatefulSet
  <2>1. PICK st \in {mem, CountUpdate(mem)}, set \in {stsCache[cur], NoStatefulSet} :
          mem' = SetReplicaStatus(st, cur, ReplicaStatusOf(mem.rep[cur], set))
    BY <1>7, Zenon DEF KeepStatefulSet, UpdateStatefulSet
  <2> DEFINE new == ReplicaStatusOf(mem.rep[cur], set)
  <2>2. /\ st.rep = mem.rep /\ st.ready = mem.ready /\ st.state = mem.state
        /\ st.count = mem.count /\ st \in InstallationStatus
    <3>1. mem \in InstallationStatus
      BY DEF TypeInv, PassTypeOK
    <3>2. CountUpdate(mem) \in InstallationStatus
      BY <3>1, CountUpdateType
    <3>3. /\ CountUpdate(mem).rep = mem.rep /\ CountUpdate(mem).ready = mem.ready
          /\ CountUpdate(mem).state = mem.state /\ CountUpdate(mem).count = mem.count
      BY <3>1 DEF CountUpdate, InstallationStatus
    <3> QED BY <3>1, <3>2, <3>3
  <2>3. mem' = SetReplicaStatus(st, cur, new)
    BY <2>1
  <2> HIDE DEF new
  <2>4. /\ mem'.rep = [mem.rep EXCEPT ![cur] = new]
        /\ mem'.ready = IF new.phase = "Normal" THEN mem.ready + 1 ELSE mem.ready
        /\ mem'.state = mem.state /\ mem'.count = mem.count
    BY <2>2, <2>3 DEF SetReplicaStatus, InstallationStatus
  <2>5. /\ pc = "statefulSet" /\ pc' = "replicaService"
        /\ UNCHANGED <<snap, shards, todo, cur>>
    BY <1>7 DEF KeepStatefulSet, UpdateStatefulSet
  <2>6. /\ cur \in snap.want /\ cur \notin todo /\ cur \notin UNION shards
        /\ ~snap.deleting
    BY <2>5 DEF LoopInv, BranchInv, SyncLoopInv, SyncLabels
  <2>7. mem.rep \in [Replicas -> ReplicaStatus] /\ cur \in Replicas
    BY <2>6 DEF TypeInv, PassTypeOK, InstallationStatus, InstallationSpec
  <2>8. mem'.rep[cur] = new /\ \A r \in Replicas \ {cur} : mem'.rep[r] = mem.rep[r]
    BY <2>4, <2>7
  <2>9. cur \notin Done /\ Done \subseteq Replicas
    BY <2>5, DoneIsFinite DEF Done, Left
  <2>10. Done \subseteq Done'
    BY <2>5, <2>8, <2>9 DEF Done, Left, SyncLabels
  <2>11. CASE new.phase = "Normal"
    <3>1. Counted(new)
      BY <2>11, CountedWhenNormal DEF new
    <3>2. cur \in Done'
      BY <2>5, <2>6, <2>8, <3>1 DEF Done, Left, SyncLabels
    <3>3. mem'.ready = mem.ready + 1
      BY <2>4, <2>11
    <3>4. mem.ready <= Cardinality(Done)
      BY <2>5, <2>6
    <3>5. mem'.ready <= Cardinality(Done')
      BY <2>9, <2>10, <3>2, <3>3, <3>4, DoneGrowsByOne
    <3> QED BY <2>4, <2>5, <2>6, <3>5
  <2>12. CASE new.phase # "Normal"
    <3>1. mem'.ready = mem.ready
      BY <2>4, <2>12
    <3>2. mem.ready <= Cardinality(Done)
      BY <2>5, <2>6
    <3>3. mem'.ready <= Cardinality(Done')
      BY <2>10, <3>1, <3>2, DoneGrows
    <3> QED BY <2>4, <2>5, <2>6, <3>3
  <2> QED BY <2>11, <2>12
<1>8. CASE CreateTablesForReplica
  <2> DEFINE synced == [mem.rep[cur] EXCEPT !.state = "Sync"]
  <2>1. /\ mem' = [mem EXCEPT !.rep = [mem.rep EXCEPT ![cur] = synced],
                              !.ready = mem.ready + 1]
        /\ pc = "createTables" /\ pc' = "replicas"
        /\ UNCHANGED <<snap, shards, todo, cur>>
    BY <1>8 DEF CreateTablesForReplica
  <2>2. /\ cur \in snap.want /\ cur \notin todo /\ cur \notin UNION shards
        /\ ~snap.deleting /\ NeedsTables(mem.rep[cur])
    BY <2>1 DEF LoopInv, BranchInv, SyncLoopInv, SyncLabels
  <2>3. /\ mem \in InstallationStatus /\ cur \in Replicas
        /\ mem.rep \in [Replicas -> ReplicaStatus]
    BY <2>2 DEF TypeInv, PassTypeOK, InstallationStatus, InstallationSpec
  <2>4. mem.rep[cur] \in ReplicaStatus
    BY <2>3
  <2>5. synced.phase = "Ready" /\ synced.state = "Sync"
    BY <2>2, <2>4 DEF NeedsTables, ReplicaStatus
  <2> HIDE DEF synced
  <2>6. /\ mem'.rep = [mem.rep EXCEPT ![cur] = synced] /\ mem'.ready = mem.ready + 1
        /\ mem'.state = mem.state /\ mem'.count = mem.count
    BY <2>1, <2>3 DEF InstallationStatus
  <2>7. mem'.rep[cur] = synced /\ \A r \in Replicas \ {cur} : mem'.rep[r] = mem.rep[r]
    BY <2>3, <2>6
  <2>8. cur \notin Done /\ Done \subseteq Replicas
    BY <2>2, DoneIsFinite DEF Done, Counted, NeedsTables
  <2>9. Done \subseteq Done'
    BY <2>1, <2>7, <2>8 DEF Done, Left, SyncLabels
  <2>10. cur \in Done'
    BY <2>1, <2>2, <2>5, <2>7 DEF Done, Left, SyncLabels, Counted
  <2>11. mem.ready <= Cardinality(Done)
    BY <2>1, <2>2
  <2>12. mem'.ready <= Cardinality(Done')
    BY <2>6, <2>8, <2>9, <2>10, <2>11, DoneGrowsByOne
  <2> QED BY <2>1, <2>2, <2>6, <2>12
<1>9. CASE DeleteStatefulSet
  <2>1. CASE pc' = "idle"
    BY <2>1
  <2>2. CASE pc' # "idle"
    <3>1. /\ mem' = [mem EXCEPT !.rep = [mem.rep EXCEPT ![cur] = NoReplicaStatus],
                                !.deleted = mem.deleted + 1]
          /\ UNCHANGED <<snap, shards, todo, cur>>
          /\ pc = "deleteStatefulSet" /\ pc' \in {"deletePVC", "deleteConfigMap"}
      BY <1>9, <2>2 DEF DeleteStatefulSet, AfterStatefulSet, GiveUp, PassOver
    <3>2. mem \in InstallationStatus /\ mem.rep \in [Replicas -> ReplicaStatus]
      BY DEF TypeInv, PassTypeOK, InstallationStatus
    <3>3. /\ mem'.rep = [mem.rep EXCEPT ![cur] = NoReplicaStatus]
          /\ mem'.ready = mem.ready /\ mem'.state = mem.state /\ mem'.count = mem.count
      BY <3>1, <3>2 DEF InstallationStatus
    <3>4. ~snap.deleting => cur \notin snap.want
      BY <3>1 DEF LoopInv, DeleteLoopInv, DeleteLabels
    <3>5. Done \subseteq Replicas
      BY DoneIsFinite
    <3>6. ~snap.deleting => Done \subseteq Done'
      BY <3>1, <3>2, <3>3, <3>4, <3>5 DEF Done, Left, SyncLabels
    <3>7. ~snap.deleting /\ mem.ready <= Cardinality(Done)
            => mem'.ready <= Cardinality(Done')
      BY <3>3, <3>6, DoneGrows
    <3> QED BY <3>1, <3>3, <3>7
  <2> QED BY <2>1, <2>2
<1>10. CASE DeletePVC \/ DeleteConfigMap \/ DeleteServiceForReplica \/ StatusAfterDelete
  <2>1. /\ UNCHANGED <<mem, snap, shards>>
        /\ pc \in DeleteLabels /\ pc' \in DeleteLabels \cup {"shards"}
    BY <1>10 DEF DeletePVC, DeleteConfigMap, DeleteServiceForReplica, StatusAfterDelete,
                 AfterReplica, DeleteLabels
  <2>2. Done \subseteq Done'
    BY <2>1 DEF Done, Left, SyncLabels, DeleteLabels
  <2>3. mem.ready <= Cardinality(Done) => mem'.ready <= Cardinality(Done')
    BY <2>1, <2>2, DoneGrows
  <2> QED BY <2>1, <2>3 DEF DeleteLabels
<1>11. CASE DeleteConfigMaps \/ DeleteServiceForInstallation \/ StatusTerminated
  <2>1. snap.deleting /\ UNCHANGED snap
    BY <1>11 DEF DeleteConfigMaps, DeleteServiceForInstallation, StatusTerminated,
                 LoopInv, BranchInv
  <2>2. \/ pc = "shards" /\ pc' = "deleteInstallationService" /\ UNCHANGED mem
        \/ pc' \in {"terminated", "removeFinalizer"}
    BY <1>11 DEF DeleteConfigMaps, DeleteServiceForInstallation, StatusTerminated
  <2> QED BY <2>1, <2>2
<1> QED
  BY <1>1, <1>2, <1>3, <1>4, <1>5, <1>6, <1>7, <1>8, <1>9, <1>10, <1>11
  DEF Next, Pass, SyncReplicas, DeleteReplicas

(* It is so in every reachable state.                                      *)
LEMMA BuildInvHolds == Spec => []BuildInv
<1>1. Init => BuildInv
  BY DEF Init, NoSpec, NoStatus, BuildInv, TerminatingInv, CountInv, EarnedInv
<1>2. ASSUME BuildInv, UNCHANGED vars PROVE BuildInv'
  BY <1>2 DEF BuildInv, TerminatingInv, CountInv, EarnedInv, Done, Left, vars, passVars
<1>3. TypeInv /\ TypeInv' /\ LoopInv /\ BuildInv /\ [Next]_vars => BuildInv'
  BY <1>2, BuildInvStep
<1> QED BY <1>1, <1>3, TypeInvHolds, LoopInvHolds, PTL DEF Spec

(* The deletion of an installation is never revoked while it exists.       *)
LEMMA DeletionIsFinal ==
  ASSUME TypeInv, CurrentInv, Next, spec.deleting
  PROVE  spec'.deleting \/ status' = NoStatus
<1>1. CASE UpdateInstallation
  BY <1>1 DEF UpdateInstallation, CurrentInv, FreshInv
<1>2. CASE User
  <2>1. spec \in InstallationSpec
    BY DEF TypeInv, ObjectTypeOK
  <2>2. /\ \A w : [spec EXCEPT !.want = w].deleting = spec.deleting
        /\ \A t : [spec EXCEPT !.template = t].deleting = spec.deleting
        /\ \A b : [spec EXCEPT !.paused = b].deleting = spec.deleting
    BY <2>1 DEF InstallationSpec
  <2> QED
    BY <1>2, <2>2
    DEF User, ChangeLayout, ChangeTemplate, SetPaused, DeleteInstallation, UserWrites
<1>3. CASE RemoveFinalizer
  BY <1>3 DEF RemoveFinalizer
<1>4. CASE UNCHANGED spec
  BY <1>4
<1>5. CASE SyncReplicas \/ DeleteReplicas
  BY <1>4, <1>5, Zenon
  DEF SyncReplicas, SyncShard, SyncReplica, SkipStatefulSet, CreateStatefulSet,
      KeepStatefulSet, UpdateStatefulSet, SyncServiceForReplica, CreateTablesForReplica,
      CreateTablesFails, FindExtraReplicas, DeleteReplicas, DeleteShard, SkipReplica,
      DeleteTables, DeleteStatefulSet, DeletePVC, DeleteConfigMap,
      DeleteServiceForReplica, StatusAfterDelete
<1>6. CASE \/ Reconcile \/ SyncServiceForInstallation \/ SyncConfigMaps
           \/ ApplyConfiguration \/ UpdateStatus \/ Conflict \/ DeleteConfigMaps
           \/ DeleteServiceForInstallation \/ StatusTerminated
  BY <1>4, <1>6, Zenon
  DEF Reconcile, SyncServiceForInstallation, SyncConfigMaps, ApplyConfiguration,
      UpdateStatus, Conflict, DeleteConfigMaps, DeleteServiceForInstallation,
      StatusTerminated
<1>7. CASE Fault \/ Pods \/ Informers \/ CollectGarbage \/ Rest
  BY <1>4, <1>7, Zenon
  DEF Fault, Pods, PodReady, PodReplaced, PodLost, Informers, InformerInstallation,
      InformerStatefulSet, CollectGarbage, Rest, vars
<1> QED BY <1>1, <1>2, <1>3, <1>5, <1>6, <1>7 DEF Next, Pass

(***************************************************************************)
(* Completed is earned: the equality of two counters that Sync tests means *)
(* that each replica of the applied spec is ready, although the counters   *)
(* are built up over many calls, in any order of shards and replicas, with *)
(* pods coming and going, and are read back from the stored status.        *)
(***************************************************************************)
THEOREM CompletedEarned == Spec => []CompletedIsEarned
<1>1. Init => CompletedIsEarned
  <2>1. NoStatus.state = ""
    BY DEF NoStatus
  <2> QED BY <2>1 DEF Init, CompletedIsEarned
<1>2. ASSUME TypeInv, CurrentInv, LoopInv, BuildInv, CompletedIsEarned, Next
      PROVE  CompletedIsEarned'
  <2>1. CASE status' = NoStatus
    BY <2>1 DEF CompletedIsEarned, NoStatus
  <2>2. CASE UNCHANGED status
    BY <1>2, <2>1, <2>2, DeletionIsFinal DEF CompletedIsEarned
  <2>3. CASE status' # status /\ status' # NoStatus
    <3>1. /\ pc \in {"replicaDeleted", "status", "terminated"}
          /\ UpdateInstallationStatus(mem) /\ UNCHANGED spec
      BY <1>2, <2>3, StatusWriters
    <3>2. fresh /\ status' = mem
      BY <2>3, <3>1, Zenon DEF UpdateInstallationStatus
    <3>3. snap.deleting = spec.deleting
      BY <1>2, <3>2 DEF CurrentInv, FreshInv
    <3>4. CASE pc = "replicaDeleted"
      <4>1. mem.state # "Completed"
        BY <1>2, <3>4 DEF BuildInv, TerminatingInv, CountInv
      <4> QED BY <3>2, <4>1 DEF CompletedIsEarned
    <3>5. CASE pc = "status"
      BY <1>2, <3>2, <3>5 DEF BuildInv, EarnedInv, CompletedIsEarned
    <3>6. CASE pc = "terminated"
      BY <1>2, <3>1, <3>3, <3>6 DEF LoopInv, BranchInv, CompletedIsEarned
    <3> QED BY <3>1, <3>4, <3>5, <3>6
  <2> QED BY <2>1, <2>2, <2>3
<1>3. ASSUME CompletedIsEarned, UNCHANGED vars PROVE CompletedIsEarned'
  BY <1>3 DEF CompletedIsEarned, vars
<1>4. /\ TypeInv /\ CurrentInv /\ LoopInv /\ BuildInv /\ CompletedIsEarned
      /\ [Next]_vars
      => CompletedIsEarned'
  BY <1>2, <1>3
<1> QED
  BY <1>1, <1>4, TypeInvHolds, CurrentInvHolds, LoopInvHolds, BuildInvHolds, PTL DEF Spec
=============================================================================
