---------------------------- MODULE SettledProofs ----------------------------
(***************************************************************************)
(* Proof that an installation at rest has been carried out: no change of   *)
(* the spec, of a StatefulSet or of the status is ever forgotten, with or  *)
(* without lag, whatever fails.                                            *)
(*                                                                         *)
(* The argument: a pass that ends with nothing left in the queue has seen  *)
(* the spec, the status and the StatefulSets that are there, and it has    *)
(* written a status that was there already. So it has updated nothing and  *)
(* copied no tables, and has found each replica as it should be.           *)
(***************************************************************************)
EXTENDS ReplicaProofs

----------------------------------------------------------------------------
(* A quiet operator: nothing is queued, and the installation has not been  *)
(* written since the operator last saw it.                                 *)
Quiet == ~pending /\ ~diStale

(* How each step leaves the queue.                                         *)
LEMMA QueueSteps ==
  ASSUME Next
  PROVE  Reconcile \/ Watch(pending) \/ Watch(TRUE) \/ Informers \/ UNCHANGED vars
<1>1. CASE Pass
  BY <1>1, Zenon
  DEF Pass, SyncReplicas, DeleteReplicas, SyncServiceForInstallation,
      SyncConfigMaps, SyncShard, SyncReplica, SkipStatefulSet, CreateStatefulSet,
      KeepStatefulSet, UpdateStatefulSet, SyncServiceForReplica, CreateTablesForReplica,
      CreateTablesFails, FindExtraReplicas, DeleteShard, SkipReplica, DeleteTables,
      DeleteStatefulSet, DeletePVC, DeleteConfigMap, DeleteServiceForReplica,
      StatusAfterDelete, ApplyConfiguration, UpdateInstallation, UpdateStatus, Conflict,
      DeleteConfigMaps, DeleteServiceForInstallation, StatusTerminated, RemoveFinalizer,
      GiveUp
<1>2. CASE User
  BY <1>2, Zenon
  DEF User, ChangeLayout, ChangeTemplate, SetPaused, DeleteInstallation, UserWrites
<1>3. CASE Fault \/ Pods \/ CollectGarbage
  BY <1>3, Zenon DEF Fault, GiveUp, Pods, PodReady, PodReplaced, PodLost, CollectGarbage
<1>4. CASE Rest
  BY <1>4 DEF Rest
<1> QED BY <1>1, <1>2, <1>3, <1>4 DEF Next

(***************************************************************************)
(* A step that leaves the operator quiet finds it quiet, or starts a pass, *)
(* and it changes nothing that the operator watches.                       *)
(***************************************************************************)
LEMMA QuietStep ==
  ASSUME LagInv, Next, Quiet'
  PROVE  /\ ~diStale
         /\ Reconcile \/ Quiet
         /\ UNCHANGED <<spec, status, stsCache, services>>
<1>1. CASE Watch(pending)
  <2>1. CASE CacheLag
    BY <1>1, <2>1, Zenon DEF Watch, Quiet
  <2>2. CASE ~CacheLag
    BY <1>1, <2>2, Zenon DEF Watch, Quiet, LagInv
  <2> QED BY <2>1, <2>2
<1>2. CASE Watch(TRUE) \/ Informers
  BY <1>2, Zenon DEF Watch, Informers, InformerInstallation, InformerStatefulSet, Quiet
<1>3. CASE UNCHANGED vars
  BY <1>3, Zenon DEF vars, cacheVars, objectVars, Quiet
<1>4. CASE Reconcile
  <2>1. Watch(FALSE) /\ UNCHANGED <<spec, status, sts, services>>
    BY <1>4, Zenon DEF Reconcile, objectVars
  <2>2. CASE CacheLag
    BY <1>4, <2>1, <2>2, Zenon DEF Watch, Quiet
  <2>3. CASE ~CacheLag
    BY <1>4, <2>1, <2>3, Zenon DEF Watch, Quiet, LagInv
  <2> QED BY <2>2, <2>3
<1> QED BY <1>1, <1>2, <1>3, <1>4, QueueSteps

(* Neither a pass that gives up nor a user leaves it quiet.                *)
LEMMA LoudSteps ==
  ASSUME LagInv, Next, Quiet'
  PROVE  ~GiveUp /\ ~User
<1>1. ~GiveUp
  BY Zenon DEF GiveUp, Watch, Quiet
<1>2. ~User
  <2>1. UNCHANGED spec
    BY QuietStep
  <2>2. ~NoSpec.exists
    BY DEF NoSpec
  <2> QED
    BY <2>1, <2>2
    DEF User, ChangeLayout, ChangeTemplate, SetPaused, DeleteInstallation, UserWrites
<1> QED BY <1>1, <1>2

----------------------------------------------------------------------------
(* ReadyReplicas is exact *)

(* What a step does to the replicas a pass has still to look at.           *)
LEMMA VisitStep ==
  ASSUME TypeInv, LoopInv, Next, ~snap.deleting, ~snap.paused, ~Reconcile, ~PassOver
  PROVE  \/ /\ KeepStatefulSet \/ UpdateStatefulSet
            /\ cur \in Left /\ Left' \cap snap.want = (Left \cap snap.want) \ {cur}
         \/ /\ ~KeepStatefulSet /\ ~UpdateStatefulSet
            /\ Left' \cap snap.want = Left \cap snap.want
<1> USE DEF Goto
<1>1. CASE KeepStatefulSet \/ UpdateStatefulSet
  <2>1. /\ pc = "statefulSet" /\ pc' = "replicaService"
        /\ UNCHANGED <<shards, todo, cur>>
    BY <1>1 DEF KeepStatefulSet, UpdateStatefulSet
  <2>2. cur \notin todo /\ cur \notin UNION shards
    BY <2>1 DEF LoopInv, SyncLoopInv, SyncLabels
  <2> QED BY <1>1, <2>1, <2>2 DEF Left, SyncLabels
<1>2. CASE UNCHANGED <<pc, shards, todo, cur>>
  BY <1>2 DEF Left, KeepStatefulSet, UpdateStatefulSet
<1>3. CASE \E s \in Shards : SyncShard(s)
  <2>1. PICK s \in Shards : SyncShard(s)
    BY <1>3
  <2>2. /\ pc = "shards" /\ pc' = "replicas" /\ s \in shards
        /\ shards' = shards \ {s} /\ todo' = snap.want \cap s
    BY <2>1 DEF SyncShard
  <2>3. Left = UNION shards /\ Left' = (UNION (shards \ {s})) \cup (snap.want \cap s)
    BY <2>2 DEF Left, SyncLabels
  <2>4. Left' \cap snap.want = Left \cap snap.want
    BY <2>2, <2>3
  <2> QED BY <2>2, <2>4 DEF KeepStatefulSet, UpdateStatefulSet
<1>4. CASE \E r \in Replicas : SyncReplica(r)
  BY <1>4 DEF SyncReplica, Left, SyncLabels, KeepStatefulSet, UpdateStatefulSet
<1>5. CASE SyncServiceForReplica \/ CreateTablesForReplica \/ FindExtraReplicas
  BY <1>5 DEF SyncServiceForReplica, CreateTablesForReplica, FindExtraReplicas, Left,
              SyncLabels, KeepStatefulSet, UpdateStatefulSet
<1>6. CASE CreateStatefulSet \/ CreateTablesFails \/ SkipStatefulSet
  BY <1>6, Zenon DEF CreateStatefulSet, CreateTablesFails, SkipStatefulSet, GiveUp
<1>7. CASE \E r \in Replicas : SkipReplica(r) \/ DeleteTables(r)
  BY <1>7 DEF SkipReplica, DeleteTables, AfterReplica, Left, SyncLabels, KeepStatefulSet,
              UpdateStatefulSet
<1>8. CASE DeleteStatefulSet
  <2>1. /\ pc = "deleteStatefulSet" /\ pc' \in {"deletePVC", "deleteConfigMap"}
        /\ UNCHANGED shards
    BY <1>8, Zenon DEF DeleteStatefulSet, GiveUp, AfterStatefulSet
  <2> QED BY <2>1 DEF Left, SyncLabels, KeepStatefulSet, UpdateStatefulSet
<1>9. CASE DeletePVC \/ DeleteConfigMap \/ DeleteServiceForReplica \/ StatusAfterDelete
  BY <1>9 DEF DeletePVC, DeleteConfigMap, DeleteServiceForReplica, StatusAfterDelete,
              AfterReplica, Left, SyncLabels, KeepStatefulSet, UpdateStatefulSet
<1>10. CASE \E s \in Shards : DeleteShard(s)
  BY <1>10 DEF DeleteShard
<1>11. CASE \/ SyncServiceForInstallation \/ SyncConfigMaps \/ ApplyConfiguration
            \/ UpdateInstallation \/ DeleteConfigMaps \/ DeleteServiceForInstallation
            \/ StatusTerminated
  BY <1>11 DEF SyncServiceForInstallation, SyncConfigMaps, ApplyConfiguration,
               UpdateInstallation, DeleteConfigMaps, DeleteServiceForInstallation,
               StatusTerminated, Left, SyncLabels, KeepStatefulSet, UpdateStatefulSet
<1>12. CASE Fault \/ UpdateStatus \/ Conflict \/ RemoveFinalizer
  BY <1>12, Zenon DEF Fault, UpdateStatus, Conflict, RemoveFinalizer, GiveUp
<1>13. CASE User \/ Pods \/ Informers \/ CollectGarbage \/ Rest
  <2>1. UNCHANGED <<pc, shards, todo, cur>>
    BY <1>13, Zenon
    DEF User, ChangeLayout, ChangeTemplate, SetPaused, DeleteInstallation, UserWrites,
        Pods, PodReady, PodReplaced, PodLost, Informers, InformerInstallation,
        InformerStatefulSet, CollectGarbage, Rest, vars, passVars
  <2> QED BY <1>2, <2>1
<1> QED
  BY <1>1, <1>3, <1>4, <1>5, <1>6, <1>7, <1>8, <1>9, <1>10, <1>11, <1>12, <1>13
  DEF Next, Pass, SyncReplicas, DeleteReplicas

(* What the steps of a pass leave alone in the status it builds.           *)
LEMMA MemFrame ==
  ASSUME TypeInv, Next, ~Reconcile, ~PassOver
  PROVE  /\ \/ KeepStatefulSet \/ UpdateStatefulSet \/ CreateTablesForReplica
            \/ mem'.ready = mem.ready
         /\ \/ UpdateStatefulSet
            \/ mem'.updated = mem.updated /\ mem'.stamp = mem.stamp
         /\ \/ ApplyConfiguration
            \/ DeleteServiceForInstallation
            \/ mem'.prev = mem.prev /\ mem'.state = mem.state
<1>0. mem \in InstallationStatus
  BY DEF TypeInv, PassTypeOK
<1>1. CASE UNCHANGED mem
  BY <1>1
<1>2. CASE \E s \in Shards : SyncShard(s)
  <2>1. mem' = [mem EXCEPT !.cluster = TRUE]
    BY <1>2 DEF SyncShard
  <2> QED BY <1>0, <2>1 DEF InstallationStatus
<1>3. CASE KeepStatefulSet
  <2>1. PICK e : mem' = SetReplicaStatus(mem, cur, e)
    BY <1>3, Zenon DEF KeepStatefulSet
  <2> QED BY <1>0, <1>3, <2>1 DEF SetReplicaStatus, InstallationStatus
<1>4. CASE UpdateStatefulSet
  <2>1. PICK e : mem' = SetReplicaStatus(CountUpdate(mem), cur, e)
    BY <1>4, Zenon DEF UpdateStatefulSet
  <2>2. CountUpdate(mem) \in InstallationStatus
    BY <1>0, CountUpdateType
  <2>3. CountUpdate(mem).prev = mem.prev /\ CountUpdate(mem).state = mem.state
    BY <1>0 DEF CountUpdate, InstallationStatus
  <2>4. mem'.prev = CountUpdate(mem).prev /\ mem'.state = CountUpdate(mem).state
    BY <2>1, <2>2 DEF SetReplicaStatus, InstallationStatus
  <2> QED BY <1>4, <2>3, <2>4
<1>5. CASE CreateTablesForReplica
  BY <1>0, <1>5 DEF CreateTablesForReplica, InstallationStatus
<1>6. CASE DeleteStatefulSet
  <2>1. mem' = [mem EXCEPT !.rep = [mem.rep EXCEPT ![cur] = NoReplicaStatus],
                           !.deleted = mem.deleted + 1]
    BY <1>6, Zenon DEF DeleteStatefulSet, GiveUp
  <2> QED BY <1>0, <2>1 DEF InstallationStatus
<1>7. CASE ApplyConfiguration
  <2>1. PICK p, st : mem' = [mem EXCEPT !.prev = p, !.state = st]
    BY <1>7, Zenon DEF ApplyConfiguration
  <2> QED BY <1>0, <1>7, <2>1 DEF InstallationStatus
<1>8. CASE DeleteServiceForInstallation
  <2>1. mem' = [mem EXCEPT !.state = "Completed"]
    BY <1>8, Zenon DEF DeleteServiceForInstallation
  <2> QED BY <1>0, <1>8, <2>1 DEF InstallationStatus
<1>9. CASE /\ SyncReplicas \/ DeleteReplicas
           /\ ~(\E s \in Shards : SyncShard(s)) /\ ~KeepStatefulSet /\ ~UpdateStatefulSet
           /\ ~CreateTablesForReplica /\ ~DeleteStatefulSet
  BY <1>1, <1>9, Zenon
  DEF SyncReplicas, SyncReplica, SkipStatefulSet, CreateStatefulSet,
      SyncServiceForReplica, CreateTablesFails, FindExtraReplicas, DeleteReplicas,
      DeleteShard, SkipReplica, DeleteTables, DeletePVC, DeleteConfigMap,
      DeleteServiceForReplica, StatusAfterDelete, GiveUp
<1>10. CASE /\ Pass /\ ~SyncReplicas /\ ~DeleteReplicas /\ ~ApplyConfiguration
            /\ ~DeleteServiceForInstallation
  BY <1>1, <1>10, Zenon
  DEF Pass, SyncServiceForInstallation, SyncConfigMaps, UpdateInstallation, UpdateStatus,
      Conflict, DeleteConfigMaps, StatusTerminated, RemoveFinalizer, GiveUp
<1>11. CASE ~Pass
  BY <1>1, <1>11, Zenon
  DEF Next, Fault, GiveUp, User, ChangeLayout, ChangeTemplate, SetPaused,
      DeleteInstallation, UserWrites, Pods, PodReady, PodReplaced, PodLost, Informers,
      InformerInstallation, InformerStatefulSet, CollectGarbage, Rest, vars, passVars
<1> QED
  BY <1>2, <1>3, <1>4, <1>5, <1>6, <1>7, <1>8, <1>9, <1>10, <1>11
  DEF SyncReplicas, DeleteReplicas

(* Which entries of wanted replicas a step changes.                        *)
LEMMA EntryFrame ==
  ASSUME TypeInv, LoopInv, Next, ~snap.deleting, ~Reconcile, ~PassOver, NEW r \in snap.want
  PROVE  \/ mem'.rep[r] = mem.rep[r]
         \/ (KeepStatefulSet \/ UpdateStatefulSet \/ CreateTablesForReplica) /\ r = cur
<1>1. mem.rep \in [Replicas -> ReplicaStatus] /\ r \in Replicas
  BY DEF TypeInv, PassTypeOK, InstallationStatus, InstallationSpec
<1>2. CASE KeepStatefulSet \/ UpdateStatefulSet
  <2>1. PICK set \in StatefulSet :
          mem'.rep = [mem.rep EXCEPT ![cur] = ReplicaStatusOf(mem.rep[cur], set)]
    BY <1>2, EntryOfStatefulSet
  <2> QED BY <1>1, <1>2, <2>1
<1>3. CASE CreateTablesForReplica
  BY <1>1, <1>3, EntryOfTables
<1>4. CASE DeleteStatefulSet
  <2>1. mem'.rep = [mem.rep EXCEPT ![cur] = NoReplicaStatus]
    BY <1>4, EntryOfDeleted
  <2>2. cur # r
    BY <1>4 DEF DeleteStatefulSet, LoopInv, DeleteLoopInv, DeleteLabels
  <2> QED BY <1>1, <2>1, <2>2
<1>5. CASE SyncServiceForReplica
  BY <1>5 DEF SyncServiceForReplica
<1> QED BY <1>2, <1>3, <1>4, <1>5, EntryWriters

(***************************************************************************)
(* In a pass that is not paused, ReadyReplicas is the number of replicas   *)
(* looked at that are ready, no less, and when all of them are the pass    *)
(* says Completed.                                                         *)
(***************************************************************************)
ExactInv ==
  ~snap.paused /\ ~snap.deleting =>
    /\ pc \notin {"idle", "update", "status"} => mem.ready = Cardinality(Done)
    /\ pc \in {"update", "status"} =>
         /\ mem.prev = snap.want
         /\ (\A r \in snap.want : Counted(mem.rep[r])) => mem.state = "Completed"

(* The replicas that are done, after a step.                               *)
LEMMA DoneStep ==
  ASSUME TypeInv, LoopInv, ReadyInv, Next, ~snap.deleting, ~snap.paused, ~Reconcile,
         ~PassOver
  PROVE  \/ /\ cur \notin Done /\ Done' = Done \cup {cur}
            /\ mem'.ready = mem.ready + 1
         \/ Done' = Done /\ mem'.ready = mem.ready
<1>0. /\ mem \in InstallationStatus /\ mem.rep \in [Replicas -> ReplicaStatus]
      /\ snap.want \subseteq Replicas /\ snap' = snap
  BY SnapWriters DEF TypeInv, PassTypeOK, InstallationStatus, InstallationSpec
<1>1. CASE KeepStatefulSet \/ UpdateStatefulSet
  <2>1. /\ cur \in Left /\ cur \in snap.want
        /\ Left' \cap snap.want = (Left \cap snap.want) \ {cur}
    <3>1. pc = "statefulSet"
      BY <1>1 DEF KeepStatefulSet, UpdateStatefulSet
    <3>2. cur \in snap.want
      BY <3>1 DEF LoopInv, SyncLoopInv, SyncLabels
    <3> QED BY <1>1, <3>2, VisitStep
  <2>2. PICK st \in {mem, CountUpdate(mem)}, set \in {stsCache[cur], NoStatefulSet} :
          mem' = SetReplicaStatus(st, cur, ReplicaStatusOf(mem.rep[cur], set))
    BY <1>1, Zenon DEF KeepStatefulSet, UpdateStatefulSet
  <2> DEFINE new == ReplicaStatusOf(mem.rep[cur], set)
  <2>3. st.rep = mem.rep /\ st.ready = mem.ready /\ st \in InstallationStatus
    <3>1. CountUpdate(mem) \in InstallationStatus
      BY <1>0, CountUpdateType
    <3>2. CountUpdate(mem).rep = mem.rep /\ CountUpdate(mem).ready = mem.ready
      BY <1>0 DEF CountUpdate, InstallationStatus
    <3> QED BY <1>0, <3>1, <3>2
  <2>4. Counted(new) <=> new.phase = "Normal"
    BY DEF Counted, ReplicaStatusOf
  <2>5. mem' = SetReplicaStatus(st, cur, new)
    BY <2>2
  <2> HIDE DEF new
  <2>6. /\ mem'.rep = [mem.rep EXCEPT ![cur] = new]
        /\ mem'.ready = IF new.phase = "Normal" THEN mem.ready + 1 ELSE mem.ready
    BY <2>3, <2>5 DEF SetReplicaStatus, InstallationStatus
  <2>7. mem'.rep[cur] = new /\ \A r \in snap.want \ {cur} : mem'.rep[r] = mem.rep[r]
    BY <1>0, <2>1, <2>6
  <2>8. \A r \in snap.want : r \notin Left' <=> r \notin Left \/ r = cur
    BY <2>1
  <2>9. CASE new.phase = "Normal"
    BY <1>0, <2>1, <2>4, <2>6, <2>7, <2>8, <2>9 DEF Done
  <2>10. CASE new.phase # "Normal"
    BY <1>0, <2>1, <2>4, <2>6, <2>7, <2>8, <2>10 DEF Done
  <2> QED BY <2>9, <2>10
<1>2. CASE CreateTablesForReplica
  <2>1. mem'.rep = [mem.rep EXCEPT ![cur] = [mem.rep[cur] EXCEPT !.state = "Sync"]]
    BY <1>2, EntryOfTables
  <2>2. pc = "createTables" /\ mem'.ready = mem.ready + 1
    BY <1>0, <1>2 DEF CreateTablesForReplica, InstallationStatus
  <2>3. cur \in snap.want /\ cur \notin Left /\ NeedsTables(mem.rep[cur])
    BY <2>2 DEF LoopInv, SyncLoopInv, SyncLabels, Left
  <2>4. Left' \cap snap.want = Left \cap snap.want
    BY <1>2, VisitStep, <2>2 DEF KeepStatefulSet, UpdateStatefulSet
  <2>5. ~Counted(mem.rep[cur]) /\ Counted([mem.rep[cur] EXCEPT !.state = "Sync"])
    BY <1>0, <2>3 DEF Counted, NeedsTables, ReplicaStatus
  <2> DEFINE synced == [mem.rep[cur] EXCEPT !.state = "Sync"]
  <2>6. mem'.rep[cur] = synced /\ \A r \in snap.want \ {cur} : mem'.rep[r] = mem.rep[r]
    BY <1>0, <2>1, <2>3
  <2> HIDE DEF synced
  <2> QED BY <1>0, <2>2, <2>3, <2>4, <2>5, <2>6 DEF Done, synced
<1>3. CASE ~KeepStatefulSet /\ ~UpdateStatefulSet /\ ~CreateTablesForReplica
  <2>1. Left' \cap snap.want = Left \cap snap.want
    BY <1>3, VisitStep
  <2>2. \A r \in snap.want : mem'.rep[r] = mem.rep[r]
    BY <1>3, EntryFrame
  <2>3. mem'.ready = mem.ready
    BY <1>3, MemFrame
  <2> QED BY <1>0, <2>1, <2>2, <2>3 DEF Done
<1> QED BY <1>1, <1>2, <1>3

(* Where a pass can be after a step, if it is not over.                    *)
LEMMA PassEnd ==
  ASSUME Next, ~Reconcile, ~PassOver, ~ApplyConfiguration, ~UpdateInstallation
  PROVE  \/ UNCHANGED <<pc, mem>>
         \/ /\ pc \notin {"idle", "update", "status"}
            /\ pc' \notin {"idle", "update", "status"}
<1>1. CASE SyncReplicas
  BY <1>1, Zenon
  DEF SyncReplicas, SyncShard, SyncReplica, SkipStatefulSet, CreateStatefulSet,
      KeepStatefulSet, UpdateStatefulSet, SyncServiceForReplica, CreateTablesForReplica,
      CreateTablesFails, FindExtraReplicas, GiveUp, Goto
<1>2. CASE DeleteReplicas
  BY <1>2
  DEF DeleteReplicas, DeleteShard, SkipReplica, DeleteTables, DeleteStatefulSet,
      DeletePVC, DeleteConfigMap, DeleteServiceForReplica, StatusAfterDelete, GiveUp,
      Goto, AfterReplica, AfterStatefulSet
<1>3. CASE Pass /\ ~SyncReplicas /\ ~DeleteReplicas
  BY <1>3
  DEF Pass, SyncServiceForInstallation, SyncConfigMaps, UpdateStatus, Conflict,
      DeleteConfigMaps, DeleteServiceForInstallation, StatusTerminated, RemoveFinalizer,
      GiveUp, Goto
<1>4. CASE ~Pass
  BY <1>4, Zenon
  DEF Next, Fault, GiveUp, User, ChangeLayout, ChangeTemplate, SetPaused,
      DeleteInstallation, UserWrites, Pods, PodReady, PodReplaced, PodLost, Informers,
      InformerInstallation, InformerStatefulSet, CollectGarbage, Rest, vars, passVars
<1> QED BY <1>1, <1>2, <1>3, <1>4

(* Each step preserves ExactInv.                                           *)
LEMMA ExactInvStep ==
  ASSUME TypeInv, TypeInv', LoopInv, ReadyInv, BuildInv, FinishedInv, ExactInv, Next
  PROVE  ExactInv'
<1> SUFFICES ASSUME ~snap'.paused, ~snap'.deleting
             PROVE  /\ pc' \notin {"idle", "update", "status"} =>
                         mem'.ready = Cardinality(Done')
                    /\ pc' \in {"update", "status"} =>
                         /\ mem'.prev = snap'.want
                         /\ (\A r \in snap'.want : Counted(mem'.rep[r]))
                              => mem'.state = "Completed"
  BY DEF ExactInv
<1>1. CASE PassOver
  BY <1>1 DEF PassOver
<1>2. CASE Reconcile /\ UNCHANGED passVars
  BY <1>2 DEF passVars, ExactInv, Done, Left
<1>3. CASE Reconcile /\ ~UNCHANGED passVars
  <2> DEFINE di == diCache.spec
  <2>1. /\ snap' = IF di.deleting THEN di ELSE [di EXCEPT !.finalizer = TRUE]
        /\ mem' = IF di.deleting THEN [diCache.status EXCEPT !.state = "Terminating"]
                  ELSE StatusAtStart(diCache.status, di.want)
        /\ shards' = ShardsOf(di.want)
        /\ pc' = IF di.deleting THEN "shards" ELSE "service"
    BY <1>3 DEF Reconcile, Goto
  <2>2. di \in InstallationSpec /\ diCache.status \in InstallationStatus
    BY DEF TypeInv, CacheTypeOK
  <2>3. /\ snap'.want = di.want /\ di.want \subseteq Replicas
        /\ ~di.deleting
    BY <2>1, <2>2 DEF InstallationSpec
  <2>4. \A x \in di.want : x \in UNION ShardsOf(di.want)
    BY <2>3, LayoutAssumption DEF ShardsOf
  <2>5. Done' = {}
    <3> HIDE DEF di
    <3> QED BY <2>1, <2>3, <2>4 DEF Done, Left
  <2>6. mem'.ready = 0
    BY <2>1, <2>2, <2>3 DEF StatusAtStart, InstallationStatus
  <2>7. Cardinality(Done') = 0
    BY <2>5, FS_EmptySet
  <2> QED BY <2>1, <2>3, <2>6, <2>7
<1>4. CASE ~PassOver /\ ~Reconcile
  <2>1. snap' = snap
    BY <1>4, SnapWriters
  <2>2. ~snap.paused /\ ~snap.deleting
    BY <2>1
  <2>3. CASE ApplyConfiguration
    <3>1. pc = "shards" /\ shards = {} /\ pc' = "update"
      BY <2>3 DEF ApplyConfiguration, Goto
    <3>2. mem.ready = Cardinality(Done) /\ mem.count = Cardinality(snap.want)
      BY <2>2, <3>1 DEF ExactInv, BuildInv, CountInv
    <3>3. Left = {}
      BY <3>1 DEF Left, SyncLabels
    <3>4. /\ mem'.prev = snap.want /\ mem'.rep = mem.rep
          /\ IsReady(mem) => mem'.state = "Completed"
      <4>1. mem \in InstallationStatus
        BY DEF TypeInv, PassTypeOK
      <4>2. mem' = [mem EXCEPT !.prev = snap.want,
                      !.state = IF IsReady(mem) THEN "Completed" ELSE mem.state]
        BY <2>3, Zenon DEF ApplyConfiguration
      <4> QED BY <4>1, <4>2 DEF InstallationStatus
    <3>5. (\A r \in snap.want : Counted(mem.rep[r])) => Done = snap.want
      BY <3>3 DEF Done
    <3>6. (\A r \in snap.want : Counted(mem.rep[r])) => IsReady(mem)
      BY <3>2, <3>5 DEF IsReady
    <3> QED BY <2>1, <3>1, <3>4, <3>6
  <2>4. CASE UpdateInstallation
    BY <2>1, <2>2, <2>4 DEF UpdateInstallation, ExactInv, Goto
  <2>5. CASE ~ApplyConfiguration /\ ~UpdateInstallation
    <3>1. pc' \in {"update", "status"} =>
            /\ pc' = pc /\ mem' = mem
      BY <1>4, <2>5, PassEnd
    <3>2. pc' \notin {"idle", "update", "status"} => pc \notin {"idle", "update", "status"}
      BY <1>4, <2>5, PassEnd
    <3>3. pc' \notin {"idle", "update", "status"} => mem.ready = Cardinality(Done)
      BY <2>2, <3>2 DEF ExactInv
    <3>4. CASE Done' = Done /\ mem'.ready = mem.ready
      BY <2>1, <2>2, <3>1, <3>3, <3>4 DEF ExactInv
    <3>5. CASE /\ cur \notin Done /\ Done' = Done \cup {cur} /\ mem'.ready = mem.ready + 1
      <4>1. Cardinality(Done') = Cardinality(Done) + 1
        BY <3>5, DoneIsFinite, FS_AddElement
      <4> QED BY <2>1, <2>2, <3>1, <3>3, <3>5, <4>1 DEF ExactInv
    <3> QED BY <1>4, <2>2, <3>4, <3>5, DoneStep
  <2> QED BY <2>3, <2>4, <2>5
<1> QED BY <1>1, <1>2, <1>3, <1>4

(* ExactInv holds in every reachable state.                                *)
LEMMA ExactInvHolds == Spec => []ExactInv
<1>1. Init => ExactInv
  <2>1. Init => pc = "idle"
    BY DEF Init
  <2> QED BY <2>1 DEF ExactInv
<1>2. ASSUME ExactInv, UNCHANGED vars PROVE ExactInv'
  BY <1>2 DEF ExactInv, Done, Left, vars, passVars
<1>3. TypeInv /\ TypeInv' /\ LoopInv /\ ReadyInv /\ BuildInv /\ FinishedInv /\ ExactInv
        /\ [Next]_vars
      => ExactInv'
  BY <1>2, ExactInvStep
<1> QED
  BY <1>1, <1>3, TypeInvHolds, LoopInvHolds, ReadyInvHolds, BuildInvHolds,
     FinishedInvHolds, PTL DEF Spec
----------------------------------------------------------------------------
(* What a quiet pass has seen *)

(* The StatefulSet of the replica runs, as the operator sees it.           *)
Up(r) == stsCache[r].ready /\ stsCache[r].current

(***************************************************************************)
(* What a quiet pass has done to a replica it has looked at: its ConfigMap *)
(* and its Service were there or are now, and if nothing was updated its   *)
(* StatefulSet is as the spec asks and, where it runs, so does its entry.  *)
(***************************************************************************)
LookedAt(r) ==
  /\ r \in configMaps
  /\ r \in services \/ (pc = "replicaService" /\ r = cur)
  /\ mem.updated = 0 =>
       /\ stsCache[r].exists /\ stsCache[r].template = snap.template
       /\ Up(r) => \/ mem.rep[r].phase = "Normal"
                   \/ mem.rep[r].phase = "Ready" /\ status.rep[r].state = "NotSync"

QuietInv ==
  /\ fresh /\ snap.paused = spec.paused
  /\ ~snap.deleting /\ ~snap.paused =>
       /\ mem.updated = 0 => mem.stamp = status.stamp
       /\ mem.stamp = status.stamp => mem.updated = 0
       /\ pc = "statefulSet" => cur \in configMaps
       /\ \A r \in Left \cap snap.want : mem.rep[r].state = status.rep[r].state
       /\ \A r \in snap.want \ Left : LookedAt(r)

(* What a quiet operator at rest leaves.                                   *)
IdleInv ==
  spec.exists =>
    /\ ~spec.deleting
    /\ ~spec.paused /\ (\A r \in Replicas : stsCache[r].exists => Up(r)) =>
         /\ status.state = "Completed" /\ status.prev = spec.want
         /\ \A r \in spec.want :
              /\ stsCache[r].exists /\ stsCache[r].template = spec.template
              /\ r \in configMaps /\ r \in services

RestInv ==
  /\ spec.deleting => spec.finalizer
  /\ Quiet /\ pc # "idle" => QuietInv
  /\ Quiet /\ pc = "idle" => IdleInv

(* Only the operator deletes a ConfigMap of an installation that exists.   *)
LEMMA ConfigMapDeleters ==
  ASSUME Next, ~(configMaps \subseteq configMaps')
  PROVE  \/ ~spec.exists
         \/ pc = "deleteConfigMap" /\ configMaps' = configMaps \ {cur}
<1>1. CASE UNCHANGED configMaps
  BY <1>1
<1>2. CASE SyncReplicas
  <2>1. CASE \E r \in Replicas : SyncReplica(r)
    BY <2>1 DEF SyncReplica
  <2> QED
    BY <1>1, <1>2, <2>1, Zenon
    DEF SyncReplicas, SyncShard, SkipStatefulSet, CreateStatefulSet, KeepStatefulSet,
        UpdateStatefulSet, SyncServiceForReplica, CreateTablesForReplica,
        CreateTablesFails, FindExtraReplicas, objectVars
<1>3. CASE DeleteReplicas
  BY <1>1, <1>3, Zenon
  DEF DeleteReplicas, DeleteShard, SkipReplica, DeleteTables, DeleteStatefulSet,
      DeletePVC, DeleteConfigMap, DeleteServiceForReplica, StatusAfterDelete, objectVars
<1>4. CASE Pass /\ ~SyncReplicas /\ ~DeleteReplicas
  BY <1>1, <1>4, Zenon
  DEF Pass, Reconcile, SyncServiceForInstallation, SyncConfigMaps, ApplyConfiguration,
      UpdateInstallation, UpdateStatus, Conflict, DeleteConfigMaps,
      DeleteServiceForInstallation, StatusTerminated, RemoveFinalizer, objectVars
<1>5. CASE ~Pass
  BY <1>1, <1>5, Zenon
  DEF Next, Fault, User, ChangeLayout, ChangeTemplate, SetPaused, DeleteInstallation,
      UserWrites, Pods, PodReady, PodReplaced, PodLost, Informers, InformerInstallation,
      InformerStatefulSet, CollectGarbage, Rest, vars, objectVars
<1> QED BY <1>2, <1>3, <1>4, <1>5

(* A quiet pass starts with the stored spec and the stored status.         *)
LEMMA QuietStart ==
  ASSUME TypeInv, CurrentInv, LagInv, RestInv, Next, Quiet', Reconcile
  PROVE  (pc' # "idle" => QuietInv') /\ (pc' = "idle" => IdleInv')
<1>1. diCache = [spec |-> spec, status |-> status] /\ diStale = FALSE
  <2>1. ~diStale /\ diStale \in BOOLEAN
    BY QuietStep DEF TypeInv, CacheTypeOK
  <2> QED BY <2>1 DEF CurrentInv, CacheInv
<1>2. UNCHANGED <<spec, status, sts, configMaps, services>> /\ pc = "idle"
  BY QuietStep, Zenon DEF Reconcile, objectVars
<1>3. CASE UNCHANGED passVars
  <2>1. ~spec.exists \/ (spec.deleting /\ ~spec.finalizer) \/ pc' # "idle"
    BY <1>1 DEF Reconcile, Goto
  <2>2. pc' = "idle"
    BY <1>2, <1>3 DEF passVars
  <2>3. ~spec.exists
    BY <2>1, <2>2 DEF RestInv
  <2> QED BY <1>2, <2>2, <2>3 DEF IdleInv
<1>4. CASE ~UNCHANGED passVars
  <2>1. /\ snap' = IF spec.deleting THEN spec ELSE [spec EXCEPT !.finalizer = TRUE]
        /\ mem' = IF spec.deleting THEN [status EXCEPT !.state = "Terminating"]
                  ELSE StatusAtStart(status, spec.want)
        /\ shards' = ShardsOf(spec.want)
        /\ pc' = IF spec.deleting THEN "shards" ELSE "service"
    BY <1>1, <1>4 DEF Reconcile, Goto
  <2>2. fresh'
    BY <1>1, <1>4, EntriesAtStart
  <2>3. spec \in InstallationSpec /\ status \in InstallationStatus
    BY DEF TypeInv, ObjectTypeOK
  <2>4. /\ snap'.paused = spec.paused /\ snap'.want = spec.want
        /\ snap'.deleting = spec.deleting
        /\ spec.want \subseteq Replicas
    BY <2>1, <2>3 DEF InstallationSpec
  <2>5. \A x \in spec.want : x \in UNION ShardsOf(spec.want)
    BY <2>4, LayoutAssumption DEF ShardsOf
  <2>6. ~spec.deleting => /\ mem'.rep = status.rep /\ mem'.updated = 0
                          /\ mem'.stamp = status.stamp
    BY <2>1, <2>3 DEF StatusAtStart, InstallationStatus
  <2>7. snap'.want \subseteq Left' /\ pc' \in {"shards", "service"}
    BY <2>1, <2>4, <2>5 DEF Left
  <2> QED BY <1>2, <2>2, <2>4, <2>6, <2>7 DEF QuietInv
<1> QED BY <1>3, <1>4

(* The entry a quiet pass gives a replica whose StatefulSet it keeps.      *)
LEMMA KeptEntry ==
  ASSUME TypeInv, KeepStatefulSet, mem.rep[cur].state = status.rep[cur].state, Up(cur)
  PROVE  \/ mem'.rep[cur].phase = "Normal"
         \/ mem'.rep[cur].phase = "Ready" /\ status.rep[cur].state = "NotSync"
<1>1. mem.rep \in [Replicas -> ReplicaStatus] /\ cur \in Replicas
  BY DEF TypeInv, PassTypeOK, InstallationStatus, KeepStatefulSet, ReplicaLabels
<1>2. mem'.rep = [mem.rep EXCEPT ![cur] = ReplicaStatusOf(mem.rep[cur], stsCache[cur])]
  BY EntryOfStatefulSet
<1>3. mem'.rep[cur] = ReplicaStatusOf(mem.rep[cur], stsCache[cur])
  BY <1>1, <1>2
<1> QED BY <1>3 DEF ReplicaStatusOf, Up

(* An update is counted, and the first one changes the stamp.              *)
LEMMA UpdateShows ==
  ASSUME TypeInv, UpdateStatefulSet
  PROVE  /\ mem'.updated = mem.updated + 1
         /\ mem.updated = 0 => mem'.stamp # mem.stamp
         /\ mem.updated # 0 => mem'.stamp = mem.stamp
<1>1. mem \in InstallationStatus
  BY DEF TypeInv, PassTypeOK
<1>2. PICK e : mem' = SetReplicaStatus(CountUpdate(mem), cur, e)
  BY Zenon DEF UpdateStatefulSet
<1>3. CountUpdate(mem) \in InstallationStatus
  BY <1>1, CountUpdateType
<1>4. mem'.updated = CountUpdate(mem).updated /\ mem'.stamp = CountUpdate(mem).stamp
  BY <1>2, <1>3 DEF SetReplicaStatus, InstallationStatus
<1>5. mem.stamp \in BOOLEAN
  BY <1>1, Zenon DEF InstallationStatus
<1> DEFINE stamp == IF mem.updated = 0 THEN ~mem.stamp ELSE mem.stamp
<1>6. /\ mem.updated = 0 => stamp # mem.stamp
      /\ mem.updated # 0 => stamp = mem.stamp
  BY <1>5, Zenon
<1>7. CountUpdate(mem) = [mem EXCEPT !.updated = mem.updated + 1, !.stamp = stamp]
  BY DEF CountUpdate
<1> HIDE DEF stamp
<1>8. CountUpdate(mem).updated = mem.updated + 1 /\ CountUpdate(mem).stamp = stamp
  BY <1>1, <1>7 DEF InstallationStatus
<1> QED BY <1>4, <1>6, <1>8

(* A pass stays fresh until the user or its end.                           *)
LEMMA FreshAfter ==
  ASSUME Next, fresh, ~PassOver, ~User, ~Reconcile
  PROVE  fresh'
<1>1. CASE SyncReplicas
  BY <1>1, Zenon
  DEF SyncReplicas, SyncShard, SyncReplica, SkipStatefulSet, CreateStatefulSet,
      KeepStatefulSet, UpdateStatefulSet, SyncServiceForReplica, CreateTablesForReplica,
      CreateTablesFails, FindExtraReplicas, GiveUp
<1>2. CASE DeleteReplicas
  BY <1>2, Zenon
  DEF DeleteReplicas, DeleteShard, SkipReplica, DeleteTables, DeleteStatefulSet,
      DeletePVC, DeleteConfigMap, DeleteServiceForReplica, StatusAfterDelete, GiveUp
<1>3. CASE Pass /\ ~SyncReplicas /\ ~DeleteReplicas
  BY <1>3, Zenon
  DEF Pass, SyncServiceForInstallation, SyncConfigMaps, ApplyConfiguration,
      UpdateInstallation, UpdateStatus, Conflict, DeleteConfigMaps,
      DeleteServiceForInstallation, StatusTerminated, RemoveFinalizer, GiveUp
<1>4. CASE ~Pass
  BY <1>4, Zenon
  DEF Next, Fault, GiveUp, Pods, PodReady, PodReplaced, PodLost, Informers,
      InformerInstallation, InformerStatefulSet, CollectGarbage, Rest, vars, passVars
<1> QED BY <1>1, <1>2, <1>3, <1>4

(* The calls before and after a replica's Service, and the ends of a pass. *)
LEMMA StatefulSetNext ==
  ASSUME Next, spec.exists, pc' = "statefulSet",
         pc = "statefulSet" => cur \in configMaps
  PROVE  cur' \in configMaps'
<1>1. CASE SyncReplicas
  BY <1>1
  DEF SyncReplicas, SyncShard, SyncReplica, SkipStatefulSet, CreateStatefulSet,
      KeepStatefulSet, UpdateStatefulSet, SyncServiceForReplica, CreateTablesForReplica,
      CreateTablesFails, FindExtraReplicas, GiveUp, PassOver, Goto
<1>2. CASE DeleteReplicas
  BY <1>2
  DEF DeleteReplicas, DeleteShard, SkipReplica, DeleteTables, DeleteStatefulSet,
      DeletePVC, DeleteConfigMap, DeleteServiceForReplica, StatusAfterDelete, GiveUp,
      PassOver, Goto, AfterReplica, AfterStatefulSet
<1>3. CASE Pass /\ ~SyncReplicas /\ ~DeleteReplicas
  BY <1>3
  DEF Pass, Reconcile, passVars, SyncServiceForInstallation, SyncConfigMaps,
      ApplyConfiguration, UpdateInstallation, UpdateStatus, Conflict, DeleteConfigMaps,
      DeleteServiceForInstallation, StatusTerminated, RemoveFinalizer, GiveUp, PassOver,
      Goto
<1>4. CASE ~Pass
  <2>1. UNCHANGED <<pc, cur, configMaps>> \/ pc' = "idle"
    BY <1>4, Zenon
    DEF Next, Fault, GiveUp, PassOver, User, ChangeLayout, ChangeTemplate, SetPaused,
        DeleteInstallation, UserWrites, Pods, PodReady, PodReplaced, PodLost, Informers,
        InformerInstallation, InformerStatefulSet, CollectGarbage, Rest, vars, passVars,
        objectVars
  <2> QED BY <2>1
<1> QED BY <1>1, <1>2, <1>3, <1>4

(* The Service of a replica is there after the call that syncs it.          *)
LEMMA ReplicaServiceNext ==
  ASSUME TypeInv, Next, ~PassOver, pc = "replicaService", UNCHANGED services
  PROVE  cur \in services' \/ (pc' = "replicaService" /\ cur' = cur)
<1>1. CASE SyncServiceForReplica
  BY <1>1 DEF SyncServiceForReplica
<1>2. CASE UNCHANGED <<pc, cur>>
  BY <1>2
<1> QED
  BY <1>1, <1>2, EntryWriters
  DEF Reconcile, KeepStatefulSet, UpdateStatefulSet, CreateTablesForReplica,
      DeleteStatefulSet

(* A pass that does not give up ends with the status or with the finalizer. *)
LEMMA PassEnds ==
  ASSUME Next, pc # "idle", pc' = "idle", ~GiveUp
  PROVE  UpdateStatus \/ RemoveFinalizer
<1>1. ~SyncReplicas
  BY DEF SyncReplicas, SyncShard, SyncReplica, SkipStatefulSet, CreateStatefulSet,
         KeepStatefulSet, UpdateStatefulSet, SyncServiceForReplica,
         CreateTablesForReplica, CreateTablesFails, FindExtraReplicas, Goto
<1>2. ~DeleteReplicas
  BY DEF DeleteReplicas, DeleteShard, SkipReplica, DeleteTables, DeleteStatefulSet,
         DeletePVC, DeleteConfigMap, DeleteServiceForReplica, StatusAfterDelete,
         AfterReplica, AfterStatefulSet, Goto
<1>3. CASE Pass
  BY <1>1, <1>2, <1>3
  DEF Pass, Reconcile, SyncServiceForInstallation, SyncConfigMaps, ApplyConfiguration,
      UpdateInstallation, Conflict, DeleteConfigMaps, DeleteServiceForInstallation,
      StatusTerminated, Goto
<1>4. CASE ~Pass
  BY <1>4, Zenon
  DEF Next, Fault, User, ChangeLayout, ChangeTemplate, SetPaused, DeleteInstallation,
      UserWrites, Pods, PodReady, PodReplaced, PodLost, Informers, InformerInstallation,
      InformerStatefulSet, CollectGarbage, Rest, vars, passVars
<1> QED BY <1>3, <1>4

(* Between two passes only Reconcile starts one.                           *)
LEMMA IdlePasses ==
  ASSUME Next, ~Reconcile, pc = "idle"
  PROVE  pc' = "idle"
<1>1. ~SyncReplicas
  BY DEF SyncReplicas, SyncShard, SyncReplica, SkipStatefulSet, CreateStatefulSet,
         KeepStatefulSet, UpdateStatefulSet, SyncServiceForReplica,
         CreateTablesForReplica, CreateTablesFails, FindExtraReplicas
<1>2. ~DeleteReplicas
  BY DEF DeleteReplicas, DeleteShard, SkipReplica, DeleteTables, DeleteStatefulSet,
         DeletePVC, DeleteConfigMap, DeleteServiceForReplica, StatusAfterDelete
<1>3. ~Pass
  BY <1>1, <1>2
  DEF Pass, SyncServiceForInstallation, SyncConfigMaps, ApplyConfiguration,
      UpdateInstallation, UpdateStatus, Conflict, DeleteConfigMaps,
      DeleteServiceForInstallation, StatusTerminated, RemoveFinalizer
<1>4. ~Fault
  BY DEF Fault
<1> QED
  BY <1>3, <1>4, Zenon
  DEF Next, User, ChangeLayout, ChangeTemplate, SetPaused, DeleteInstallation,
      UserWrites, Pods, PodReady, PodReplaced, PodLost, Informers, InformerInstallation,
      InformerStatefulSet, CollectGarbage, Rest, vars, passVars

(* A deleted installation that is still there has its finalizer.           *)
LEMMA FinalizerStays ==
  ASSUME TypeInv, LoopInv, Next, spec.deleting => spec.finalizer
  PROVE  spec'.deleting => spec'.finalizer
<1>1. CASE UpdateInstallation
  BY <1>1 DEF UpdateInstallation, LoopInv, BranchInv
<1>2. CASE RemoveFinalizer
  BY <1>2 DEF RemoveFinalizer, NoSpec
<1>3. CASE User
  <2>1. /\ \A w : /\ [spec EXCEPT !.want = w].deleting = spec.deleting
                  /\ [spec EXCEPT !.want = w].finalizer = spec.finalizer
        /\ \A t : /\ [spec EXCEPT !.template = t].deleting = spec.deleting
                  /\ [spec EXCEPT !.template = t].finalizer = spec.finalizer
        /\ \A b : /\ [spec EXCEPT !.paused = b].deleting = spec.deleting
                  /\ [spec EXCEPT !.paused = b].finalizer = spec.finalizer
        /\ [spec EXCEPT !.deleting = TRUE].finalizer = spec.finalizer
    BY DEF TypeInv, ObjectTypeOK, InstallationSpec
  <2>2. ~NoSpec.deleting
    BY DEF NoSpec
  <2>3. \/ \E w : spec' = [spec EXCEPT !.want = w]
        \/ \E t : spec' = [spec EXCEPT !.template = t]
        \/ \E b : spec' = [spec EXCEPT !.paused = b]
        \/ spec.finalizer /\ spec' = [spec EXCEPT !.deleting = TRUE]
        \/ spec' = NoSpec
    BY <1>3, Zenon
    DEF User, ChangeLayout, ChangeTemplate, SetPaused, DeleteInstallation, UserWrites
  <2>4. CASE \E w : spec' = [spec EXCEPT !.want = w]
    BY <2>1, <2>4
  <2>5. CASE \E t : spec' = [spec EXCEPT !.template = t]
    BY <2>1, <2>5
  <2>6. CASE \E b : spec' = [spec EXCEPT !.paused = b]
    BY <2>1, <2>6
  <2> QED BY <2>1, <2>2, <2>3, <2>4, <2>5, <2>6
<1>4. CASE UNCHANGED spec
  BY <1>4
<1>5. CASE SyncReplicas \/ DeleteReplicas
  BY <1>4, <1>5, Zenon
  DEF SyncReplicas, SyncShard, SyncReplica, SkipStatefulSet, CreateStatefulSet,
      KeepStatefulSet, UpdateStatefulSet, SyncServiceForReplica, CreateTablesForReplica,
      CreateTablesFails, FindExtraReplicas, DeleteReplicas, DeleteShard, SkipReplica,
      DeleteTables, DeleteStatefulSet, DeletePVC, DeleteConfigMap,
      DeleteServiceForReplica, StatusAfterDelete
<1>6. CASE Pass /\ ~SyncReplicas /\ ~DeleteReplicas /\ ~UpdateInstallation
                /\ ~RemoveFinalizer
  BY <1>4, <1>6, Zenon
  DEF Pass, Reconcile, SyncServiceForInstallation, SyncConfigMaps, ApplyConfiguration,
      UpdateStatus, Conflict, DeleteConfigMaps, DeleteServiceForInstallation,
      StatusTerminated
<1>7. CASE Fault \/ Pods \/ Informers \/ CollectGarbage \/ Rest
  BY <1>4, <1>7, Zenon
  DEF Fault, Pods, PodReady, PodReplaced, PodLost, Informers, InformerInstallation,
      InformerStatefulSet, CollectGarbage, Rest, vars
<1> QED BY <1>1, <1>2, <1>3, <1>5, <1>6, <1>7 DEF Next

(* A quiet pass goes on being quiet.                                       *)
LEMMA QuietPass ==
  ASSUME TypeInv, CurrentInv, LoopInv, LagInv, RestInv, Next, Quiet', ~Reconcile,
         pc # "idle", pc' # "idle"
  PROVE  QuietInv'
<1>1. Quiet /\ UNCHANGED <<spec, status, stsCache, services>>
  BY QuietStep
<1>2. QuietInv
  BY <1>1 DEF RestInv
<1>3. ~PassOver /\ ~User
  BY LoudSteps DEF PassOver
<1>4. snap' = snap /\ spec.exists /\ snap.want \subseteq Replicas
  BY <1>2, <1>3, SnapWriters
  DEF QuietInv, CurrentInv, FreshInv, TypeInv, PassTypeOK, InstallationSpec
<1>5. fresh'
  BY <1>2, <1>3, FreshAfter DEF QuietInv
<1>6. CASE snap.deleting \/ snap.paused
  BY <1>1, <1>2, <1>4, <1>5, <1>6 DEF QuietInv
<1>7. CASE ~snap.deleting /\ ~snap.paused
  <2>1. /\ mem'.updated = 0 => mem'.stamp = status.stamp
        /\ mem'.stamp = status.stamp => mem'.updated = 0
    <3>1. CASE UpdateStatefulSet
      <4>1. mem.updated \in Nat /\ mem.stamp \in BOOLEAN /\ status.stamp \in BOOLEAN
        BY Zenon DEF TypeInv, PassTypeOK, ObjectTypeOK, InstallationStatus
      <4>2. mem'.updated # 0
        BY <3>1, <4>1, UpdateShows
      <4>3. mem'.stamp # status.stamp
        BY <1>2, <1>7, <3>1, UpdateShows DEF QuietInv
      <4> QED BY <4>2, <4>3
    <3>2. CASE ~UpdateStatefulSet
      BY <1>2, <1>3, <1>7, <3>2, MemFrame DEF QuietInv
    <3> QED BY <3>1, <3>2
  <2>2. ASSUME pc' = "statefulSet" PROVE cur' \in configMaps'
    BY <1>2, <1>4, <1>7, <2>2, StatefulSetNext DEF QuietInv
  <2>3. ASSUME NEW r \in Left' \cap snap.want
        PROVE  mem'.rep[r].state = status.rep[r].state
    <3>1. r \in Left
      BY <1>3, <1>7, <2>3, VisitStep
    <3>2. CASE mem'.rep[r] = mem.rep[r]
      BY <1>2, <1>7, <2>3, <3>1, <3>2 DEF QuietInv
    <3>3. CASE KeepStatefulSet \/ UpdateStatefulSet
      <4>1. r # cur
        BY <1>3, <1>7, <2>3, <3>3, VisitStep
      <4>2. mem'.rep[r] = mem.rep[r]
        BY <1>3, <1>7, <2>3, <4>1, EntryFrame
      <4> QED BY <3>2, <4>2
    <3>4. CASE CreateTablesForReplica /\ r = cur
      <4>1. cur \notin Left
        BY <3>4 DEF CreateTablesForReplica, LoopInv, SyncLoopInv, SyncLabels, Left
      <4> QED BY <3>1, <3>4, <4>1
    <3> QED BY <1>3, <1>7, <2>3, <3>2, <3>3, <3>4, EntryFrame
  <2>4. ASSUME NEW r \in snap.want \ Left'
        PROVE  LookedAt(r)'
    <3>1. r \in configMaps'
      <4>1. r \in configMaps
        <5>1. CASE r \in Left
          <6>1. (KeepStatefulSet \/ UpdateStatefulSet) /\ r = cur
            BY <1>3, <1>7, <2>4, <5>1, VisitStep
          <6>2. pc = "statefulSet"
            BY <6>1 DEF KeepStatefulSet, UpdateStatefulSet
          <6> QED BY <1>2, <1>7, <6>1, <6>2 DEF QuietInv
        <5>2. CASE r \notin Left
          BY <1>2, <1>7, <2>4, <5>2 DEF QuietInv, LookedAt
        <5> QED BY <5>1, <5>2
      <4>2. pc = "deleteConfigMap" => cur # r
        BY <1>7, <2>4 DEF LoopInv, DeleteLoopInv, DeleteLabels
      <4> QED BY <1>4, <4>1, <4>2, ConfigMapDeleters
    <3>2. CASE (KeepStatefulSet \/ UpdateStatefulSet) /\ r = cur
      <4>1. cur \in Left /\ pc' = "replicaService" /\ cur' = cur
        BY <1>3, <1>7, <3>2, VisitStep DEF KeepStatefulSet, UpdateStatefulSet, Goto
      <4>2. mem.rep[cur].state = status.rep[cur].state
        BY <1>2, <1>7, <2>4, <3>2, <4>1 DEF QuietInv
      <4>3. CASE KeepStatefulSet
        <5>1. stsCache[r].exists /\ stsCache[r].template = snap.template
          BY <3>2, <4>3 DEF KeepStatefulSet
        <5>2. Up(r) => \/ mem'.rep[r].phase = "Normal"
                       \/ mem'.rep[r].phase = "Ready" /\ status.rep[r].state = "NotSync"
          BY <3>2, <4>2, <4>3, KeptEntry
        <5> QED BY <1>1, <1>4, <3>1, <3>2, <4>1, <5>1, <5>2 DEF LookedAt, Up
      <4>4. CASE UpdateStatefulSet
        <5>1. mem.updated \in Nat
          BY Zenon DEF TypeInv, PassTypeOK, InstallationStatus
        <5>2. mem'.updated # 0
          BY <4>4, <5>1, UpdateShows
        <5> QED BY <1>1, <1>4, <3>1, <3>2, <4>1, <5>2 DEF LookedAt
      <4> QED BY <3>2, <4>3, <4>4
    <3>3. CASE ~((KeepStatefulSet \/ UpdateStatefulSet) /\ r = cur)
      <4>1. r \notin Left
        BY <1>3, <1>7, <2>4, <3>3, VisitStep
      <4>2. LookedAt(r)
        BY <1>2, <1>7, <2>4, <4>1 DEF QuietInv
      <4>3. r \in services' \/ (pc' = "replicaService" /\ r = cur')
        <5>1. CASE r \in services
          BY <1>1, <5>1
        <5>2. CASE pc = "replicaService" /\ r = cur
          BY <1>1, <1>3, <5>2, ReplicaServiceNext
        <5> QED BY <4>2, <5>1, <5>2 DEF LookedAt
      <4>4. mem'.updated = 0 => mem.updated = 0
        <5>1. mem.updated \in Nat
          BY Zenon DEF TypeInv, PassTypeOK, InstallationStatus
        <5>2. mem'.updated = mem.updated \/ mem'.updated = mem.updated + 1
          BY <1>3, MemFrame, UpdateShows
        <5> QED BY <5>1, <5>2
      <4>5. mem'.rep[r].phase = mem.rep[r].phase
        <5>1. CASE CreateTablesForReplica /\ r = cur
          <6>1. mem'.rep = [mem.rep EXCEPT ![cur] = [mem.rep[cur] EXCEPT !.state = "Sync"]]
            BY <5>1, EntryOfTables
          <6>2. mem.rep \in [Replicas -> ReplicaStatus] /\ r \in Replicas
            BY <1>4, <2>4 DEF TypeInv, PassTypeOK, InstallationStatus
          <6>3. [mem.rep[cur] EXCEPT !.state = "Sync"].phase = mem.rep[cur].phase
            BY <5>1, <6>2 DEF ReplicaStatus
          <6> QED BY <5>1, <6>1, <6>2, <6>3
        <5>2. CASE mem'.rep[r] = mem.rep[r]
          BY <5>2
        <5> QED BY <1>3, <1>7, <2>4, <3>3, <5>1, <5>2, EntryFrame
      <4> QED BY <1>1, <1>4, <3>1, <4>2, <4>3, <4>4, <4>5 DEF LookedAt, Up
    <3> QED BY <3>2, <3>3
  <2> QED BY <1>1, <1>2, <1>4, <1>5, <2>1, <2>2, <2>3, <2>4 DEF QuietInv
<1> QED BY <1>6, <1>7

(* A quiet pass that ends leaves the installation carried out.             *)
LEMMA QuietEnd ==
  ASSUME TypeInv, CurrentInv, LoopInv, ReadyInv, FinishedInv, ExactInv, LagInv, RestInv,
         Next, Quiet', pc # "idle", pc' = "idle"
  PROVE  IdleInv'
<1>1. Quiet /\ UNCHANGED <<spec, status, stsCache, services>>
  BY QuietStep DEF Reconcile
<1>2. QuietInv
  BY <1>1 DEF RestInv
<1>3. UpdateStatus \/ RemoveFinalizer
  BY LoudSteps, PassEnds
<1>4. CASE RemoveFinalizer
  BY <1>4 DEF RemoveFinalizer, IdleInv, NoSpec
<1>5. CASE UpdateStatus
  <2>1. /\ pc = "status" /\ UpdateInstallationStatus(mem)
        /\ UNCHANGED <<configMaps, services>>
    BY <1>5, Zenon DEF UpdateStatus, objectVars
  <2>2. /\ spec.exists /\ snap.want = spec.want /\ snap.template = spec.template
        /\ snap.deleting = spec.deleting /\ snap.paused = spec.paused
    BY <1>2 DEF QuietInv, CurrentInv, FreshInv
  <2>3. ~snap.deleting /\ shards = {}
    BY <2>1 DEF LoopInv, BranchInv, FinishedInv
  <2>4. diCache.spec.exists
    BY <1>1, <2>2 DEF Quiet, CurrentInv, CacheInv
  <2>5. status = mem
    BY <1>1, <2>1, <2>4 DEF UpdateInstallationStatus
  <2>6. SUFFICES ASSUME ~spec.paused, \A r \in Replicas : stsCache[r].exists => Up(r)
                 PROVE  /\ status.state = "Completed" /\ status.prev = spec.want
                        /\ \A r \in spec.want :
                             /\ stsCache[r].exists /\ stsCache[r].template = spec.template
                             /\ r \in configMaps /\ r \in services
    BY <1>1, <2>1, <2>2, <2>3 DEF IdleInv, Up
  <2>7. mem.updated = 0
    BY <1>2, <2>2, <2>3, <2>5, <2>6 DEF QuietInv
  <2>8. ASSUME NEW r \in spec.want
        PROVE  /\ Counted(mem.rep[r])
               /\ stsCache[r].exists /\ stsCache[r].template = spec.template
               /\ r \in configMaps /\ r \in services
    <3>1. r \notin Left /\ r \in Replicas
      BY <2>1, <2>3 DEF Left, SyncLabels, TypeInv, ObjectTypeOK, InstallationSpec
    <3>2. LookedAt(r)
      BY <1>2, <2>2, <2>3, <2>6, <2>8, <3>1 DEF QuietInv
    <3>3. stsCache[r].exists /\ stsCache[r].template = spec.template
      BY <2>2, <2>7, <3>2 DEF LookedAt
    <3>4. \/ mem.rep[r].phase = "Normal"
          \/ mem.rep[r].phase = "Ready" /\ mem.rep[r].state = "NotSync"
      BY <2>5, <2>6, <2>7, <3>1, <3>2, <3>3 DEF LookedAt
    <3>5. ~NeedsTables(mem.rep[r])
      BY <2>5, <3>1 DEF ReadyInv
    <3>6. Counted(mem.rep[r])
      BY <3>4, <3>5 DEF Counted, NeedsTables
    <3> QED BY <2>1, <3>2, <3>3, <3>6 DEF LookedAt
  <2>9. mem.prev = spec.want /\ mem.state = "Completed"
    BY <2>1, <2>2, <2>3, <2>6, <2>8 DEF ExactInv
  <2> QED BY <2>5, <2>8, <2>9
<1> QED BY <1>3, <1>4, <1>5

(* Between two passes nothing changes quietly.                             *)
LEMMA QuietRest ==
  ASSUME LagInv, RestInv, Next, Quiet', ~Reconcile, pc = "idle"
  PROVE  pc' = "idle" /\ IdleInv'
<1>1. Quiet /\ UNCHANGED <<spec, status, stsCache, services>>
  BY QuietStep
<1>2. IdleInv
  BY <1>1 DEF RestInv
<1>3. pc' = "idle"
  BY IdlePasses DEF vars, passVars
<1>4. spec.exists => configMaps \subseteq configMaps'
  BY ConfigMapDeleters
<1> QED BY <1>1, <1>2, <1>3, <1>4 DEF IdleInv, Up

(* Each step preserves RestInv.                                            *)
LEMMA RestInvStep ==
  ASSUME TypeInv, CurrentInv, LoopInv, ReadyInv, FinishedInv, ExactInv, LagInv, RestInv, Next
  PROVE  RestInv'
<1>1. spec'.deleting => spec'.finalizer
  BY FinalizerStays DEF RestInv
<1>2. Quiet' /\ pc' # "idle" => QuietInv'
  BY QuietStart, QuietPass, QuietRest
<1>3. Quiet' /\ pc' = "idle" => IdleInv'
  BY QuietStart, QuietEnd, QuietRest
<1> QED BY <1>1, <1>2, <1>3 DEF RestInv

(* RestInv holds in every reachable state.                                 *)
LEMMA RestInvHolds == Spec => []RestInv
<1>1. Init => RestInv
  <2>1. Init => ~spec.deleting /\ ~Quiet
    BY DEF Init, Quiet
  <2> QED BY <2>1 DEF RestInv
<1>2. ASSUME RestInv, UNCHANGED vars PROVE RestInv'
  BY <1>2
  DEF RestInv, QuietInv, IdleInv, LookedAt, Up, Quiet, Left, vars, passVars, cacheVars,
      objectVars
<1>3. /\ TypeInv /\ CurrentInv /\ LoopInv /\ ReadyInv /\ FinishedInv /\ ExactInv /\ LagInv
      /\ RestInv /\ [Next]_vars
      => RestInv'
  BY <1>2, RestInvStep
<1> QED
  BY <1>1, <1>3, TypeInvHolds, CurrentInvHolds, LoopInvHolds, ReadyInvHolds,
     FinishedInvHolds, ExactInvHolds, LagInvHolds, PTL DEF Spec

(***************************************************************************)
(* An installation at rest that is not paused has been carried out. There  *)
(* is no order of edits, events, failing calls, restarts and lost pods     *)
(* after which the operator stops with work left and nothing to remind it. *)
(***************************************************************************)
THEOREM SettledCarriedOut == Spec => []SettledIsCarriedOut
<1>1. RestInv => SettledIsCarriedOut
  <2> SUFFICES ASSUME RestInv, Settled, spec.exists, ~spec.paused PROVE CarriedOut
    BY DEF SettledIsCarriedOut
  <2>1. IdleInv
    BY DEF RestInv, Settled, Quiet
  <2>2. stsCache = sts /\ \A r \in Replicas : stsCache[r].exists => Up(r)
    BY DEF Settled, Up
  <2> QED BY <2>1, <2>2 DEF IdleInv, CarriedOut
<1> QED BY <1>1, RestInvHolds, PTL
=============================================================================
