---------------------------- MODULE ScaleInProofs ----------------------------
(***************************************************************************)
(* Proof of what a finished scale-in leaves behind: nothing of a replica   *)
(* that is not wanted any more; and of what the deletion of an             *)
(* installation leaves behind: no StatefulSet and no volume at all.        *)
(*                                                                         *)
(* The code does not promise this to everyone, and each hypothesis here is *)
(* one without which TLC finds a replica, or a part of one, left over:     *)
(* the user waits for Completed between two edits of the spec, the caches  *)
(* do not lag, each shard grows and shrinks at one end and none comes or   *)
(* goes. That parts of a replica go with its StatefulSet needs, on top,    *)
(* that no call fails.                                                     *)
(*                                                                         *)
(* The argument: a pass that scales in works on the stored spec, and the   *)
(* replicas of PrevSpec are all there are outside of it. A pass that an    *)
(* edit overtakes works on PrevSpec itself, and changes nothing.           *)
(***************************************************************************)
EXTENDS SettledProofs

(* In each shard one layout extends the other, as it does where the spec   *)
(* names a number of replicas and no delete slots ...                      *)
NestedShards ==
  \A v, w \in Layouts, s \in Shards :
    v \cap s \subseteq w \cap s \/ w \cap s \subseteq v \cap s

(* ... and all layouts have the same shards.                               *)
SteadyShards ==
  \A v, w \in Layouts, s \in Shards : v \cap s # {} => w \cap s # {}

----------------------------------------------------------------------------
(* The user waits *)

(* What the user changes, and when.                                        *)
LEMMA UserSteps ==
  ASSUME TypeInv, User, PatientUser
  PROVE  /\ UNCHANGED <<sts, objectVars, pc, snap, mem, shards, shard, todo, cur>>
         /\ fresh' = FALSE
         /\ \/ spec' = NoSpec
            \/ /\ status' = status /\ spec'.exists = spec.exists
               /\ spec'.finalizer = spec.finalizer
               /\ \/ spec'.want = spec.want /\ spec'.deleting = spec.deleting
                  \/ Applied /\ spec'.want \in Layouts /\ spec'.deleting = spec.deleting
                  \/ Applied /\ spec'.want = spec.want
<1>1. /\ UNCHANGED <<sts, objectVars, pc, snap, mem, shards, shard, todo, cur>>
      /\ fresh' = FALSE
  BY Zenon
  DEF User, ChangeLayout, ChangeTemplate, SetPaused, DeleteInstallation, UserWrites
<1>2. /\ \A w : /\ [spec EXCEPT !.want = w].want = w
                /\ [spec EXCEPT !.want = w].deleting = spec.deleting
                /\ [spec EXCEPT !.want = w].exists = spec.exists
                /\ [spec EXCEPT !.want = w].finalizer = spec.finalizer
      /\ \A t : /\ [spec EXCEPT !.template = t].want = spec.want
                /\ [spec EXCEPT !.template = t].deleting = spec.deleting
                /\ [spec EXCEPT !.template = t].exists = spec.exists
                /\ [spec EXCEPT !.template = t].finalizer = spec.finalizer
      /\ \A b : /\ [spec EXCEPT !.paused = b].want = spec.want
                /\ [spec EXCEPT !.paused = b].deleting = spec.deleting
                /\ [spec EXCEPT !.paused = b].exists = spec.exists
                /\ [spec EXCEPT !.paused = b].finalizer = spec.finalizer
      /\ [spec EXCEPT !.deleting = TRUE].want = spec.want
      /\ [spec EXCEPT !.deleting = TRUE].exists = spec.exists
      /\ [spec EXCEPT !.deleting = TRUE].finalizer = spec.finalizer
  BY DEF TypeInv, ObjectTypeOK, InstallationSpec
<1>3. \/ spec' = NoSpec
      \/ status' = status /\ \E w \in Layouts : Applied /\ spec' = [spec EXCEPT !.want = w]
      \/ status' = status /\ \E t : spec' = [spec EXCEPT !.template = t]
      \/ status' = status /\ \E b : spec' = [spec EXCEPT !.paused = b]
      \/ status' = status /\ Applied /\ spec' = [spec EXCEPT !.deleting = TRUE]
  BY Zenon
  DEF User, ChangeLayout, ChangeTemplate, SetPaused, DeleteInstallation, UserWrites
<1>4. CASE spec' = NoSpec
  BY <1>1, <1>4
<1>5. CASE status' = status /\ \E w \in Layouts : Applied /\ spec' = [spec EXCEPT !.want = w]
  <2>1. PICK w \in Layouts : Applied /\ spec' = [spec EXCEPT !.want = w]
    BY <1>5
  <2>2. /\ spec'.want = w /\ spec'.deleting = spec.deleting
        /\ spec'.exists = spec.exists /\ spec'.finalizer = spec.finalizer
    BY <1>2, <2>1
  <2> QED BY <1>1, <1>5, <2>1, <2>2
<1>6. CASE status' = status /\ \E t : spec' = [spec EXCEPT !.template = t]
  BY <1>1, <1>2, <1>6
<1>7. CASE status' = status /\ \E b : spec' = [spec EXCEPT !.paused = b]
  BY <1>1, <1>2, <1>7
<1>8. CASE status' = status /\ Applied /\ spec' = [spec EXCEPT !.deleting = TRUE]
  BY <1>1, <1>2, <1>8
<1> QED BY <1>3, <1>4, <1>5, <1>6, <1>7, <1>8

(* What the operator does to the spec.                                     *)
LEMMA SpecStep ==
  ASSUME CurrentInv, Next, ~User
  PROVE  \/ spec' = NoSpec
         \/ /\ spec'.want = spec.want /\ spec'.deleting = spec.deleting
            /\ spec'.exists = spec.exists
            /\ UpdateInstallation \/ UNCHANGED spec
<1>1. CASE UpdateInstallation
  BY <1>1 DEF UpdateInstallation, CurrentInv, FreshInv
<1>2. CASE RemoveFinalizer
  BY <1>2 DEF RemoveFinalizer
<1>3. CASE UNCHANGED spec
  BY <1>3
<1>4. CASE SyncReplicas \/ DeleteReplicas
  BY <1>3, <1>4, Zenon
  DEF SyncReplicas, SyncShard, SyncReplica, SkipStatefulSet, CreateStatefulSet,
      KeepStatefulSet, UpdateStatefulSet, SyncServiceForReplica, CreateTablesForReplica,
      CreateTablesFails, FindExtraReplicas, DeleteReplicas, DeleteShard, SkipReplica,
      DeleteTables, DeleteStatefulSet, DeletePVC, DeleteConfigMap,
      DeleteServiceForReplica, StatusAfterDelete
<1>5. CASE Pass /\ ~SyncReplicas /\ ~DeleteReplicas /\ ~UpdateInstallation
                /\ ~RemoveFinalizer
  BY <1>3, <1>5, Zenon
  DEF Pass, Reconcile, SyncServiceForInstallation, SyncConfigMaps, ApplyConfiguration,
      UpdateStatus, Conflict, DeleteConfigMaps, DeleteServiceForInstallation,
      StatusTerminated
<1>6. CASE Fault \/ Pods \/ Informers \/ CollectGarbage \/ Rest
  BY <1>3, <1>6, Zenon
  DEF Fault, Pods, PodReady, PodReplaced, PodLost, Informers, InformerInstallation,
      InformerStatefulSet, CollectGarbage, Rest, vars
<1> QED BY <1>1, <1>2, <1>4, <1>5, <1>6 DEF Next

(* What the operator does to the status.                                   *)
LEMMA StatusStep ==
  ASSUME Next, status' # status, spec' # NoSpec
  PROVE  /\ StatusAfterDelete \/ UpdateStatus \/ StatusTerminated
         /\ fresh /\ status' = mem
<1>1. CASE StatusAfterDelete \/ UpdateStatus \/ StatusTerminated
  <2>1. UpdateInstallationStatus(mem)
    BY <1>1 DEF StatusAfterDelete, UpdateStatus, StatusTerminated
  <2> QED BY <1>1, <2>1, Zenon DEF UpdateInstallationStatus
<1>2. CASE SyncReplicas \/ DeleteReplicas
  BY <1>1, <1>2, Zenon
  DEF SyncReplicas, SyncShard, SyncReplica, SkipStatefulSet, CreateStatefulSet,
      KeepStatefulSet, UpdateStatefulSet, SyncServiceForReplica, CreateTablesForReplica,
      CreateTablesFails, FindExtraReplicas, DeleteReplicas, DeleteShard, SkipReplica,
      DeleteTables, DeleteStatefulSet, DeletePVC, DeleteConfigMap,
      DeleteServiceForReplica
<1>3. CASE Pass /\ ~SyncReplicas /\ ~DeleteReplicas
  BY <1>1, <1>3, Zenon
  DEF Pass, Reconcile, SyncServiceForInstallation, SyncConfigMaps, ApplyConfiguration,
      UpdateInstallation, Conflict, DeleteConfigMaps, DeleteServiceForInstallation,
      RemoveFinalizer
<1>4. CASE ~Pass
  BY <1>4, Zenon
  DEF Next, Fault, User, ChangeLayout, ChangeTemplate, SetPaused, DeleteInstallation,
      UserWrites, Pods, PodReady, PodReplaced, PodLost, Informers, InformerInstallation,
      InformerStatefulSet, CollectGarbage, Rest, vars
<1> QED BY <1>1, <1>2, <1>3, <1>4

(* Without lag a pass starts from what is stored.                          *)
LEMMA PassStart ==
  ASSUME ~CacheLag, TypeInv, CurrentInv, LagInv, Reconcile, ~UNCHANGED passVars
  PROVE  /\ UNCHANGED <<spec, status, sts, objectVars>>
         /\ pc' = IF spec.deleting THEN "shards" ELSE "service"
         /\ snap'.want = spec.want /\ snap'.deleting = spec.deleting
         /\ snap'.paused = spec.paused
         /\ shards' = ShardsOf(spec.want)
         /\ mem'.prev = status.prev
         /\ ~spec.deleting => mem'.ready = 0
         /\ spec.exists
<1>1. diCache = [spec |-> spec, status |-> status]
  BY DEF LagInv, CurrentInv, CacheInv
<1>2. UNCHANGED <<spec, status, sts, objectVars>>
  BY Zenon DEF Reconcile
<1>3. /\ snap' = IF spec.deleting THEN spec ELSE [spec EXCEPT !.finalizer = TRUE]
      /\ mem' = IF spec.deleting THEN [status EXCEPT !.state = "Terminating"]
                ELSE StatusAtStart(status, spec.want)
      /\ shards' = ShardsOf(spec.want)
      /\ pc' = IF spec.deleting THEN "shards" ELSE "service"
      /\ spec.exists
  BY <1>1 DEF Reconcile, Goto
<1>4. spec \in InstallationSpec /\ status \in InstallationStatus
  BY DEF TypeInv, ObjectTypeOK
<1>5. /\ snap'.want = spec.want /\ snap'.deleting = spec.deleting
      /\ snap'.paused = spec.paused
  BY <1>3, <1>4 DEF InstallationSpec
<1>6. mem'.prev = status.prev /\ (~spec.deleting => mem'.ready = 0)
  BY <1>3, <1>4 DEF StatusAtStart, InstallationStatus
<1> QED BY <1>2, <1>3, <1>5, <1>6

(* PrevSpec in memory changes at the end of Sync only.                     *)
LEMMA PrevStep ==
  ASSUME TypeInv, Next, ~Reconcile, ~PassOver
  PROVE  \/ mem'.prev = mem.prev
         \/ ApplyConfiguration /\ mem'.prev = snap.want
<1>1. mem \in InstallationStatus
  BY DEF TypeInv, PassTypeOK
<1>2. CASE ApplyConfiguration
  <2>1. PICK st : mem' = [mem EXCEPT !.prev = snap.want, !.state = st]
    BY <1>2, Zenon DEF ApplyConfiguration
  <2> QED BY <1>1, <1>2, <2>1 DEF InstallationStatus
<1>3. CASE DeleteServiceForInstallation
  BY <1>1, <1>3 DEF DeleteServiceForInstallation, InstallationStatus
<1> QED BY <1>2, <1>3, MemFrame

----------------------------------------------------------------------------
(* What a pass works on *)

LayoutInv ==
  spec.exists => spec.want \in Layouts /\ status.prev \in Layouts \cup {{}}

(***************************************************************************)
(* A pass works on the stored spec. One that an edit has overtaken works   *)
(* on the spec before the edit, and that has been carried out: it is the   *)
(* PrevSpec of the status.                                                 *)
(***************************************************************************)
Overtaken == ~fresh /\ snap.want = status.prev /\ status.prev # spec.want /\ ~spec.deleting

SnapInv ==
  pc # "idle" /\ spec.exists =>
    /\ snap.want = spec.want \/ Overtaken
    /\ snap.deleting => spec.deleting

(* Until a pass is done with its shards, its PrevSpec is the stored one.   *)
PrevInv ==
  spec.exists =>
    /\ pc \notin {"idle", "update", "status"} => mem.prev = status.prev
    /\ pc \in {"update", "status"} => mem.prev = snap.want

PlanInv == LayoutInv /\ SnapInv /\ PrevInv

(* Each step preserves PlanInv.                                            *)
LEMMA PlanInvStep ==
  ASSUME PatientUser, ~CacheLag, TypeInv, CurrentInv, LoopInv, LagInv, PlanInv, Next
  PROVE  PlanInv'
<1> SUFFICES ASSUME spec'.exists PROVE PlanInv'
  BY DEF PlanInv, LayoutInv, SnapInv, PrevInv
<1>0. spec' # NoSpec
  BY DEF NoSpec
<1>1. CASE User
  <2>1. /\ UNCHANGED <<pc, snap, mem, status>> /\ ~fresh' /\ spec.exists
        /\ \/ spec'.want = spec.want /\ spec'.deleting = spec.deleting
           \/ Applied /\ spec'.want \in Layouts /\ spec'.deleting = spec.deleting
           \/ Applied /\ spec'.want = spec.want
    BY <1>0, <1>1, UserSteps
  <2>2. Applied => status.prev = spec.want /\ ~spec.deleting
    BY DEF Applied
  <2> QED BY <2>1, <2>2 DEF PlanInv, LayoutInv, SnapInv, PrevInv, Overtaken
<1>2. CASE ~User
  <2>0. /\ spec'.want = spec.want /\ spec'.deleting = spec.deleting
        /\ spec.exists
    BY <1>0, <1>2, SpecStep
  <2>1. CASE UNCHANGED <<passVars, status>>
    BY <2>0, <2>1
    DEF PlanInv, LayoutInv, SnapInv, PrevInv, Overtaken, passVars
  <2>2. CASE Reconcile
    <3>1. CASE UNCHANGED passVars
      BY <2>1, <2>2, <3>1 DEF Reconcile
    <3>2. CASE ~UNCHANGED passVars
      BY <2>0, <2>2, <3>2, PassStart DEF PlanInv, LayoutInv, SnapInv, PrevInv
    <3> QED BY <3>1, <3>2
  <2>3. CASE PassOver
    <3>1. pc' = "idle"
      BY <2>3 DEF PassOver
    <3>2. status'.prev \in Layouts \cup {{}}
      <4>1. CASE status' = status
        BY <2>0, <4>1 DEF PlanInv, LayoutInv
      <4>2. CASE status' # status
        <5>1. fresh /\ status' = mem
          BY <1>0, <4>2, StatusStep
        <5>2. snap.want = spec.want /\ pc # "idle"
          BY <5>1 DEF CurrentInv, FreshInv
        <5> QED BY <2>0, <5>1, <5>2 DEF PlanInv, LayoutInv, PrevInv
      <4> QED BY <4>1, <4>2
    <3> QED BY <2>0, <3>1, <3>2 DEF PlanInv, LayoutInv, SnapInv, PrevInv
  <2>4. CASE ~Reconcile /\ ~PassOver /\ ~UNCHANGED <<passVars, status>>
    <3>1. snap' = snap /\ (fresh' => fresh)
      BY <2>4, SnapWriters, FreshBefore
    <3>2. pc' # "idle" => pc # "idle"
      BY <2>4, IdlePasses
    <3>3. CASE status' # status
      <4>1. fresh /\ status' = mem /\ (StatusAfterDelete \/ StatusTerminated)
        BY <1>0, <2>4, <3>3, StatusStep DEF UpdateStatus
      <4>2. /\ pc \notin {"idle", "update", "status"}
            /\ pc' \notin {"idle", "update", "status"} /\ mem' = mem
        BY <4>1
        DEF StatusAfterDelete, StatusTerminated, AfterReplica, Goto
      <4>3. snap.want = spec.want
        BY <4>1 DEF CurrentInv, FreshInv
      <4> QED
        BY <2>0, <3>1, <4>1, <4>2, <4>3 DEF PlanInv, LayoutInv, SnapInv, PrevInv
    <3>4. CASE status' = status
      <4>1. SnapInv' /\ LayoutInv'
        BY <2>0, <3>1, <3>2, <3>4 DEF PlanInv, LayoutInv, SnapInv, Overtaken
      <4>2. PrevInv'
        <5>1. CASE ApplyConfiguration
          BY <2>4, <3>1, <5>1, PrevStep DEF PrevInv, PlanInv, ApplyConfiguration, Goto
        <5>2. CASE UpdateInstallation
          BY <2>0, <3>1, <3>4, <5>2 DEF PrevInv, PlanInv, UpdateInstallation, Goto
        <5>3. CASE ~ApplyConfiguration /\ ~UpdateInstallation
          <6>1. mem'.prev = mem.prev
            BY <2>4, <5>3, PrevStep
          <6>2. \/ pc' = pc
                \/ /\ pc \notin {"idle", "update", "status"}
                   /\ pc' \notin {"idle", "update", "status"}
            BY <2>4, <5>3, PassEnd
          <6> QED BY <2>0, <3>1, <3>4, <6>1, <6>2 DEF PrevInv, PlanInv
        <5> QED BY <5>1, <5>2, <5>3
      <4> QED BY <4>1, <4>2 DEF PlanInv
    <3> QED BY <3>3, <3>4
  <2> QED BY <2>1, <2>2, <2>3, <2>4
<1> QED BY <1>1, <1>2

(* PlanInv holds in every reachable state.                                 *)
LEMMA PlanInvHolds ==
  ASSUME PatientUser, ~CacheLag
  PROVE  Spec => []PlanInv
<1>1. Init => PlanInv
  <2> SUFFICES ASSUME Init PROVE PlanInv
    OBVIOUS
  <2>1. PICK w \in Layouts :
          spec = [exists |-> TRUE, deleting |-> FALSE, finalizer |-> FALSE,
                  paused |-> FALSE, want |-> w, template |-> InitialTemplate]
    BY Zenon DEF Init
  <2>2. spec.want \in Layouts
    BY <2>1
  <2>3. status = NoStatus /\ pc = "idle"
    BY DEF Init
  <2>4. status.prev = {}
    BY <2>3 DEF NoStatus
  <2> QED BY <2>2, <2>3, <2>4 DEF PlanInv, LayoutInv, SnapInv, PrevInv
<1>2. ASSUME PlanInv, UNCHANGED vars PROVE PlanInv'
  BY <1>2 DEF PlanInv, LayoutInv, SnapInv, PrevInv, Overtaken, vars, passVars
<1>3. TypeInv /\ CurrentInv /\ LoopInv /\ LagInv /\ PlanInv /\ [Next]_vars => PlanInv'
  BY <1>2, PlanInvStep
<1> QED
  BY <1>1, <1>3, TypeInvHolds, CurrentInvHolds, LoopInvHolds, LagInvHolds, PTL DEF Spec

----------------------------------------------------------------------------
(* Where a pass is *)

(* A pass keeps its entry for the cluster.                                 *)
LEMMA ClusterStep ==
  ASSUME TypeInv, Next, ~Reconcile, ~PassOver, mem.cluster
  PROVE  mem'.cluster
<1>0. mem \in InstallationStatus
  BY DEF TypeInv, PassTypeOK
<1>1. CASE UNCHANGED mem
  BY <1>1
<1>2. CASE \E s \in Shards : SyncShard(s)
  BY <1>0, <1>2 DEF SyncShard, InstallationStatus
<1>3. CASE KeepStatefulSet
  <2>1. PICK e : mem' = SetReplicaStatus(mem, cur, e)
    BY <1>3, Zenon DEF KeepStatefulSet
  <2> QED BY <1>0, <2>1 DEF SetReplicaStatus, InstallationStatus
<1>4. CASE UpdateStatefulSet
  <2>1. PICK e : mem' = SetReplicaStatus(CountUpdate(mem), cur, e)
    BY <1>4, Zenon DEF UpdateStatefulSet
  <2>2. CountUpdate(mem) \in InstallationStatus
    BY <1>0, CountUpdateType
  <2>3. CountUpdate(mem).cluster
    BY <1>0 DEF CountUpdate, InstallationStatus
  <2> QED BY <2>1, <2>2, <2>3 DEF SetReplicaStatus, InstallationStatus
<1>5. CASE CreateTablesForReplica
  BY <1>0, <1>5 DEF CreateTablesForReplica, InstallationStatus
<1>6. CASE DeleteStatefulSet
  <2>1. mem' = [mem EXCEPT !.rep = [mem.rep EXCEPT ![cur] = NoReplicaStatus],
                           !.deleted = mem.deleted + 1]
    BY <1>6, Zenon DEF DeleteStatefulSet, GiveUp
  <2> QED BY <1>0, <2>1 DEF InstallationStatus
<1>7. CASE ApplyConfiguration
  <2>1. PICK p, st : mem' = [mem EXCEPT !.prev = p, !.state = st]
    BY <1>7, Zenon DEF ApplyConfiguration
  <2> QED BY <1>0, <2>1 DEF InstallationStatus
<1>8. CASE DeleteServiceForInstallation
  BY <1>0, <1>8 DEF DeleteServiceForInstallation, InstallationStatus
<1>9. CASE /\ SyncReplicas \/ DeleteReplicas
           /\ ~(\E s \in Shards : SyncShard(s)) /\ ~KeepStatefulSet /\ ~UpdateStatefulSet
           /\ ~CreateTablesForReplica /\ ~DeleteStatefulSet
  BY <1>1, <1>9, Zenon
  DEF SyncReplicas, SyncReplica, SkipStatefulSet, CreateStatefulSet,
      SyncServiceForReplica, CreateTablesFails, FindExtraReplicas, DeleteReplicas,
      DeleteShard, SkipReplica, DeleteTables, DeletePVC, DeleteConfigMap,
      DeleteServiceForReplica, StatusAfterDelete, GiveUp
<1>10. CASE /\ Pass /\ ~SyncReplicas /\ ~DeleteReplicas /\ ~ApplyConfiguration
            /\ ~DeleteServiceForInstallation
  BY <1>1, <1>10, Zenon
  DEF Pass, SyncServiceForInstallation, SyncConfigMaps, UpdateInstallation, UpdateStatus,
      Conflict, DeleteConfigMaps, StatusTerminated, RemoveFinalizer, GiveUp
<1>11. CASE ~Pass
  BY <1>1, <1>11, Zenon
  DEF Next, Fault, GiveUp, User, ChangeLayout, ChangeTemplate, SetPaused,
      DeleteInstallation, UserWrites, Pods, PodReady, PodReplaced, PodLost, Informers,
      InformerInstallation, InformerStatefulSet, CollectGarbage, Rest, vars, passVars
<1> QED
  BY <1>2, <1>3, <1>4, <1>5, <1>6, <1>7, <1>8, <1>9, <1>10, <1>11
  DEF SyncReplicas, DeleteReplicas

(***************************************************************************)
(* A pass that scales in deletes replicas of PrevSpec, and it has an entry *)
(* for the cluster: the write to a nil map in deleteReplica is out of its  *)
(* reach, it takes the deletion of an installation to get there. That one  *)
(* deletes the replicas of the spec.                                       *)
(***************************************************************************)
CallInv ==
  /\ pc \in SyncLabels => shard \in Shards /\ mem.cluster
  /\ ~snap.deleting /\ pc \in DeleteLabels =>
       /\ mem.cluster /\ todo \subseteq mem.prev
       /\ pc # "delete" => cur \in mem.prev
  /\ snap.deleting /\ pc \in DeleteLabels =>
       /\ todo \subseteq snap.want
       /\ pc # "delete" => cur \in snap.want

(* Each step preserves CallInv.                                            *)
LEMMA CallInvStep ==
  ASSUME TypeInv, LoopInv, CallInv, Next
  PROVE  CallInv'
<1> USE DEF Goto
<1>0. mem \in InstallationStatus
  BY DEF TypeInv, PassTypeOK
<1>1. CASE UNCHANGED <<pc, snap, mem, shard, todo, cur>>
  BY <1>1, Zenon DEF CallInv
<1>2. CASE PassOver
  BY <1>2 DEF PassOver, CallInv, SyncLabels, DeleteLabels
<1>3. CASE Reconcile
  <2>1. pc' \in {"service", "shards"} \/ UNCHANGED passVars
    BY <1>3 DEF Reconcile
  <2> QED BY <1>1, <2>1 DEF CallInv, SyncLabels, DeleteLabels, passVars
<1>4. CASE \E s \in Shards : SyncShard(s)
  <2>1. PICK s \in Shards : SyncShard(s)
    BY <1>4
  <2>2. pc' = "replicas" /\ shard' = s /\ mem'.cluster
    BY <1>0, <2>1 DEF SyncShard, InstallationStatus
  <2> QED BY <2>2 DEF CallInv, SyncLabels, DeleteLabels
<1>5. CASE \E s \in Shards : DeleteShard(s)
  BY <1>5 DEF DeleteShard, CallInv, SyncLabels, DeleteLabels
<1>6. CASE /\ SyncReplicas /\ ~(\E s \in Shards : SyncShard(s)) /\ ~FindExtraReplicas
           /\ ~PassOver
  <2>1. /\ pc \in SyncLabels /\ pc' \in SyncLabels /\ shard' = shard
    BY <1>6
    DEF SyncReplicas, SyncReplica, SkipStatefulSet, CreateStatefulSet,
        KeepStatefulSet, UpdateStatefulSet, SyncServiceForReplica, CreateTablesForReplica,
        CreateTablesFails, GiveUp, SyncLabels
  <2>2. ~Reconcile
    BY <2>1 DEF Reconcile, SyncLabels
  <2>3. mem'.cluster
    BY <1>6, <2>1, <2>2, ClusterStep DEF CallInv
  <2> QED BY <2>1, <2>3 DEF CallInv, SyncLabels, DeleteLabels
<1>7. CASE FindExtraReplicas
  <2>1. /\ pc = "replicas" /\ pc' \in {"shards", "delete"} /\ mem' = mem
        /\ todo' = ExtraReplicas(mem.prev \cap shard, snap.want \cap shard)
    BY <1>7 DEF FindExtraReplicas
  <2>2. todo' \subseteq mem.prev
    BY <2>1 DEF ExtraReplicas
  <2>3. ~snap.deleting /\ snap' = snap
    BY <1>7, <2>1 DEF LoopInv, BranchInv, SyncLabels, FindExtraReplicas
  <2> QED BY <2>1, <2>2, <2>3 DEF CallInv, SyncLabels, DeleteLabels
<1>8. CASE \E r \in Replicas : SkipReplica(r) \/ DeleteTables(r)
  <2>1. PICK r \in Replicas : SkipReplica(r) \/ DeleteTables(r)
    BY <1>8
  <2>2. /\ pc = "delete" /\ r \in todo /\ todo' = todo \ {r}
        /\ UNCHANGED <<mem, snap, shard>>
        /\ pc' \in {"delete", "shards"} \/ (pc' = "deleteStatefulSet" /\ cur' = r)
    BY <2>1 DEF SkipReplica, DeleteTables, AfterReplica
  <2> QED BY <2>2 DEF CallInv, SyncLabels, DeleteLabels
<1>9. CASE DeleteStatefulSet /\ ~PassOver
  <2>1. /\ pc = "deleteStatefulSet" /\ pc' \in {"deletePVC", "deleteConfigMap"}
        /\ UNCHANGED <<snap, shard, todo, cur>>
    BY <1>9, Zenon DEF DeleteStatefulSet, GiveUp, AfterStatefulSet
  <2>2. ~Reconcile /\ Next
    BY <2>1 DEF Reconcile
  <2>3. mem.cluster => mem'.cluster
    BY <1>9, <2>2, ClusterStep
  <2>4. mem'.prev = mem.prev
    BY <1>9, <2>1, <2>2, PrevStep DEF ApplyConfiguration
  <2> QED BY <2>1, <2>3, <2>4 DEF CallInv, SyncLabels, DeleteLabels
<1>10. CASE DeletePVC \/ DeleteConfigMap \/ DeleteServiceForReplica \/ StatusAfterDelete
  <2>1. /\ pc \in DeleteLabels \ {"delete"} /\ UNCHANGED <<snap, mem, shard, todo>>
        /\ pc' \in {"shards", "delete"} \/ (pc' \in DeleteLabels /\ cur' = cur)
    BY <1>10 DEF DeletePVC, DeleteConfigMap, DeleteServiceForReplica, StatusAfterDelete,
                 AfterReplica, DeleteLabels
  <2> QED BY <2>1 DEF CallInv, SyncLabels, DeleteLabels
<1>11. CASE /\ Pass /\ ~SyncReplicas /\ ~DeleteReplicas /\ ~Reconcile /\ ~PassOver
  <2>1. pc' \notin SyncLabels \cup DeleteLabels
    BY <1>11
    DEF Pass, SyncServiceForInstallation, SyncConfigMaps, ApplyConfiguration,
        UpdateInstallation, UpdateStatus, Conflict, DeleteConfigMaps,
        DeleteServiceForInstallation, StatusTerminated, RemoveFinalizer, GiveUp,
        SyncLabels, DeleteLabels
  <2> QED BY <2>1 DEF CallInv
<1>12. CASE Fault
  BY <1>2, <1>12 DEF Fault, GiveUp
<1>13. CASE User \/ Pods \/ Informers \/ CollectGarbage \/ Rest
  BY <1>1, <1>13, Zenon
  DEF User, ChangeLayout, ChangeTemplate, SetPaused, DeleteInstallation, UserWrites,
      Pods, PodReady, PodReplaced, PodLost, Informers, InformerInstallation,
      InformerStatefulSet, CollectGarbage, Rest, vars, passVars
<1> QED
  BY <1>2, <1>3, <1>4, <1>5, <1>6, <1>7, <1>8, <1>9, <1>10, <1>11, <1>12, <1>13
  DEF Next, Pass, SyncReplicas, DeleteReplicas

(* CallInv holds in every reachable state.                                 *)
LEMMA CallInvHolds == Spec => []CallInv
<1>1. Init => CallInv
  BY DEF Init, CallInv, SyncLabels, DeleteLabels
<1>2. ASSUME CallInv, UNCHANGED vars PROVE CallInv'
  BY <1>2, Zenon DEF CallInv, vars, passVars
<1>3. TypeInv /\ LoopInv /\ CallInv /\ [Next]_vars => CallInv'
  BY <1>2, CallInvStep
<1> QED BY <1>1, <1>3, TypeInvHolds, LoopInvHolds, PTL DEF Spec

----------------------------------------------------------------------------
(* No StatefulSet is left over *)

(* Apart from the replicas that are wanted, those of PrevSpec are all that *)
(* there are.                                                              *)
OldInv ==
  spec.exists => \A r \in Replicas : sts[r].exists => r \in spec.want \cup status.prev

(* The replicas a pass that scales in has still to come to.                *)
ToDelete ==
  (UNION shards) \cup (IF pc \in SyncLabels THEN shard ELSE {})
                 \cup (IF pc \in DeleteLabels THEN todo ELSE {})
                 \cup (IF pc = "deleteStatefulSet" THEN {cur} ELSE {})

(* A pass that is still fresh comes to every replica there should not be.  *)
OutsideInv ==
  spec.exists /\ fresh /\ ~snap.deleting /\ pc # "idle" =>
    \A r \in Replicas \ snap.want : sts[r].exists => r \in ToDelete

ExtraInv == OldInv /\ OutsideInv

(* The extra replicas of a shard are those of PrevSpec that are not wanted.*)
LEMMA ExtraReplicasAreOld ==
  ASSUME NEW old \in SUBSET Replicas, NEW new \in SUBSET Replicas,
         old \subseteq new \/ new \subseteq old
  PROVE  ExtraReplicas(old, new) = old \ new
<1>1. CASE old \subseteq new
  <2>1. old \ new = {}
    BY <1>1
  <2> QED BY <2>1 DEF ExtraReplicas
<1>2. CASE new \subseteq old /\ new # old
  <2>1. IsFiniteSet(old) /\ Cardinality(old) \in Nat /\ Cardinality(new) \in Nat
    BY ReplicaSetsAreFinite
  <2>2. Cardinality(new) < Cardinality(old)
    BY <1>2, <2>1, FS_Subset
  <2> QED BY <2>1, <2>2 DEF ExtraReplicas
<1> QED BY <1>1, <1>2

(* Each step of a pass goes on coming to the replicas it should delete,    *)
(* unless it deletes one or finds it deleted.                              *)
LEMMA ToDeleteStep ==
  ASSUME ~CacheLag, NestedShards, TypeInv, LoopInv, LagInv, PlanInv, CallInv, OldInv,
         Next, ~Reconcile, ~PassOver,
         spec.exists, snap.want = spec.want, ~snap.deleting,
         NEW r \in Replicas \ snap.want, sts[r].exists, sts'[r].exists, r \in ToDelete
  PROVE  r \in ToDelete'
<1> USE DEF Goto
<1>1. CASE UNCHANGED <<pc, shards, shard, todo, cur>>
  BY <1>1 DEF ToDelete
<1>2. CASE \E s \in Shards : SyncShard(s)
  <2>1. PICK s \in Shards : SyncShard(s)
    BY <1>2
  <2>2. /\ pc = "shards" /\ pc' = "replicas" /\ s \in shards
        /\ shards' = shards \ {s} /\ shard' = s
    BY <2>1 DEF SyncShard
  <2>3. r \in UNION shards
    BY <2>2 DEF ToDelete, SyncLabels, DeleteLabels
  <2>4. r \in s \/ r \in UNION (shards \ {s})
    BY <2>3
  <2> QED BY <2>2, <2>4 DEF ToDelete, SyncLabels
<1>3. CASE FindExtraReplicas
  <2> DEFINE extra == ExtraReplicas(mem.prev \cap shard, snap.want \cap shard)
  <2>1. /\ pc = "replicas" /\ todo' = extra /\ shards' = shards
        /\ pc' = IF extra = {} THEN "shards" ELSE "delete"
    BY <1>3 DEF FindExtraReplicas
  <2>2. r \in shard \/ r \in UNION shards
    BY <2>1 DEF ToDelete, DeleteLabels
  <2>3. r \in mem.prev /\ mem.prev = status.prev
    BY <2>1 DEF OldInv, PlanInv, PrevInv
  <2>4. ASSUME r \in shard PROVE r \in extra
    <3>1. status.prev \in Layouts /\ snap.want \in Layouts
      BY <2>3 DEF PlanInv, LayoutInv
    <3>2. status.prev \in SUBSET Replicas /\ snap.want \in SUBSET Replicas
      BY <3>1, LayoutAssumption
    <3>3. \/ mem.prev \cap shard \subseteq snap.want \cap shard
          \/ snap.want \cap shard \subseteq mem.prev \cap shard
      BY <2>3, <3>1, <2>1 DEF NestedShards, CallInv, SyncLabels
    <3>4. extra = (mem.prev \cap shard) \ (snap.want \cap shard)
      BY <2>3, <3>2, <3>3, ExtraReplicasAreOld
    <3> QED BY <2>3, <2>4, <3>4
  <2> QED BY <2>1, <2>2, <2>4 DEF ToDelete, DeleteLabels
<1>4. CASE /\ SyncReplicas /\ ~(\E s \in Shards : SyncShard(s)) /\ ~FindExtraReplicas
  <2>1. pc \in SyncLabels /\ pc' \in SyncLabels /\ UNCHANGED <<shard, shards>>
    BY <1>4
    DEF SyncReplicas, SyncReplica, SkipStatefulSet, CreateStatefulSet,
        KeepStatefulSet, UpdateStatefulSet, SyncServiceForReplica, CreateTablesForReplica,
        CreateTablesFails, GiveUp, SyncLabels
  <2> QED BY <2>1 DEF ToDelete, SyncLabels, DeleteLabels
<1>5. CASE \E s \in Shards : DeleteShard(s)
  BY <1>5 DEF DeleteShard
<1>6. CASE \E x \in Replicas : SkipReplica(x)
  <2>1. PICK x \in Replicas : SkipReplica(x)
    BY <1>6
  <2>2. /\ pc = "delete" /\ x # r /\ todo' = todo \ {x} /\ shards' = shards
        /\ pc' = IF todo \ {x} = {} THEN "shards" ELSE "delete"
    BY <2>1 DEF SkipReplica, LagInv, AfterReplica
  <2> QED BY <2>2 DEF ToDelete, SyncLabels, DeleteLabels
<1>7. CASE \E x \in Replicas : DeleteTables(x)
  <2>1. PICK x \in Replicas : DeleteTables(x)
    BY <1>7
  <2>2. /\ pc = "delete" /\ pc' = "deleteStatefulSet" /\ cur' = x /\ todo' = todo \ {x}
        /\ shards' = shards
    BY <2>1 DEF DeleteTables
  <2> QED BY <2>2 DEF ToDelete, SyncLabels, DeleteLabels
<1>8. CASE DeleteStatefulSet
  <2>1. /\ pc = "deleteStatefulSet" /\ pc' \in {"deletePVC", "deleteConfigMap"}
        /\ UNCHANGED <<shards, todo>>
    BY <1>8, Zenon DEF DeleteStatefulSet, GiveUp, AfterStatefulSet
  <2>2. r # cur
    <3>1. SUFFICES ASSUME r = cur PROVE FALSE
      OBVIOUS
    <3>2. stsCache = sts /\ sts \in [Replicas -> StatefulSet]
      BY DEF LagInv, TypeInv, ObjectTypeOK
    <3>3. sts' = [sts EXCEPT ![cur] = NoStatefulSet]
      BY <1>8, <3>1, <3>2 DEF DeleteStatefulSet
    <3>4. sts'[r] = NoStatefulSet
      BY <3>1, <3>2, <3>3
    <3> QED BY <3>4 DEF NoStatefulSet
  <2> QED BY <2>1, <2>2 DEF ToDelete, SyncLabels, DeleteLabels
<1>9. CASE DeletePVC \/ DeleteConfigMap \/ DeleteServiceForReplica \/ StatusAfterDelete
  <2>1. /\ pc \in DeleteLabels \ {"delete", "deleteStatefulSet"}
        /\ UNCHANGED <<shards, todo>>
        /\ pc' = (IF todo = {} THEN "shards" ELSE "delete") \/ pc' \in DeleteLabels
    BY <1>9 DEF DeletePVC, DeleteConfigMap, DeleteServiceForReplica, StatusAfterDelete,
                AfterReplica, DeleteLabels
  <2> QED BY <2>1 DEF ToDelete, SyncLabels, DeleteLabels
<1>10. CASE Pass /\ ~SyncReplicas /\ ~DeleteReplicas
  <2>1. /\ pc \notin SyncLabels \cup DeleteLabels /\ shards' = shards
    BY <1>10
    DEF Pass, SyncServiceForInstallation, SyncConfigMaps, ApplyConfiguration,
        UpdateInstallation, UpdateStatus, Conflict, DeleteConfigMaps,
        DeleteServiceForInstallation, StatusTerminated, RemoveFinalizer, GiveUp,
        SyncLabels, DeleteLabels
  <2> QED BY <2>1 DEF ToDelete, DeleteLabels
<1>11. CASE ~Pass
  BY <1>1, <1>11, Zenon
  DEF Next, Fault, GiveUp, User, ChangeLayout, ChangeTemplate, SetPaused,
      DeleteInstallation, UserWrites, Pods, PodReady, PodReplaced, PodLost, Informers,
      InformerInstallation, InformerStatefulSet, CollectGarbage, Rest, vars, passVars
<1> QED
  BY <1>2, <1>3, <1>4, <1>5, <1>6, <1>7, <1>8, <1>9, <1>10, <1>11
  DEF DeleteReplicas

(* At the start of a pass every replica there should not be is in one of   *)
(* the shards it visits.                                                   *)
LEMMA ToDeleteStart ==
  ASSUME ~CacheLag, SteadyShards, TypeInv, CurrentInv, LagInv, PlanInv, OldInv,
         Reconcile, ~UNCHANGED passVars,
         NEW r \in Replicas \ spec.want, sts[r].exists
  PROVE  r \in ToDelete'
<1>1. spec.exists /\ shards' = ShardsOf(spec.want)
  BY PassStart
<1>2. r \in status.prev /\ status.prev \in Layouts /\ spec.want \in Layouts
  BY <1>1 DEF OldInv, PlanInv, LayoutInv
<1>3. PICK s \in Shards : r \in s
  BY LayoutAssumption
<1>4. spec.want \cap s # {}
  BY <1>2, <1>3 DEF SteadyShards
<1>5. s \in ShardsOf(spec.want)
  BY <1>4 DEF ShardsOf
<1> QED BY <1>1, <1>3, <1>5 DEF ToDelete

(* Each step preserves ExtraInv.                                           *)
LEMMA ExtraInvStep ==
  ASSUME PatientUser, ~CacheLag, NestedShards, SteadyShards,
         TypeInv, CurrentInv, LoopInv, LagInv, FinishedInv, PlanInv, CallInv, ExtraInv, Next
  PROVE  ExtraInv'
<1>0. ~NoSpec.exists
  BY DEF NoSpec
<1>1. ASSUME spec'.exists, NEW r \in Replicas, sts'[r].exists
      PROVE  r \in spec'.want \cup status'.prev
  <2>1. CASE User
    <3>1. /\ sts' = sts /\ status' = status /\ spec.exists
          /\ spec'.want = spec.want \/ Applied
      BY <1>0, <1>1, <2>1, UserSteps
    <3>2. r \in spec.want \cup status.prev
      BY <1>1, <3>1 DEF ExtraInv, OldInv
    <3> QED BY <3>1, <3>2 DEF Applied
  <2>2. CASE ~User
    <3>1. spec'.want = spec.want /\ spec.exists /\ spec' # NoSpec
      BY <1>0, <1>1, <2>2, SpecStep
    <3>2. CASE ~sts[r].exists
      <4>1. CreateStatefulSet
        BY <1>1, <3>2, ReplicaCreators
      <4>2. r = cur /\ pc = "statefulSet"
        <5>1. sts \in [Replicas -> StatefulSet] /\ pc = "statefulSet"
          BY <4>1 DEF TypeInv, ObjectTypeOK, CreateStatefulSet
        <5>2. PICK e : sts' = sts \/ sts' = [sts EXCEPT ![cur] = e]
          BY <4>1, Zenon DEF CreateStatefulSet
        <5> QED BY <1>1, <3>2, <5>1, <5>2
      <4>3. r \in snap.want
        BY <4>2 DEF LoopInv, SyncLoopInv, SyncLabels
      <4>4. snap.want = spec.want \/ snap.want = status.prev
        BY <3>1, <4>2 DEF PlanInv, SnapInv, Overtaken
      <4>5. status' = status
        BY <4>1, Zenon DEF CreateStatefulSet
      <4> QED BY <3>1, <4>3, <4>4, <4>5
    <3>3. CASE sts[r].exists
      <4>1. r \in spec.want \cup status.prev
        BY <3>1, <3>3 DEF ExtraInv, OldInv
      <4>2. CASE status' = status
        BY <3>1, <4>1, <4>2
      <4>3. CASE status' # status
        <5>1. /\ StatusAfterDelete \/ UpdateStatus \/ StatusTerminated
              /\ fresh /\ status' = mem
          BY <3>1, <4>3, StatusStep
        <5>2. snap.want = spec.want
          BY <5>1 DEF CurrentInv, FreshInv
        <5>3. CASE UpdateStatus
          <6>1. pc = "status" /\ mem.prev = snap.want
            BY <3>1, <5>3 DEF UpdateStatus, PlanInv, PrevInv
          <6>2. ~snap.deleting /\ shards = {}
            BY <6>1 DEF LoopInv, BranchInv, FinishedInv
          <6>3. ToDelete = {}
            BY <6>1, <6>2 DEF ToDelete, SyncLabels, DeleteLabels
          <6> QED BY <3>1, <3>3, <5>1, <5>2, <6>1, <6>2, <6>3 DEF ExtraInv, OutsideInv
        <5>4. CASE StatusAfterDelete \/ StatusTerminated
          <6>1. mem.prev = status.prev
            BY <3>1, <5>4 DEF StatusAfterDelete, StatusTerminated, PlanInv, PrevInv
          <6> QED BY <3>1, <4>1, <5>1, <6>1
        <5> QED BY <5>1, <5>3, <5>4
      <4> QED BY <4>2, <4>3
    <3> QED BY <3>2, <3>3
  <2> QED BY <2>1, <2>2
<1>2. ASSUME spec'.exists, fresh', ~snap'.deleting, pc' # "idle",
             NEW r \in Replicas \ snap'.want, sts'[r].exists
      PROVE  r \in ToDelete'
  <2>1. ~PassOver /\ ~User
    BY <1>2, Zenon
    DEF PassOver, User, ChangeLayout, ChangeTemplate, SetPaused, DeleteInstallation,
        UserWrites
  <2>2. CASE Reconcile
    <3>1. ~UNCHANGED passVars
      BY <1>2, <2>2 DEF Reconcile, passVars
    <3>2. snap'.want = spec.want /\ sts' = sts
      BY <2>2, <3>1, PassStart
    <3> QED BY <1>2, <2>2, <3>1, <3>2, ToDeleteStart DEF ExtraInv
  <2>3. CASE ~Reconcile
    <3>1. fresh /\ snap' = snap /\ pc # "idle"
      BY <1>2, <2>1, <2>3, FreshBefore, SnapWriters, IdlePasses
    <3>2. spec.exists /\ snap.want = spec.want
      BY <3>1 DEF CurrentInv, FreshInv
    <3>3. sts[r].exists
      BY <1>2, <2>1, ReplicaCreators DEF CreateStatefulSet, GiveUp
    <3>4. r \in ToDelete
      BY <1>2, <3>1, <3>2, <3>3 DEF ExtraInv, OutsideInv
    <3> QED BY <1>2, <2>1, <2>3, <3>1, <3>2, <3>3, <3>4, ToDeleteStep DEF ExtraInv
  <2> QED BY <2>2, <2>3
<1> QED BY <1>1, <1>2 DEF ExtraInv, OldInv, OutsideInv

(* ExtraInv holds in every reachable state.                                *)
LEMMA ExtraInvHolds ==
  ASSUME PatientUser, ~CacheLag, NestedShards, SteadyShards
  PROVE  Spec => []ExtraInv
<1>1. Init => ExtraInv
  BY DEF Init, ExtraInv, OldInv, OutsideInv, NoStatefulSet
<1>2. ASSUME ExtraInv, UNCHANGED vars PROVE ExtraInv'
  BY <1>2 DEF ExtraInv, OldInv, OutsideInv, ToDelete, vars, passVars
<1>3. /\ TypeInv /\ CurrentInv /\ LoopInv /\ LagInv /\ FinishedInv /\ PlanInv /\ CallInv
      /\ ExtraInv /\ [Next]_vars
      => ExtraInv'
  BY <1>2, ExtraInvStep
<1>4. Spec => []PlanInv
  BY PlanInvHolds
<1> QED
  BY <1>1, <1>3, <1>4, TypeInvHolds, CurrentInvHolds, LoopInvHolds, LagInvHolds,
     FinishedInvHolds, CallInvHolds, PTL DEF Spec

(***************************************************************************)
(* A finished scale-in leaves no StatefulSet of a replica that is not      *)
(* wanted any more, whatever fails on the way and however often a pass has *)
(* to start again: PrevSpec does not move before every shard is done. It   *)
(* needs a user who waits, caches that do not lag, shards that grow and    *)
(* shrink at one end, and none that comes or goes.                         *)
(***************************************************************************)
THEOREM ExtraAreDeleted ==
  ASSUME PatientUser, ~CacheLag, NestedShards, SteadyShards
  PROVE  Spec => []ExtraReplicasAreDeleted
<1>1. ExtraInv /\ SettledIsCarriedOut => ExtraReplicasAreDeleted
  BY DEF ExtraInv, OldInv, SettledIsCarriedOut, CarriedOut, ExtraReplicasAreDeleted,
         Finished
<1>2. Spec => []ExtraInv
  BY ExtraInvHolds
<1> QED BY <1>1, <1>2, SettledCarriedOut, PTL

----------------------------------------------------------------------------
(* A replica goes with everything it consists of *)

(* A paused pass counts no replica: it looks at none.                      *)
PausedInv ==
  ~snap.deleting /\ snap.paused /\ pc \notin {"idle", "update", "status"} =>
    mem.ready = 0 /\ \A r \in Replicas : ~NeedsTables(mem.rep[r])

(* Each step preserves PausedInv.                                          *)
LEMMA PausedInvStep ==
  ASSUME TypeInv, LoopInv, ReadyInv, PausedInv, Next
  PROVE  PausedInv'
<1> SUFFICES ASSUME ~snap'.deleting, snap'.paused, pc' \notin {"idle", "update", "status"}
             PROVE  mem'.ready = 0 /\ \A r \in Replicas : ~NeedsTables(mem'.rep[r])
  BY DEF PausedInv
<1>1. CASE PassOver
  BY <1>1 DEF PassOver
<1>2. CASE Reconcile /\ UNCHANGED passVars
  BY <1>2 DEF passVars, Reconcile
<1>3. CASE Reconcile /\ ~UNCHANGED passVars
  <2> DEFINE di == diCache.spec
  <2>1. /\ snap' = IF di.deleting THEN di ELSE [di EXCEPT !.finalizer = TRUE]
        /\ mem' = IF di.deleting THEN [diCache.status EXCEPT !.state = "Terminating"]
                  ELSE StatusAtStart(diCache.status, di.want)
    BY <1>3 DEF Reconcile
  <2>2. di \in InstallationSpec /\ diCache.status \in InstallationStatus
    BY DEF TypeInv, CacheTypeOK
  <2>3. ~di.deleting
    BY <2>1, <2>2 DEF InstallationSpec
  <2>4. mem'.ready = 0 /\ mem'.rep = diCache.status.rep
    BY <2>1, <2>2, <2>3 DEF StatusAtStart, InstallationStatus
  <2> QED BY <2>4 DEF ReadyInv
<1>4. CASE ~PassOver /\ ~Reconcile
  <2>1. snap' = snap
    BY <1>4, SnapWriters
  <2>2. ~KeepStatefulSet /\ ~UpdateStatefulSet
    BY <2>1 DEF KeepStatefulSet, UpdateStatefulSet
  <2>3. pc \notin {"idle", "update", "status"}
    BY <1>4, PassEnd DEF ApplyConfiguration, UpdateInstallation, Goto
  <2>4. mem.ready = 0 /\ \A r \in Replicas : ~NeedsTables(mem.rep[r])
    BY <2>1, <2>3 DEF PausedInv
  <2>5. ~CreateTablesForReplica
    <3>1. pc = "createTables" => cur \in Replicas /\ NeedsTables(mem.rep[cur])
      BY DEF LoopInv, SyncLoopInv, TypeInv, PassTypeOK, ReplicaLabels
    <3> QED BY <2>4, <3>1 DEF CreateTablesForReplica
  <2>6. mem'.ready = 0
    BY <1>4, <2>2, <2>4, <2>5, MemFrame
  <2>7. ASSUME NEW r \in Replicas PROVE ~NeedsTables(mem'.rep[r])
    <3>1. CASE mem'.rep = mem.rep
      BY <2>4, <3>1
    <3>2. CASE DeleteStatefulSet
      <4>1. pc' \notin {"replicaService", "createTables"}
        BY <1>4, <3>2, Zenon DEF DeleteStatefulSet, GiveUp, AfterStatefulSet, Goto
      <4> QED BY <4>1, OwedStep
    <3>3. CASE SyncServiceForReplica
      BY <3>1, <3>3 DEF SyncServiceForReplica
    <3> QED BY <1>4, <2>2, <2>5, <3>1, <3>2, <3>3, EntryWriters
  <2> QED BY <2>6, <2>7
<1> QED BY <1>1, <1>2, <1>3, <1>4

(* PausedInv holds in every reachable state.                               *)
LEMMA PausedInvHolds == Spec => []PausedInv
<1>1. Init => PausedInv
  BY DEF Init, PausedInv
<1>2. ASSUME PausedInv, UNCHANGED vars PROVE PausedInv'
  BY <1>2 DEF PausedInv, vars, passVars
<1>3. TypeInv /\ LoopInv /\ ReadyInv /\ PausedInv /\ [Next]_vars => PausedInv'
  BY <1>2, PausedInvStep
<1> QED BY <1>1, <1>3, TypeInvHolds, LoopInvHolds, ReadyInvHolds, PTL DEF Spec

(***************************************************************************)
(* When the status says Completed for the stored spec, each replica has a  *)
(* StatefulSet. It says so of replicas the pass has looked at, and nobody  *)
(* takes the StatefulSet of a wanted replica away.                         *)
(***************************************************************************)
AllThere(sets, R) == \A r \in R : sets[r].exists

ThereInv ==
  spec.exists /\ ~spec.deleting =>
    /\ status.state = "Completed" /\ status.prev = spec.want => AllThere(sts, spec.want)
    /\ ~snap.deleting /\ ~snap.paused /\ pc \notin {"idle", "update", "status"} =>
         AllThere(sts, snap.want \ Left)
    /\ pc \in {"update", "status"} /\ mem.state = "Completed" => AllThere(sts, snap.want)
    /\ pc # "idle" /\ snap.want # spec.want => AllThere(sts, snap.want)

(* Nobody takes a StatefulSet that a pass, or the user, wants.             *)
LEMMA WantedStay ==
  ASSUME TypeInv, LoopInv, PlanInv, Next, spec.exists, ~spec.deleting,
         NEW r \in Replicas, sts[r].exists,
         pc # "idle" => r \in snap.want \/ (r \in spec.want /\ status.prev = spec.want)
  PROVE  sts'[r].exists
<1> SUFFICES ASSUME ~sts'[r].exists PROVE FALSE
  OBVIOUS
<1>1. pc \in DeleteLabels \ {"delete"} /\ cur = r
  BY ReplicaRemovers
<1>2. pc # "idle"
  BY <1>1 DEF DeleteLabels
<1>3. ~snap.deleting /\ (snap.want = spec.want \/ status.prev # spec.want)
  BY <1>2 DEF PlanInv, SnapInv, Overtaken
<1>4. r \in snap.want
  BY <1>2, <1>3
<1> QED BY <1>1, <1>3, <1>4 DEF LoopInv, DeleteLoopInv

(* The state a pass ends with.                                             *)
LEMMA StateStep ==
  ASSUME TypeInv, ApplyConfiguration
  PROVE  mem'.state = IF IsReady(mem) THEN "Completed" ELSE mem.state
<1>1. mem \in InstallationStatus
  BY DEF TypeInv, PassTypeOK
<1>2. mem' = [mem EXCEPT !.prev = snap.want,
                         !.state = IF IsReady(mem) THEN "Completed" ELSE mem.state]
  BY Zenon DEF ApplyConfiguration
<1> QED BY <1>1, <1>2 DEF InstallationStatus

(* Each step preserves ThereInv.                                           *)
LEMMA ThereInvStep ==
  ASSUME PatientUser, ~CacheLag,
         TypeInv, CurrentInv, LoopInv, LagInv, FinishedInv, BuildInv, PausedInv, PlanInv,
         ThereInv, Next
  PROVE  ThereInv'
<1> SUFFICES ASSUME spec'.exists, ~spec'.deleting PROVE ThereInv'
  BY DEF ThereInv
<1>0. spec' # NoSpec
  BY DEF NoSpec
<1>w. spec.want \subseteq Replicas /\ snap.want \subseteq Replicas
  BY DEF TypeInv, ObjectTypeOK, PassTypeOK, InstallationSpec
<1>1. CASE User
  <2>1. /\ UNCHANGED <<sts, pc, snap, mem, status>> /\ spec.exists
        /\ UNCHANGED <<shards, todo, cur>>
        /\ spec'.want = spec.want \/ Applied
        /\ spec'.deleting = spec.deleting \/ Applied
    BY <1>0, <1>1, UserSteps
  <2>2. ~spec.deleting /\ (Applied => status.prev = spec.want /\ AllThere(sts, spec.want))
    BY <2>1 DEF Applied, ThereInv
  <2>3. Left' = Left /\ \A R : AllThere(sts', R) <=> AllThere(sts, R)
    BY <2>1 DEF Left, AllThere
  <2>4. Applied => pc = "idle" \/ snap.want = spec.want
    BY <2>1, <2>2 DEF PlanInv, SnapInv, Overtaken
  <2>5. /\ status.state = "Completed" /\ status.prev = spec.want => AllThere(sts, spec.want)
        /\ ~snap.deleting /\ ~snap.paused /\ pc \notin {"idle", "update", "status"} =>
             AllThere(sts, snap.want \ Left)
        /\ pc \in {"update", "status"} /\ mem.state = "Completed" => AllThere(sts, snap.want)
        /\ pc # "idle" /\ snap.want # spec.want => AllThere(sts, snap.want)
    BY <2>1, <2>2 DEF ThereInv
  <2>6. status'.state = "Completed" /\ status'.prev = spec'.want => AllThere(sts', spec'.want)
    BY <2>1, <2>2, <2>5 DEF AllThere
  <2>7. pc' # "idle" /\ snap'.want # spec'.want => AllThere(sts', snap'.want)
    BY <2>1, <2>2, <2>4, <2>5 DEF AllThere
  <2> QED BY <2>1, <2>3, <2>5, <2>6, <2>7 DEF ThereInv, AllThere
<1>2. CASE ~User
  <2>0. /\ spec'.want = spec.want /\ spec'.deleting = spec.deleting
        /\ spec.exists /\ ~spec.deleting
    BY <1>0, <1>2, SpecStep
  <2>a. /\ status.state = "Completed" /\ status.prev = spec.want => AllThere(sts, spec.want)
        /\ ~snap.deleting /\ ~snap.paused /\ pc \notin {"idle", "update", "status"} =>
             AllThere(sts, snap.want \ Left)
        /\ pc \in {"update", "status"} /\ mem.state = "Completed" => AllThere(sts, snap.want)
        /\ pc # "idle" /\ snap.want # spec.want => AllThere(sts, snap.want)
    BY <2>0 DEF ThereInv
  <2>s. pc # "idle" => ~snap.deleting
    BY <2>0 DEF PlanInv, SnapInv
  <2>k. ASSUME NEW R \in SUBSET snap.want, AllThere(sts, R), pc # "idle"
        PROVE  AllThere(sts', R)
    BY <1>w, <2>0, <2>k, WantedStay DEF AllThere
  <2>1. status'.state = "Completed" /\ status'.prev = spec'.want => AllThere(sts', spec'.want)
    <3>1. CASE status' = status
      <4>1. status.prev = spec.want /\ AllThere(sts, spec.want) => AllThere(sts', spec.want)
        BY <1>w, <2>0, WantedStay DEF AllThere
      <4> QED BY <2>0, <2>a, <3>1, <4>1 DEF AllThere
    <3>2. CASE status' # status
      <4>1. /\ StatusAfterDelete \/ UpdateStatus \/ StatusTerminated
            /\ fresh /\ status' = mem
        BY <1>0, <3>2, StatusStep
      <4>2. snap.want = spec.want /\ sts' = sts
        BY <4>1 DEF CurrentInv, FreshInv, StatusAfterDelete, UpdateStatus, StatusTerminated
      <4>3. CASE StatusAfterDelete
        <5>1. mem.state = "InProgress"
          BY <2>s, <4>3 DEF StatusAfterDelete, BuildInv, CountInv
        <5> QED BY <4>1, <5>1
      <4>4. CASE UpdateStatus
        <5>1. mem.state = "Completed" => AllThere(sts, snap.want)
          BY <2>a, <4>4 DEF UpdateStatus
        <5> QED BY <2>0, <4>1, <4>2, <5>1 DEF AllThere
      <4>5. CASE StatusTerminated
        BY <2>s, <4>5 DEF StatusTerminated, LoopInv, BranchInv
      <4> QED BY <4>1, <4>3, <4>4, <4>5
    <3> QED BY <3>1, <3>2
  <2>2. CASE PassOver
    <3>1. pc' = "idle"
      BY <2>2 DEF PassOver
    <3> QED BY <2>1, <3>1 DEF ThereInv
  <2>3. CASE Reconcile /\ UNCHANGED passVars
    <3>1. pc' = "idle"
      BY <2>3 DEF Reconcile, passVars
    <3> QED BY <2>1, <3>1 DEF ThereInv
  <2>4. CASE Reconcile /\ ~UNCHANGED passVars
    <3>1. /\ pc' \notin {"update", "status"} /\ snap'.want = spec.want
          /\ shards' = ShardsOf(spec.want)
      BY <2>4, PassStart
    <3>2. \A x \in spec.want : x \in UNION ShardsOf(spec.want)
      BY <1>w, LayoutAssumption DEF ShardsOf
    <3>3. snap'.want \ Left' = {}
      BY <3>1, <3>2 DEF Left
    <3>4. AllThere(sts', snap'.want \ Left')
      BY <3>3 DEF AllThere
    <3> QED BY <2>0, <2>1, <3>1, <3>4 DEF ThereInv, AllThere
  <2>5. CASE ~PassOver /\ ~Reconcile
    <3>0. snap' = snap /\ (pc' # "idle" => pc # "idle")
      BY <2>5, SnapWriters, IdlePasses
    <3>1. pc' # "idle" /\ snap'.want # spec'.want => AllThere(sts', snap'.want)
      <4>1. pc # "idle" /\ snap.want # spec.want => AllThere(sts', snap.want)
        BY <2>a, <2>k
      <4> QED BY <2>0, <3>0, <4>1 DEF AllThere
    <3>2. ASSUME ~snap'.deleting, ~snap'.paused, pc' \notin {"idle", "update", "status"}
          PROVE  AllThere(sts', snap'.want \ Left')
      <4>1. pc \notin {"idle", "update", "status"}
        BY <2>5, <3>2, PassEnd DEF ApplyConfiguration, UpdateInstallation, Goto
      <4>2. AllThere(sts, snap.want \ Left)
        BY <2>a, <3>0, <3>2, <4>1
      <4>3. ASSUME NEW r \in snap.want \ Left' PROVE sts[r].exists
        <5>1. CASE r \in Left
          <6>1. (KeepStatefulSet \/ UpdateStatefulSet) /\ r = cur
            BY <2>5, <3>0, <3>2, <4>3, <5>1, VisitStep
          <6> QED BY <6>1 DEF KeepStatefulSet, UpdateStatefulSet, LagInv
        <5>2. CASE r \notin Left
          BY <4>2, <4>3, <5>2 DEF AllThere
        <5> QED BY <5>1, <5>2
      <4>4. ASSUME NEW r \in snap.want \ Left' PROVE sts'[r].exists
        BY <1>w, <2>0, <4>1, <4>3, <4>4, WantedStay
      <4> QED BY <3>0, <4>4 DEF AllThere
    <3>3. ASSUME pc' \in {"update", "status"}, mem'.state = "Completed"
          PROVE  AllThere(sts', snap'.want)
      <4>1. CASE ApplyConfiguration
        <5>1. pc = "shards" /\ shards = {} /\ sts' = sts
          BY <4>1 DEF ApplyConfiguration
        <5>2. mem.state = "InProgress" /\ mem.count = Cardinality(snap.want)
          BY <2>s, <5>1 DEF BuildInv, CountInv
        <5>3. mem.ready = Cardinality(snap.want)
          BY <3>3, <4>1, <5>2, StateStep DEF IsReady
        <5>4. CASE snap.paused
          <6>1. IsFiniteSet(snap.want) /\ Cardinality(snap.want) = 0
            BY <1>w, <2>s, <5>1, <5>3, <5>4, ReplicaSetsAreFinite DEF PausedInv
          <6>2. snap.want = {}
            BY <6>1, FS_EmptySet
          <6> QED BY <3>0, <6>2 DEF AllThere
        <5>5. CASE ~snap.paused
          <6>1. Left = {}
            BY <5>1 DEF Left, SyncLabels
          <6> QED BY <2>a, <2>s, <3>0, <5>1, <5>5, <6>1 DEF AllThere
        <5> QED BY <5>4, <5>5
      <4>2. CASE UpdateInstallation
        BY <2>a, <3>0, <3>3, <4>2 DEF UpdateInstallation, AllThere
      <4>3. CASE ~ApplyConfiguration /\ ~UpdateInstallation
        <5>1. pc' = pc /\ mem' = mem
          BY <2>5, <3>3, <4>3, PassEnd
        <5>2. AllThere(sts', snap.want)
          BY <2>a, <2>k, <3>3, <5>1
        <5> QED BY <3>0, <5>2 DEF AllThere
      <4> QED BY <4>1, <4>2, <4>3
    <3> QED BY <2>1, <3>1, <3>2, <3>3 DEF ThereInv
  <2> QED BY <2>2, <2>3, <2>4, <2>5
<1> QED BY <1>1, <1>2

(* ThereInv holds in every reachable state.                                *)
LEMMA ThereInvHolds ==
  ASSUME PatientUser, ~CacheLag
  PROVE  Spec => []ThereInv
<1>1. Init => ThereInv
  <2>1. NoStatus.state # "Completed"
    BY DEF NoStatus
  <2> QED BY <2>1 DEF Init, ThereInv
<1>2. ASSUME ThereInv, UNCHANGED vars PROVE ThereInv'
  BY <1>2 DEF ThereInv, AllThere, Left, vars, passVars
<1>3. /\ TypeInv /\ CurrentInv /\ LoopInv /\ LagInv /\ FinishedInv /\ BuildInv
      /\ PausedInv /\ PlanInv /\ ThereInv /\ [Next]_vars
      => ThereInv'
  BY <1>2, ThereInvStep
<1>4. Spec => []PlanInv
  BY PlanInvHolds
<1> QED
  BY <1>1, <1>3, <1>4, TypeInvHolds, CurrentInvHolds, LoopInvHolds, LagInvHolds,
     FinishedInvHolds, BuildInvHolds, PausedInvHolds, PTL DEF Spec

Volumes == IF ReclaimDelete THEN pvcs ELSE {}

(* Nothing is left of the replica ...                                      *)
Clean(r) == r \notin Volumes /\ r \notin configMaps /\ r \notin services

(* ... or the pass is on its way through what it consists of.              *)
BeingCleaned(r) ==
  /\ r = cur
  /\ \/ pc = "deletePVC"
     \/ pc = "deleteConfigMap" /\ r \notin Volumes
     \/ pc = "deleteService" /\ r \notin Volumes /\ r \notin configMaps

CleanInv ==
  spec.exists =>
    \A r \in Replicas \ spec.want : ~sts[r].exists => Clean(r) \/ BeingCleaned(r)

(* Who takes a StatefulSet away while the installation exists.             *)
LEMMA StatefulSetRemovers ==
  ASSUME TypeInv, Next, spec.exists, NEW r \in Replicas, sts[r].exists, ~sts'[r].exists
  PROVE  DeleteStatefulSet /\ cur = r
<1>1. pc \in DeleteLabels \ {"delete"} /\ cur = r
  BY ReplicaRemovers
<1>2. sts' # sts
  OBVIOUS
<1>3. ~Pods
  <2> SUFFICES ASSUME Pods PROVE FALSE
    OBVIOUS
  <2>1. sts \in [Replicas -> StatefulSet]
    BY DEF TypeInv, ObjectTypeOK
  <2>2. PICK x \in Replicas : PodReady(x) \/ PodReplaced(x) \/ PodLost(x)
    BY DEF Pods
  <2>3. \/ sts' = [sts EXCEPT ![x].ready = TRUE, ![x].current = TRUE]
        \/ sts' = [sts EXCEPT ![x].ready = FALSE]
    BY <2>2, Zenon DEF PodReady, PodReplaced, PodLost
  <2> QED BY <2>1, <2>3 DEF StatefulSet
<1>4. ~SyncReplicas
  BY <1>1
  DEF SyncReplicas, SyncShard, SyncReplica, SkipStatefulSet, CreateStatefulSet,
      KeepStatefulSet, UpdateStatefulSet, SyncServiceForReplica, CreateTablesForReplica,
      CreateTablesFails, FindExtraReplicas, DeleteLabels
<1>5. CASE Pass /\ ~DeleteReplicas
  BY <1>2, <1>4, <1>5, Zenon
  DEF Pass, Reconcile, SyncServiceForInstallation, SyncConfigMaps, ApplyConfiguration,
      UpdateInstallation, UpdateStatus, Conflict, DeleteConfigMaps,
      DeleteServiceForInstallation, StatusTerminated, RemoveFinalizer
<1>6. CASE DeleteReplicas
  BY <1>1, <1>2, <1>6, Zenon
  DEF DeleteReplicas, DeleteShard, SkipReplica, DeleteTables, DeletePVC, DeleteConfigMap,
      DeleteServiceForReplica, StatusAfterDelete
<1>7. CASE ~Pass
  BY <1>2, <1>3, <1>7, Zenon
  DEF Next, Fault, User, ChangeLayout, ChangeTemplate, SetPaused, DeleteInstallation,
      UserWrites, Informers, InformerInstallation, InformerStatefulSet, CollectGarbage,
      Rest, vars
<1> QED BY <1>1, <1>5, <1>6, <1>7 DEF Pass

(* What a step adds to a replica, and to which.                            *)
LEMMA ReplicaParts ==
  ASSUME LoopInv, Next, NEW r \in Replicas
  PROVE  /\ r \in configMaps' => r \in configMaps \/ (pc = "replicas" /\ r \in snap.want)
         /\ r \in services' => r \in services \/ (pc = "replicaService" /\ r \in snap.want)
         /\ r \in pvcs' => r \in pvcs \/ sts[r].exists
<1>1. CASE \E x \in Replicas : SyncReplica(x)
  <2>1. PICK x \in Replicas : SyncReplica(x)
    BY <1>1
  <2>2. /\ pc = "replicas" /\ x \in todo /\ configMaps' = configMaps \cup {x}
        /\ UNCHANGED <<services, pvcs>>
    BY <2>1, Zenon DEF SyncReplica
  <2> QED BY <2>2 DEF LoopInv, SyncLoopInv, SyncLabels
<1>2. CASE SyncServiceForReplica
  <2>1. /\ pc = "replicaService" /\ services' = services \cup {cur}
        /\ UNCHANGED <<configMaps, pvcs>>
    BY <1>2, Zenon DEF SyncServiceForReplica
  <2> QED BY <2>1 DEF LoopInv, SyncLoopInv, SyncLabels
<1>3. CASE \E x \in Replicas : PodReady(x)
  <2>1. PICK x \in Replicas : PodReady(x)
    BY <1>3
  <2>2. sts[x].exists /\ pvcs' = pvcs \cup {x} /\ UNCHANGED <<configMaps, services>>
    BY <2>1, Zenon DEF PodReady
  <2> QED BY <2>2
<1>4. CASE UNCHANGED <<configMaps, services, pvcs>>
  BY <1>4
<1>5. CASE DeletePVC \/ DeleteConfigMap \/ DeleteServiceForReplica \/ CollectGarbage
  <2>1. configMaps' \subseteq configMaps /\ services' \subseteq services /\ pvcs' \subseteq pvcs
    BY <1>5 DEF DeletePVC, DeleteConfigMap, DeleteServiceForReplica, CollectGarbage
  <2> QED BY <2>1
<1>6. CASE SyncReplicas /\ ~SyncServiceForReplica /\ ~\E x \in Replicas : SyncReplica(x)
  BY <1>4, <1>6, Zenon
  DEF SyncReplicas, SyncShard, SkipStatefulSet, CreateStatefulSet, KeepStatefulSet,
      UpdateStatefulSet, CreateTablesForReplica, CreateTablesFails, FindExtraReplicas,
      objectVars
<1>7. CASE DeleteReplicas /\ ~DeletePVC /\ ~DeleteConfigMap /\ ~DeleteServiceForReplica
  BY <1>4, <1>7, Zenon
  DEF DeleteReplicas, DeleteShard, SkipReplica, DeleteTables, DeleteStatefulSet,
      StatusAfterDelete, objectVars
<1>8. CASE Pass /\ ~SyncReplicas /\ ~DeleteReplicas
  BY <1>4, <1>8, Zenon
  DEF Pass, Reconcile, SyncServiceForInstallation, SyncConfigMaps, ApplyConfiguration,
      UpdateInstallation, UpdateStatus, Conflict, DeleteConfigMaps,
      DeleteServiceForInstallation, StatusTerminated, RemoveFinalizer, objectVars
<1>9. CASE ~Pass /\ ~CollectGarbage /\ ~\E x \in Replicas : PodReady(x)
  BY <1>4, <1>9, Zenon
  DEF Next, Fault, User, ChangeLayout, ChangeTemplate, SetPaused, DeleteInstallation,
      UserWrites, Pods, PodReplaced, PodLost, Informers, InformerInstallation,
      InformerStatefulSet, Rest, vars, objectVars
<1> QED BY <1>1, <1>2, <1>3, <1>5, <1>6, <1>7, <1>8, <1>9

(* When no call fails, a pass goes through what a replica consists of.     *)
LEMMA CleaningStep ==
  ASSUME MaxFaults = 0, TypeInv, Next,
         pc \in {"deletePVC", "deleteConfigMap", "deleteService"}
  PROVE  DeletePVC \/ DeleteConfigMap \/ DeleteServiceForReplica \/ UNCHANGED <<pc, cur>>
<1>1. ~SyncReplicas
  BY DEF SyncReplicas, SyncShard, SyncReplica, SkipStatefulSet, CreateStatefulSet,
         KeepStatefulSet, UpdateStatefulSet, SyncServiceForReplica,
         CreateTablesForReplica, CreateTablesFails, FindExtraReplicas
<1>2. ~Fault
  BY DEF Fault, TypeInv, ObjectTypeOK
<1>3. CASE DeleteReplicas
  BY <1>3 DEF DeleteReplicas, DeleteShard, SkipReplica, DeleteTables, DeleteStatefulSet,
              StatusAfterDelete
<1>4. CASE Pass /\ ~DeleteReplicas
  BY <1>1, <1>4
  DEF Pass, Reconcile, SyncServiceForInstallation, SyncConfigMaps, ApplyConfiguration,
      UpdateInstallation, UpdateStatus, Conflict, DeleteConfigMaps,
      DeleteServiceForInstallation, StatusTerminated, RemoveFinalizer
<1>5. CASE ~Pass
  BY <1>2, <1>5, Zenon
  DEF Next, User, ChangeLayout, ChangeTemplate, SetPaused, DeleteInstallation,
      UserWrites, Pods, PodReady, PodReplaced, PodLost, Informers, InformerInstallation,
      InformerStatefulSet, CollectGarbage, Rest, vars, passVars
<1> QED BY <1>3, <1>4, <1>5

(* Each step preserves CleanInv.                                           *)
LEMMA CleanInvStep ==
  ASSUME PatientUser, ~CacheLag, MaxFaults = 0,
         TypeInv, CurrentInv, LoopInv, LagInv, PlanInv, CallInv, ThereInv, CleanInv, Next
  PROVE  CleanInv'
<1>0. ~NoSpec.exists
  BY DEF NoSpec
<1> SUFFICES ASSUME spec'.exists, NEW r \in Replicas \ spec'.want, ~sts'[r].exists
             PROVE  Clean(r)' \/ BeingCleaned(r)'
  BY DEF CleanInv
<1>1. CASE User
  <2>1. /\ UNCHANGED <<sts, objectVars, pc, cur>> /\ spec.exists
        /\ spec'.want = spec.want \/ Applied
    BY <1>0, <1>1, UserSteps
  <2>2. r \notin spec.want
    BY <2>1 DEF Applied, ThereInv, AllThere
  <2>3. Clean(r) \/ BeingCleaned(r)
    BY <2>1, <2>2 DEF CleanInv
  <2> QED BY <2>1, <2>3 DEF Clean, BeingCleaned, Volumes, objectVars
<1>2. CASE ~User
  <2>0. spec'.want = spec.want /\ spec.exists
    BY <1>0, <1>2, SpecStep
  <2>1. CASE sts[r].exists
    <3>1. DeleteStatefulSet /\ cur = r
      BY <2>0, <2>1, StatefulSetRemovers
    <3>2. pc = "deleteStatefulSet" /\ stsCache[cur].exists
      BY <2>1, <3>1 DEF DeleteStatefulSet, LagInv
    <3>3. ~snap.deleting
      <4>1. r \notin snap.want \/ ~spec.deleting
        BY <2>0, <3>2 DEF PlanInv, SnapInv, Overtaken
      <4>2. snap.deleting => r \in snap.want /\ spec.deleting
        BY <2>0, <3>1, <3>2 DEF CallInv, DeleteLabels, PlanInv, SnapInv
      <4> QED BY <4>1, <4>2
    <3>4. mem.cluster
      BY <3>2, <3>3 DEF CallInv, DeleteLabels
    <3>5. pc' = AfterStatefulSet /\ cur' = cur
      BY <2>1, <3>1, <3>4 DEF DeleteStatefulSet, Goto
    <3>6. pc' = "deletePVC" \/ (pc' = "deleteConfigMap" /\ ~ReclaimDelete)
      BY <3>5 DEF AfterStatefulSet
    <3> QED BY <3>1, <3>5, <3>6 DEF BeingCleaned, Volumes
  <2>2. CASE ~sts[r].exists
    <3>1. Clean(r) \/ BeingCleaned(r)
      BY <2>0, <2>2 DEF CleanInv
    <3>2. pc # "idle" => r \notin snap.want
      <4>1. ASSUME pc # "idle", r \in snap.want PROVE FALSE
        <5>1. snap.want # spec.want /\ ~spec.deleting
          BY <2>0, <4>1 DEF PlanInv, SnapInv, Overtaken
        <5> QED BY <2>0, <2>2, <4>1, <5>1 DEF ThereInv, AllThere
      <4> QED BY <4>1
    <3>3. /\ r \in configMaps' => r \in configMaps
          /\ r \in services' => r \in services
          /\ r \in pvcs' => r \in pvcs
      BY <2>2, <3>2, ReplicaParts
    <3>4. CASE Clean(r)
      BY <3>3, <3>4 DEF Clean, Volumes
    <3>5. CASE BeingCleaned(r)
      <4>1. pc \in {"deletePVC", "deleteConfigMap", "deleteService"}
        BY <3>5 DEF BeingCleaned
      <4>2. CASE UNCHANGED <<pc, cur>>
        BY <3>3, <3>5, <4>2 DEF BeingCleaned, Volumes
      <4>3. CASE DeletePVC
        BY <3>3, <3>5, <4>3 DEF DeletePVC, BeingCleaned, Volumes, Goto
      <4>4. CASE DeleteConfigMap
        BY <3>3, <3>5, <4>4 DEF DeleteConfigMap, BeingCleaned, Volumes, Goto
      <4>5. CASE DeleteServiceForReplica
        BY <3>3, <3>5, <4>5 DEF DeleteServiceForReplica, BeingCleaned, Clean, Volumes, Goto
      <4> QED BY <4>1, <4>2, <4>3, <4>4, <4>5, CleaningStep
    <3> QED BY <3>1, <3>4, <3>5
  <2> QED BY <2>1, <2>2
<1> QED BY <1>1, <1>2

(* CleanInv holds in every reachable state.                                *)
LEMMA CleanInvHolds ==
  ASSUME PatientUser, ~CacheLag, MaxFaults = 0
  PROVE  Spec => []CleanInv
<1>1. Init => CleanInv
  BY DEF Init, CleanInv, Clean, Volumes
<1>2. ASSUME CleanInv, UNCHANGED vars PROVE CleanInv'
  BY <1>2 DEF CleanInv, Clean, BeingCleaned, Volumes, vars, passVars, objectVars
<1>3. /\ TypeInv /\ CurrentInv /\ LoopInv /\ LagInv /\ PlanInv /\ CallInv /\ ThereInv
      /\ CleanInv /\ [Next]_vars
      => CleanInv'
  BY <1>2, CleanInvStep
<1>4. Spec => []PlanInv
  BY PlanInvHolds
<1>5. Spec => []ThereInv
  BY ThereInvHolds
<1> QED
  BY <1>1, <1>3, <1>4, <1>5, TypeInvHolds, CurrentInvHolds, LoopInvHolds, LagInvHolds,
     CallInvHolds, PTL DEF Spec

(***************************************************************************)
(* A replica that is scaled in goes with its ConfigMap, its Service and,   *)
(* under the reclaim policy Delete, its volumes: the steps of deleteReplica*)
(* are carried out to the end. Any layouts will do, but a call that fails  *)
(* in between would leave the rest behind for good.                        *)
(***************************************************************************)
THEOREM DeletedAreClean ==
  ASSUME PatientUser, ~CacheLag, MaxFaults = 0
  PROVE  Spec => []DeletedReplicasAreCleanedUp
<1>1. CleanInv => DeletedReplicasAreCleanedUp
  <2> SUFFICES ASSUME CleanInv, Finished, NEW r \in Replicas \ spec.want, ~sts[r].exists
               PROVE  r \notin configMaps \cup services
                                 \cup (IF ReclaimDelete THEN pvcs ELSE {})
    BY DEF DeletedReplicasAreCleanedUp
  <2>1. pc = "idle" /\ spec.exists
    BY DEF Finished, Settled
  <2>2. Clean(r)
    BY <2>1 DEF CleanInv, BeingCleaned
  <2> QED BY <2>2 DEF Clean, Volumes
<1>2. Spec => []CleanInv
  BY CleanInvHolds
<1> QED BY <1>1, <1>2, PTL

----------------------------------------------------------------------------
(* A deleted installation leaves nothing *)

(* Which calls of a pass take a shard up.                                  *)
LEMMA ShardsStep ==
  ASSUME Next, ~Reconcile, ~PassOver
  PROVE  \/ shards' = shards
         \/ (\E s \in Shards : SyncShard(s))
         \/ snap.deleting
<1>1. CASE SyncReplicas \/ DeleteReplicas
  BY <1>1, Zenon
  DEF SyncReplicas, SyncReplica, SkipStatefulSet, CreateStatefulSet, KeepStatefulSet,
      UpdateStatefulSet, SyncServiceForReplica, CreateTablesForReplica,
      CreateTablesFails, FindExtraReplicas, DeleteReplicas, DeleteShard, SkipReplica,
      DeleteTables, DeleteStatefulSet, DeletePVC, DeleteConfigMap,
      DeleteServiceForReplica, StatusAfterDelete, GiveUp
<1>2. CASE Pass /\ ~SyncReplicas /\ ~DeleteReplicas
  BY <1>2, Zenon
  DEF Pass, SyncServiceForInstallation, SyncConfigMaps, ApplyConfiguration,
      UpdateInstallation, UpdateStatus, Conflict, DeleteConfigMaps,
      DeleteServiceForInstallation, StatusTerminated, RemoveFinalizer, GiveUp
<1>3. CASE ~Pass
  BY <1>3, Zenon
  DEF Next, Fault, GiveUp, User, ChangeLayout, ChangeTemplate, SetPaused,
      DeleteInstallation, UserWrites, Pods, PodReady, PodReplaced, PodLost, Informers,
      InformerInstallation, InformerStatefulSet, CollectGarbage, Rest, vars, passVars
<1> QED BY <1>1, <1>2, <1>3

(***************************************************************************)
(* A status that names replicas in PrevSpec has an entry for the cluster:  *)
(* the pass that set PrevSpec has been through their shards. A deletion    *)
(* that finds them does not write to a nil map.                            *)
(***************************************************************************)
ClusterInv ==
  /\ status.prev # {} => status.cluster
  /\ mem.prev # {} => mem.cluster
  /\ pc # "idle" /\ ~snap.deleting => shards = ShardsOf(snap.want) \/ mem.cluster

(* Each step preserves ClusterInv.                                         *)
LEMMA ClusterInvStep ==
  ASSUME ~CacheLag, TypeInv, CurrentInv, LagInv, ClusterInv, Next
  PROVE  ClusterInv'
<1>0. NoStatus.prev = {}
  BY DEF NoStatus
<1>1. status'.prev # {} => status'.cluster
  <2>1. status' = status \/ status' = mem \/ status' = NoStatus
    BY StatusWriters, Zenon DEF UpdateInstallationStatus
  <2> QED BY <1>0, <2>1 DEF ClusterInv
<1>2. CASE PassOver
  BY <1>0, <1>1, <1>2 DEF PassOver, ClusterInv
<1>3. CASE Reconcile /\ UNCHANGED passVars
  BY <1>1, <1>3 DEF passVars, ClusterInv, ShardsOf
<1>4. CASE Reconcile /\ ~UNCHANGED passVars
  <2>1. /\ mem'.prev = status.prev /\ snap'.want = spec.want
        /\ shards' = ShardsOf(spec.want)
    BY <1>4, PassStart
  <2>2. mem'.cluster = status.cluster
    <3>1. diCache.status = status /\ status \in InstallationStatus
      BY DEF LagInv, CurrentInv, CacheInv, TypeInv, ObjectTypeOK
    <3>2. \/ mem' = [status EXCEPT !.state = "Terminating"]
          \/ mem' = StatusAtStart(status, diCache.spec.want)
      BY <1>4, <3>1 DEF Reconcile
    <3> QED BY <3>1, <3>2 DEF StatusAtStart, InstallationStatus
  <2>3. shards' = ShardsOf(snap'.want)
    BY <2>1
  <2> QED BY <1>1, <2>1, <2>2, <2>3 DEF ClusterInv, ShardsOf
<1>5. CASE ~PassOver /\ ~Reconcile
  <2>1. snap' = snap /\ (pc' # "idle" => pc # "idle")
    BY <1>5, SnapWriters, IdlePasses
  <2>2. mem.cluster => mem'.cluster
    BY <1>5, ClusterStep
  <2>3. pc # "idle" /\ ~snap.deleting => shards' = ShardsOf(snap.want) \/ mem'.cluster
    <3>1. CASE \E s \in Shards : SyncShard(s)
      <4>1. PICK s \in Shards : SyncShard(s)
        BY <3>1
      <4>2. mem'.cluster
        BY <4>1 DEF SyncShard, TypeInv, PassTypeOK, InstallationStatus
      <4> QED BY <4>2
    <3> QED BY <1>5, <2>2, <3>1, ShardsStep DEF ClusterInv
  <2>4. mem'.prev # {} => mem'.cluster
    <3>1. CASE mem'.prev = mem.prev
      BY <2>2, <3>1 DEF ClusterInv
    <3>2. CASE ApplyConfiguration /\ mem'.prev = snap.want
      <4>1. pc # "idle" /\ ~snap.deleting /\ shards' = {}
        BY <3>2 DEF ApplyConfiguration
      <4>2. ShardsOf(snap.want) = {} => snap.want = {}
        <5>1. snap.want \subseteq Replicas
          BY DEF TypeInv, PassTypeOK, ObjectTypeOK, InstallationSpec
        <5> QED BY <5>1, LayoutAssumption DEF ShardsOf
      <4> QED BY <2>3, <3>2, <4>1, <4>2
    <3> QED BY <1>5, <3>1, <3>2, PrevStep
  <2> QED BY <1>1, <2>1, <2>3, <2>4 DEF ClusterInv, ShardsOf
<1> QED BY <1>2, <1>3, <1>4, <1>5

(* ClusterInv holds in every reachable state.                              *)
LEMMA ClusterInvHolds == ASSUME ~CacheLag PROVE Spec => []ClusterInv
<1>1. Init => ClusterInv
  <2>1. NoStatus.prev = {}
    BY DEF NoStatus
  <2> QED BY <2>1, Zenon DEF Init, ClusterInv
<1>2. ASSUME ClusterInv, UNCHANGED vars PROVE ClusterInv'
  BY <1>2 DEF ClusterInv, ShardsOf, vars, passVars
<1>3. TypeInv /\ CurrentInv /\ LagInv /\ ClusterInv /\ [Next]_vars => ClusterInv'
  BY <1>2, ClusterInvStep
<1> QED
  BY <1>1, <1>3, TypeInvHolds, CurrentInvHolds, LagInvHolds, PTL DEF Spec

(***************************************************************************)
(* Completed is never stored before the finalizer is: a user who has       *)
(* waited for it cannot delete the installation past the operator.         *)
(***************************************************************************)
FinalizerInv ==
  /\ spec.exists => (status.state = "Completed" \/ spec.deleting => spec.finalizer)
  /\ pc # "idle" => snap.finalizer
  /\ pc = "status" /\ fresh => spec.finalizer

(* Each step preserves FinalizerInv.                                       *)
LEMMA FinalizerInvStep ==
  ASSUME PatientUser, TypeInv, CurrentInv, LoopInv, BuildInv, FinalizerInv, Next
  PROVE  FinalizerInv'
<1>0. ~NoSpec.exists
  BY DEF NoSpec
<1>1. pc' # "idle" => snap'.finalizer
  <2>1. CASE Reconcile /\ ~UNCHANGED passVars
    <3> DEFINE di == diCache.spec
    <3>1. /\ di.deleting => di.finalizer
          /\ snap' = IF di.deleting THEN di ELSE [di EXCEPT !.finalizer = TRUE]
      BY <2>1 DEF Reconcile
    <3>2. di \in InstallationSpec
      BY DEF TypeInv, CacheTypeOK
    <3> QED BY <3>1, <3>2 DEF InstallationSpec
  <2>2. CASE Reconcile /\ UNCHANGED passVars
    BY <2>2 DEF passVars, FinalizerInv
  <2>3. CASE PassOver
    BY <2>3 DEF PassOver
  <2>4. CASE ~Reconcile /\ ~PassOver
    BY <2>4, SnapWriters, IdlePasses DEF FinalizerInv
  <2> QED BY <2>1, <2>2, <2>3, <2>4
<1>2. ASSUME spec'.exists
      PROVE  /\ spec.exists
             /\ spec'.finalizer = spec.finalizer \/ (pc # "idle" /\ spec' = snap)
  <2>1. CASE User
    BY <1>0, <1>2, <2>1, UserSteps
  <2>2. CASE ~User
    BY <1>0, <1>2, <2>2, SpecStep DEF UpdateInstallation
  <2> QED BY <2>1, <2>2
<1>3. ASSUME spec'.exists, spec.finalizer PROVE spec'.finalizer
  BY <1>2, <1>3 DEF FinalizerInv
<1>4. ASSUME spec'.exists, spec'.deleting PROVE spec.finalizer
  <2>1. CASE User
    <3>1. spec.exists /\ (spec.deleting \/ Applied)
      BY <1>0, <1>4, <2>1, UserSteps
    <3> QED BY <3>1 DEF FinalizerInv, Applied
  <2>2. CASE ~User
    <3>1. spec.exists /\ spec.deleting
      BY <1>0, <1>4, <2>2, SpecStep
    <3> QED BY <3>1 DEF FinalizerInv
  <2> QED BY <2>1, <2>2
<1>5. ASSUME spec'.exists, status'.state = "Completed" PROVE spec.finalizer
  <2>1. CASE status' = status
    BY <1>2, <1>5, <2>1 DEF FinalizerInv
  <2>2. CASE status' # status
    <3>1. /\ StatusAfterDelete \/ UpdateStatus \/ StatusTerminated
          /\ fresh /\ status' = mem
      BY <1>0, <1>5, <2>2, StatusStep
    <3>2. CASE StatusAfterDelete
      <4>1. pc = "replicaDeleted"
        BY <3>2 DEF StatusAfterDelete
      <4> QED BY <1>5, <3>1, <4>1 DEF BuildInv, CountInv, TerminatingInv
    <3>3. CASE UpdateStatus
      BY <3>1, <3>3 DEF UpdateStatus, FinalizerInv
    <3>4. CASE StatusTerminated
      <4>1. snap.deleting
        BY <3>4 DEF StatusTerminated, LoopInv, BranchInv
      <4> QED BY <1>2, <1>5, <3>1, <4>1 DEF CurrentInv, FreshInv, FinalizerInv
    <3> QED BY <3>1, <3>2, <3>3, <3>4
  <2> QED BY <2>1, <2>2
<1>6. ASSUME pc' = "status", fresh' PROVE spec'.finalizer
  <2>1. CASE UpdateInstallation
    BY <2>1 DEF UpdateInstallation, FinalizerInv
  <2>2. CASE ~UpdateInstallation
    <3>1. ~PassOver /\ ~User
      BY <1>6, Zenon
      DEF PassOver, User, ChangeLayout, ChangeTemplate, SetPaused, DeleteInstallation,
          UserWrites
    <3>2. CASE Reconcile
      BY <1>6, <3>2 DEF Reconcile, passVars, Goto, CurrentInv, FreshInv
    <3>3. CASE ~Reconcile
      <4>1. ~ApplyConfiguration
        BY <1>6 DEF ApplyConfiguration, Goto
      <4>2. pc = "status" /\ fresh
        BY <1>6, <2>2, <3>1, <3>3, <4>1, PassEnd, FreshBefore
      <4>3. spec' = spec
        BY <1>6, <2>2, <3>3, SpecWriters
      <4> QED BY <4>2, <4>3 DEF FinalizerInv
    <3> QED BY <3>2, <3>3
  <2> QED BY <2>1, <2>2
<1> QED BY <1>1, <1>3, <1>4, <1>5, <1>6 DEF FinalizerInv

(* FinalizerInv holds in every reachable state.                            *)
LEMMA FinalizerInvHolds == ASSUME PatientUser PROVE Spec => []FinalizerInv
<1>1. Init => FinalizerInv
  <2> SUFFICES ASSUME Init PROVE FinalizerInv
    OBVIOUS
  <2>1. PICK w \in Layouts :
          spec = [exists |-> TRUE, deleting |-> FALSE, finalizer |-> FALSE,
                  paused |-> FALSE, want |-> w, template |-> InitialTemplate]
    BY Zenon DEF Init
  <2>2. ~spec.deleting
    BY <2>1
  <2>3. status.state # "Completed" /\ pc = "idle"
    BY DEF Init, NoStatus
  <2> QED BY <2>2, <2>3 DEF FinalizerInv
<1>2. ASSUME FinalizerInv, UNCHANGED vars PROVE FinalizerInv'
  BY <1>2 DEF FinalizerInv, vars, passVars
<1>3. /\ TypeInv /\ CurrentInv /\ LoopInv /\ BuildInv /\ FinalizerInv /\ [Next]_vars
      => FinalizerInv'
  BY <1>2, FinalizerInvStep
<1> QED
  BY <1>1, <1>3, TypeInvHolds, CurrentInvHolds, LoopInvHolds, BuildInvHolds, PTL DEF Spec

(***************************************************************************)
(* An installation is deleted when it has been carried out, so that the    *)
(* replicas of its spec are those of PrevSpec and have their StatefulSets. *)
(* From then on the volume of each goes right after its StatefulSet.       *)
(***************************************************************************)
GoneInv ==
  spec.exists /\ spec.deleting =>
    /\ status.prev = spec.want
    /\ \A r \in spec.want :
         ~sts[r].exists => r \notin Volumes \/ (r = cur /\ pc = "deletePVC")

(* Each step preserves GoneInv.                                            *)
LEMMA GoneInvStep ==
  ASSUME PatientUser, ~CacheLag, MaxFaults = 0,
         TypeInv, CurrentInv, LoopInv, LagInv, PlanInv, CallInv, ThereInv, ClusterInv,
         GoneInv, Next
  PROVE  GoneInv'
<1>0. ~NoSpec.exists
  BY DEF NoSpec
<1> SUFFICES ASSUME spec'.exists, spec'.deleting PROVE GoneInv'
  BY DEF GoneInv
<1>w. spec.want \subseteq Replicas
  BY DEF TypeInv, ObjectTypeOK, InstallationSpec
<1>1. CASE User
  <2>1. /\ UNCHANGED <<sts, objectVars, pc, cur, status>> /\ spec.exists
        /\ spec'.want = spec.want
        /\ spec.deleting \/ Applied
    BY <1>0, <1>1, UserSteps DEF Applied
  <2>2. CASE spec.deleting
    BY <2>1, <2>2 DEF GoneInv, Volumes, objectVars
  <2>3. CASE Applied
    BY <2>1, <2>3 DEF Applied, ThereInv, AllThere, GoneInv
  <2> QED BY <2>1, <2>2, <2>3
<1>2. CASE ~User
  <2>0. spec'.want = spec.want /\ spec.exists /\ spec.deleting
    BY <1>0, <1>2, SpecStep
  <2>1. status'.prev = spec'.want
    <3>1. CASE status' = status
      BY <2>0, <3>1 DEF GoneInv
    <3>2. CASE status' # status
      <4>1. /\ StatusAfterDelete \/ UpdateStatus \/ StatusTerminated
            /\ fresh /\ status' = mem
        BY <1>0, <3>2, StatusStep
      <4>2. CASE UpdateStatus
        BY <2>0, <4>1, <4>2 DEF UpdateStatus, PlanInv, PrevInv, CurrentInv, FreshInv
      <4>3. CASE StatusAfterDelete \/ StatusTerminated
        <5>1. mem.prev = status.prev
          BY <2>0, <4>3 DEF StatusAfterDelete, StatusTerminated, PlanInv, PrevInv
        <5> QED BY <2>0, <4>1, <5>1 DEF GoneInv
      <4> QED BY <4>1, <4>2, <4>3
    <3> QED BY <3>1, <3>2
  <2>2. ASSUME NEW r \in spec.want, ~sts'[r].exists
        PROVE  r \notin Volumes' \/ (r = cur' /\ pc' = "deletePVC")
    <3>1. CASE sts[r].exists
      <4>1. DeleteStatefulSet /\ cur = r
        BY <1>w, <2>0, <2>2, <3>1, StatefulSetRemovers
      <4>2. pc = "deleteStatefulSet" /\ stsCache[cur].exists
        BY <3>1, <4>1 DEF DeleteStatefulSet, LagInv
      <4>3. mem.cluster
        <5>1. CASE snap.deleting
          <6>1. mem.prev = spec.want
            BY <2>0, <4>2 DEF PlanInv, PrevInv, GoneInv
          <6> QED BY <2>2, <6>1 DEF ClusterInv
        <5>2. CASE ~snap.deleting
          BY <4>2, <5>2 DEF CallInv, DeleteLabels
        <5> QED BY <5>1, <5>2
      <4>4. pc' = AfterStatefulSet /\ cur' = cur
        BY <3>1, <4>1, <4>3 DEF DeleteStatefulSet, Goto, LagInv
      <4> QED BY <4>1, <4>4 DEF AfterStatefulSet, Volumes
    <3>2. CASE ~sts[r].exists
      <4>1. r \in pvcs' => r \in pvcs
        BY <1>w, <2>2, <3>2, ReplicaParts
      <4>2. r \notin Volumes \/ (r = cur /\ pc = "deletePVC")
        BY <2>0, <2>2, <3>2 DEF GoneInv
      <4>3. CASE r \notin Volumes
        BY <4>1, <4>3 DEF Volumes
      <4>4. CASE r = cur /\ pc = "deletePVC"
        <5>1. DeletePVC \/ UNCHANGED <<pc, cur>>
          BY <4>4, CleaningStep DEF DeleteConfigMap, DeleteServiceForReplica
        <5> QED BY <4>4, <5>1 DEF DeletePVC, Volumes
      <4> QED BY <4>2, <4>3, <4>4
    <3> QED BY <3>1, <3>2
  <2>3. \A r \in spec'.want :
          ~sts'[r].exists => r \notin Volumes' \/ (r = cur' /\ pc' = "deletePVC")
    BY <2>0, <2>2
  <2> QED BY <2>1, <2>3 DEF GoneInv
<1> QED BY <1>1, <1>2

(* GoneInv holds in every reachable state.                                 *)
LEMMA GoneInvHolds ==
  ASSUME PatientUser, ~CacheLag, MaxFaults = 0
  PROVE  Spec => []GoneInv
<1>1. Init => GoneInv
  <2> SUFFICES ASSUME Init PROVE ~spec.deleting
    BY DEF GoneInv
  <2>1. PICK w \in Layouts :
          spec = [exists |-> TRUE, deleting |-> FALSE, finalizer |-> FALSE,
                  paused |-> FALSE, want |-> w, template |-> InitialTemplate]
    BY Zenon DEF Init
  <2> QED BY <2>1
<1>2. ASSUME GoneInv, UNCHANGED vars PROVE GoneInv'
  BY <1>2 DEF GoneInv, Volumes, vars, passVars, objectVars
<1>3. /\ TypeInv /\ CurrentInv /\ LoopInv /\ LagInv /\ PlanInv /\ CallInv /\ ThereInv
      /\ ClusterInv /\ GoneInv /\ [Next]_vars
      => GoneInv'
  BY <1>2, GoneInvStep
<1>4. Spec => []PlanInv
  BY PlanInvHolds
<1>5. Spec => []ThereInv
  BY ThereInvHolds
<1>6. Spec => []ClusterInv
  BY ClusterInvHolds
<1> QED
  BY <1>1, <1>3, <1>4, <1>5, <1>6, TypeInvHolds, CurrentInvHolds, LoopInvHolds,
     LagInvHolds, CallInvHolds, PTL DEF Spec

(***************************************************************************)
(* An installation that is deleted when it reports Completed leaves no     *)
(* StatefulSet and, under the reclaim policy Delete, no volume behind: not *)
(* of its replicas, and not of one that an earlier scale-in was to remove, *)
(* for then PrevSpec would still name it. The hypotheses are those of the  *)
(* scale-in, and of the volumes besides: that no call fails.               *)
(***************************************************************************)
THEOREM DeletionLeaves ==
  ASSUME PatientUser, ~CacheLag, MaxFaults = 0, NestedShards, SteadyShards
  PROVE  Spec => DeletionLeavesNothing
<1> DEFINE Nothing ==
      spec.exists /\ ~spec'.exists =>
        \A r \in Replicas : ~sts[r].exists /\ (ReclaimDelete => r \notin pvcs)
<1>1. ASSUME TypeInv, CurrentInv, LoopInv, LagInv, TornDownInv, FinishedInv, ExtraInv,
             CleanInv, FinalizerInv, GoneInv, Next
      PROVE  Nothing
  <2> SUFFICES ASSUME spec.exists, ~spec'.exists, NEW r \in Replicas
               PROVE  ~sts[r].exists /\ (ReclaimDelete => r \notin pvcs)
    OBVIOUS
  <2>1. ~(DeleteInstallation /\ ~spec.finalizer)
    BY <1>1 DEF DeleteInstallation, Applied, FinalizerInv
  <2>2. RemoveFinalizer
    BY <1>1, <2>1, InstallationRemovers
  <2>3. /\ spec.deleting /\ pc = "removeFinalizer"
        /\ \A x \in spec.want : ~sts[x].exists
    BY <1>1, <2>2, NoneLeft
  <2>4. status.prev = spec.want
    BY <1>1, <2>3 DEF GoneInv
  <2>5. ~sts[r].exists
    BY <1>1, <2>3, <2>4 DEF ExtraInv, OldInv
  <2>6. r \notin Volumes
    <3>1. CASE r \in spec.want
      BY <1>1, <2>3, <3>1 DEF GoneInv
    <3>2. CASE r \notin spec.want
      BY <1>1, <2>3, <2>5, <3>2 DEF CleanInv, BeingCleaned, Clean
    <3> QED BY <3>1, <3>2
  <2> QED BY <2>5, <2>6 DEF Volumes
<1> HIDE DEF Nothing
<1>2. /\ TypeInv /\ CurrentInv /\ LoopInv /\ LagInv /\ TornDownInv /\ FinishedInv
      /\ ExtraInv /\ CleanInv /\ FinalizerInv /\ GoneInv /\ [Next]_vars
      => [Nothing]_vars
  BY <1>1
<1>3. /\ Spec => []ExtraInv
      /\ Spec => []CleanInv
      /\ Spec => []FinalizerInv
      /\ Spec => []GoneInv
      /\ Spec => []TornDownInv
  BY ExtraInvHolds, CleanInvHolds, FinalizerInvHolds, GoneInvHolds, TornDownInvHolds
<1>4. Spec => [][Nothing]_vars
  BY <1>2, <1>3, TypeInvHolds, CurrentInvHolds, LoopInvHolds, LagInvHolds,
     FinishedInvHolds, PTL DEF Spec
<1> QED BY <1>4 DEF Nothing, DeletionLeavesNothing
==============================================================================
