---------------------------- MODULE MemberManager ----------------------------
(***************************************************************************)
(* The reconciliation of one DaisyInstallation: DaisyInstallationReconciler*)
(* and DaisyMemberManager of the daisy operator, against the Kubernetes    *)
(* API server, the operator's informer caches, the StatefulSet controller  *)
(* and the user.                                                           *)
(*                                                                         *)
(* A pass of Sync runs in one worker and makes one API call at a time.     *)
(* Each call is one action here, so that a user's edit, a StatefulSet      *)
(* becoming ready, a delayed watch event, a failing call or a restart of   *)
(* the operator can fall between any two of them.                          *)
(***************************************************************************)
EXTENDS Naturals, FiniteSets

CONSTANTS
  Replicas,         \* every replica name the normalizer can produce
  Shards,           \* the replicas, grouped by the shard they belong to
  None,             \* no replica
  Layouts,          \* the sets of replicas a user's spec can normalize to
  Templates,        \* the pod templates a user's spec can ask for
  InitialTemplate,  \* the one the installation is created with
  ReclaimDelete,    \* TRUE: spec.pvReclaimPolicy is Delete, FALSE: Retain
  CacheLag,         \* TRUE: the informer caches may lag behind the API server
  PatientUser,      \* TRUE: the user waits for Completed between two edits
  MaxEdits,         \* bound: changes the user makes to the spec
  MaxFaults         \* bound: failed API calls, operator restarts, pods lost

ASSUME ReplicasAssumption ==
  /\ IsFiniteSet(Replicas)
  /\ None \notin Replicas

ASSUME LayoutAssumption ==
  /\ UNION Shards = Replicas
  /\ \A s, t \in Shards : s = t \/ s \cap t = {}
  /\ Layouts \subseteq SUBSET Replicas
  /\ InitialTemplate \in Templates

ASSUME SwitchAssumption ==
  /\ ReclaimDelete \in BOOLEAN
  /\ CacheLag \in BOOLEAN
  /\ PatientUser \in BOOLEAN
  /\ MaxEdits \in Nat
  /\ MaxFaults \in Nat

VARIABLES
  (* what the API server and the ClickHouse pods hold *)
  spec,       \* the DaisyInstallation without its status
  status,     \* its status subresource
  sts,        \* the StatefulSet of each replica
  configMaps, \* the replicas that have a ConfigMap
  services,   \* the replicas that have a Service
  pvcs,       \* the replicas that have a PersistentVolumeClaim
  tables,     \* the replicas to whose volume the tables have been copied
  common,     \* the ConfigMaps and the Service of the installation
  (* what the operator's informers have delivered *)
  diCache,    \* the cached DaisyInstallation
  diStale,    \* its resourceVersion is not the API server's
  stsCache,   \* the cached StatefulSets
  pending,    \* the work queue holds the installation
  (* the pass that is running *)
  pc,         \* the call it makes next, "idle" between two passes
  snap,       \* the spec it read
  mem,        \* the status it is building (cur.Status)
  fresh,      \* its resourceVersion is the API server's: no conflict
  shards,     \* the shards still to visit
  shard,      \* the shard being visited
  todo,       \* the replicas still to visit in that shard
  cur,        \* the replica being visited
  (* bounds *)
  edits, faults

objectVars == <<configMaps, services, pvcs, tables, common>>
cacheVars  == <<diCache, diStale, stsCache, pending>>
passVars   == <<pc, snap, mem, fresh, shards, shard, todo, cur>>
vars == <<spec, status, sts, objectVars, cacheVars, passVars, edits, faults>>

----------------------------------------------------------------------------
(* Records *)

Phases == {"", "Scale", "Ready", "Normal"}
SyncStates == {"", "NotSync", "Sync"}

InstallationSpec == [exists : BOOLEAN, deleting : BOOLEAN, finalizer : BOOLEAN,
                     paused : BOOLEAN, want : SUBSET Replicas,
                     template : Templates]

(* A missing entry reads back as the zero value.                           *)
ReplicaStatus == [phase : Phases, state : SyncStates]

InstallationStatus ==
  [state : {"", "InProgress", "Completed", "Terminating"},
   prev : SUBSET Replicas,     \* the replicas of PrevSpec
   cluster : BOOLEAN,          \* Clusters has an entry for the cluster
   count : Nat,                \* ReplicasCount
   ready : Nat,                \* ReadyReplicas
   updated : Nat,              \* UpdatedReplicasCount
   deleted : Nat,              \* DeletedReplicasCount
   stamp : BOOLEAN,            \* LastTransitionTime of the entries
   rep : [Replicas -> ReplicaStatus]]

(* ready: the pod is ready. current: the controller has reached the         *)
(* generation of the spec (HasStatefulSetReachedGeneration).                *)
StatefulSet == [exists : BOOLEAN, template : Templates,
                ready : BOOLEAN, current : BOOLEAN]

NoReplicaStatus == [phase |-> "", state |-> ""]

NoStatus == [state |-> "", prev |-> {}, cluster |-> FALSE, count |-> 0,
             ready |-> 0, updated |-> 0, deleted |-> 0,
             stamp |-> FALSE, rep |-> [r \in Replicas |-> NoReplicaStatus]]

NoSpec == [exists |-> FALSE, deleting |-> FALSE, finalizer |-> FALSE,
           paused |-> FALSE, want |-> {}, template |-> InitialTemplate]

NoStatefulSet == [exists |-> FALSE, template |-> InitialTemplate,
                  ready |-> FALSE, current |-> FALSE]

----------------------------------------------------------------------------
(* Events *)

(***************************************************************************)
(* What the informers make of a step. Without lag they deliver each change *)
(* at once. A change of the installation, or of a StatefulSet or a Service *)
(* it owns, puts the installation into the work queue. `left` is what the  *)
(* step itself leaves in the queue.                                        *)
(***************************************************************************)
Watch(left) ==
  /\ stsCache' = IF CacheLag THEN stsCache ELSE sts'
  /\ diCache' = IF CacheLag THEN diCache
                ELSE [spec |-> spec', status |-> status']
  /\ diStale' = (CacheLag /\ (diStale \/ spec' # spec \/ status' # status))
  /\ pending' = \/ left
                \/ services' # services
                \/ ("service" \in common') # ("service" \in common)
                \/ /\ ~CacheLag
                   /\ spec' # spec \/ status' # status \/ sts' # sts

(* With lag, the events of the installation and those of its StatefulSets  *)
(* come from different watches and arrive in any order.                    *)
InformerInstallation ==
  /\ diStale
  /\ diCache' = [spec |-> spec, status |-> status]
  /\ diStale' = FALSE
  /\ pending' = TRUE
  /\ UNCHANGED <<spec, status, sts, objectVars, stsCache, passVars, edits, faults>>

(* Mutant: the controller does not own StatefulSets.                       *)
InformerStatefulSetUnowned(r) ==
  /\ stsCache[r] # sts[r]
  /\ stsCache' = [stsCache EXCEPT ![r] = sts[r]]
  /\ UNCHANGED <<spec, status, sts, objectVars, diCache, diStale, pending, passVars,
                 edits, faults>>

InformerStatefulSet(r) ==
  /\ stsCache[r] # sts[r]
  /\ stsCache' = [stsCache EXCEPT ![r] = sts[r]]
  /\ pending' = TRUE
  /\ UNCHANGED <<spec, status, sts, objectVars, diCache, diStale, passVars,
                 edits, faults>>

----------------------------------------------------------------------------
(* Beginning and end of a pass *)

PassOver ==
  /\ pc' = "idle" /\ snap' = NoSpec /\ mem' = NoStatus /\ fresh' = FALSE
  /\ shards' = {} /\ shard' = {} /\ todo' = {} /\ cur' = None

(* The pass ends with an error, or with the error that asks for a requeue: *)
(* what it has in memory is lost and the installation is queued again.     *)
GiveUp == PassOver /\ Watch(TRUE)

Goto(label) == pc' = label

(* ReconcileStart reads the cached installation. A fresh resourceVersion   *)
(* stays fresh until somebody else writes the installation.                *)
(* Mutant: ReadyReplicas is not reset.                                     *)
StatusAtStartKeepingReady(old, want) ==
  [old EXCEPT !.state = "InProgress", !.count = Cardinality(want), !.updated = 0,
              !.deleted = 0]

(* Mutant: every pass stamps the status with the current time.             *)
StatusAtStartStamped(old, want) ==
  [old EXCEPT !.state = "InProgress", !.count = Cardinality(want), !.ready = 0,
              !.updated = 0, !.deleted = 0, !.stamp = ~old.stamp]

StatusAtStart(old, want) ==
  [old EXCEPT !.state = "InProgress", !.count = Cardinality(want), !.ready = 0,
              !.updated = 0, !.deleted = 0]

ShardsOf(want) == {s \in Shards : s \cap want # {}}

Reconcile ==
  /\ pc = "idle" /\ pending
  /\ LET di == diCache.spec IN
     IF ~di.exists \/ (di.deleting /\ ~di.finalizer)
     THEN UNCHANGED passVars
     ELSE /\ snap' = IF di.deleting THEN di ELSE [di EXCEPT !.finalizer = TRUE]
          /\ mem' = IF di.deleting
                    THEN [diCache.status EXCEPT !.state = "Terminating"]
                    ELSE StatusAtStart(diCache.status, di.want)
          /\ fresh' = ~diStale
          /\ shards' = ShardsOf(di.want)
          /\ Goto(IF di.deleting THEN "shards" ELSE "service")
          /\ UNCHANGED <<shard, todo, cur>>
  /\ UNCHANGED <<spec, status, sts, objectVars, edits, faults>>
  /\ Watch(FALSE)

(* A call of the pass fails before it takes effect, or the operator        *)
(* restarts.                                                               *)
Fault ==
  /\ pc # "idle" /\ faults < MaxFaults
  /\ faults' = faults + 1
  /\ UNCHANGED <<spec, status, sts, objectVars, edits>>
  /\ GiveUp

----------------------------------------------------------------------------
(* Sync: installation service and ConfigMaps *)

SyncServiceForInstallation ==
  /\ pc = "service"
  /\ common' = common \cup {"service"}
  /\ Goto("configMaps")
  /\ UNCHANGED <<spec, status, sts, configMaps, services, pvcs, tables, snap, mem,
                 fresh, shards, shard, todo, cur, edits, faults>>
  /\ Watch(pending)

SyncConfigMaps ==
  /\ pc = "configMaps"
  /\ common' = common \cup {"configMaps"}
  /\ Goto("shards")
  /\ UNCHANGED <<spec, status, sts, configMaps, services, pvcs, tables, snap, mem,
                 fresh, shards, shard, todo, cur, edits, faults>>
  /\ Watch(pending)

----------------------------------------------------------------------------
(* Sync: the replicas of a shard *)

(* The loops run over Go maps, so shards and replicas come in any order.   *)
SyncShard(s) ==
  /\ pc = "shards" /\ ~snap.deleting /\ s \in shards
  /\ mem' = [mem EXCEPT !.cluster = TRUE]
  /\ shards' = shards \ {s} /\ shard' = s /\ todo' = snap.want \cap s
  /\ Goto("replicas")
  /\ UNCHANGED <<spec, status, sts, objectVars, snap, fresh, cur, edits, faults>>
  /\ Watch(pending)

SyncReplica(r) ==
  /\ pc = "replicas" /\ r \in todo
  /\ configMaps' = configMaps \cup {r}
  /\ todo' = todo \ {r} /\ cur' = r
  /\ Goto("statefulSet")
  /\ UNCHANGED <<spec, status, sts, services, pvcs, tables, common, snap, mem,
                 fresh, shards, shard, edits, faults>>
  /\ Watch(pending)

(* Mutant: a StatefulSet that has not reached its generation is upgrading. *)
ReplicaStatusOfUpgrading(old, set) ==
  IF ~set.ready THEN [phase |-> "Scale", state |-> "NotSync"]
  ELSE [phase |-> IF set.current THEN "Normal" ELSE "Upgrade",
        state |-> old.state]

(***************************************************************************)
(* syncRepliaStatus: the replica's entry, and what it adds to              *)
(* ReadyReplicas, from the StatefulSet the pass looks at. An entry that is *)
(* missing has no state. statefulSetIsUpgradingFn always says no.          *)
(***************************************************************************)
ReplicaStatusOf(old, set) ==
  IF ~set.ready THEN [phase |-> "Scale", state |-> "NotSync"]
  ELSE IF set.current /\ old.state = "NotSync"
       THEN [phase |-> "Ready", state |-> old.state]
       ELSE [phase |-> "Normal", state |-> old.state]

SetReplicaStatus(st, r, new) ==
  [st EXCEPT !.rep = [st.rep EXCEPT ![r] = new],
             !.ready = IF new.phase = "Normal" THEN st.ready + 1 ELSE st.ready]

(* Paused: the StatefulSet and the status are left alone. *)
SkipStatefulSet ==
  /\ pc = "statefulSet" /\ snap.paused
  /\ Goto("replicaService")
  /\ UNCHANGED <<spec, status, sts, objectVars, snap, mem, fresh, shards, shard,
                 todo, cur, edits, faults>>
  /\ Watch(pending)

(* Creating ends the pass with a requeue error; creating what the cache    *)
(* does not show yet fails with AlreadyExists, which ends it too. The      *)
(* status that syncRepliaStatus builds after the creation is dropped.      *)
CreateStatefulSet ==
  /\ pc = "statefulSet" /\ ~snap.paused /\ ~stsCache[cur].exists
  /\ sts' = IF sts[cur].exists THEN sts
            ELSE [sts EXCEPT ![cur] = [exists |-> TRUE, template |-> snap.template,
                                       ready |-> FALSE, current |-> FALSE]]
  /\ UNCHANGED <<spec, status, objectVars, edits, faults>>
  /\ GiveUp

KeepStatefulSet ==
  /\ pc = "statefulSet" /\ ~snap.paused
  /\ stsCache[cur].exists /\ stsCache[cur].template = snap.template
  /\ mem' = SetReplicaStatus(mem, cur, ReplicaStatusOf(mem.rep[cur], stsCache[cur]))
  /\ Goto("replicaService")
  /\ UNCHANGED <<spec, status, sts, objectVars, snap, fresh, shards, shard, todo,
                 cur, edits, faults>>
  /\ Watch(pending)

(* Mutant: an update leaves no trace in the status.                        *)
CountNothing(st) == st

(* An update counts, and it stamps the entry with the current time: the    *)
(* status differs from the one the pass read.                              *)
CountUpdate(st) ==
  [st EXCEPT !.updated = st.updated + 1,
             !.stamp = IF st.updated = 0 THEN ~st.stamp ELSE st.stamp]

(* UpdateStatefulSet conflicts when the cached object is behind, and its   *)
(* error is only logged. The status comes from the new object, whose own   *)
(* status is empty.                                                        *)
UpdateStatefulSet ==
  /\ pc = "statefulSet" /\ ~snap.paused
  /\ stsCache[cur].exists /\ stsCache[cur].template # snap.template
  /\ mem' = SetReplicaStatus(CountUpdate(mem), cur,
                             ReplicaStatusOf(mem.rep[cur], NoStatefulSet))
  /\ \/ /\ stsCache[cur] = sts[cur]
        /\ sts' = [sts EXCEPT ![cur].template = snap.template, ![cur].current = FALSE]
        /\ UNCHANGED faults
     \/ /\ stsCache[cur] # sts[cur]
        /\ UNCHANGED <<sts, faults>>
     \/ /\ faults < MaxFaults
        /\ faults' = faults + 1
        /\ UNCHANGED sts
  /\ Goto("replicaService")
  /\ UNCHANGED <<spec, status, objectVars, snap, fresh, shards, shard, todo, cur,
                 edits>>
  /\ Watch(pending)

(* Mutant: the entry of a replica that is Ready is taken for synced.       *)
NeedsNoTables(entry) == FALSE

NeedsTables(entry) == entry.phase = "Ready" /\ entry.state # "Sync"

SyncServiceForReplica ==
  /\ pc = "replicaService"
  /\ services' = services \cup {cur}
  /\ Goto(IF NeedsTables(mem.rep[cur]) THEN "createTables" ELSE "replicas")
  /\ UNCHANGED <<spec, status, sts, configMaps, pvcs, tables, common, snap, mem,
                 fresh, shards, shard, todo, cur, edits, faults>>
  /\ Watch(pending)

(* CreateTablesForReplica runs in the pass. When it finds something to     *)
(* copy the pod has to serve, and a failure ends the pass; when it finds   *)
(* nothing it succeeds without a call to the pod. What there is to copy is *)
(* up to the users of the database.                                        *)
CreateTablesForReplica ==
  /\ pc = "createTables"
  /\ tables' = tables \cup {cur}
  /\ mem' = [mem EXCEPT !.rep = [mem.rep EXCEPT ![cur] =
                                   [mem.rep[cur] EXCEPT !.state = "Sync"]],
                        !.ready = mem.ready + 1]
  /\ Goto("replicas")
  /\ UNCHANGED <<spec, status, sts, configMaps, services, pvcs, common, snap,
                 fresh, shards, shard, todo, cur, edits, faults>>
  /\ Watch(pending)

(* Mutant: a failure to create the tables is only logged.                  *)
CreateTablesFailureLogged ==
  /\ pc = "createTables" /\ ~(sts[cur].exists /\ sts[cur].ready)
  /\ mem' = [mem EXCEPT !.rep = [mem.rep EXCEPT ![cur] =
                                   [mem.rep[cur] EXCEPT !.state = "Sync"]],
                        !.ready = mem.ready + 1]
  /\ Goto("replicas")
  /\ UNCHANGED <<spec, status, sts, objectVars, snap, fresh, shards, shard, todo, cur,
                 edits, faults>>
  /\ Watch(pending)

CreateTablesFails ==
  /\ pc = "createTables" /\ ~(sts[cur].exists /\ sts[cur].ready)
  /\ UNCHANGED <<spec, status, sts, objectVars, edits, faults>>
  /\ GiveUp

(* Mutant: old and new replicas swapped.                                   *)
ExtraReplicasSwapped(old, new) ==
  IF Cardinality(new) > Cardinality(old) THEN new \ old ELSE {}

(* Mutant: one extra replica is not enough.                                *)
ExtraReplicasOffByOne(old, new) ==
  IF Cardinality(old) > Cardinality(new) + 1 THEN old \ new ELSE {}

(* syncShard compares sizes before it compares members.                    *)
ExtraReplicas(old, new) ==
  IF Cardinality(old) > Cardinality(new) THEN old \ new ELSE {}

FindExtraReplicas ==
  /\ pc = "replicas" /\ todo = {}
  /\ LET extra == ExtraReplicas(mem.prev \cap shard, snap.want \cap shard) IN
     /\ todo' = extra
     /\ Goto(IF extra = {} THEN "shards" ELSE "delete")
  /\ cur' = None
  /\ UNCHANGED <<spec, status, sts, objectVars, snap, mem, fresh, shards, shard,
                 edits, faults>>
  /\ Watch(pending)

----------------------------------------------------------------------------
(* Deleting a replica: an extra one, or each one of a deleted installation *)

(* Mutant: the replicas come from PrevSpec instead of the spec.            *)
DeletePreviousShard(s) ==
  /\ pc = "shards" /\ snap.deleting /\ s \in shards
  /\ shards' = shards \ {s} /\ shard' = s /\ todo' = mem.prev \cap s
  /\ Goto(IF mem.prev \cap s = {} THEN "shards" ELSE "delete")
  /\ UNCHANGED <<spec, status, sts, objectVars, snap, mem, fresh, cur, edits, faults>>
  /\ Watch(pending)

DeleteShard(s) ==
  /\ pc = "shards" /\ snap.deleting /\ s \in shards
  /\ shards' = shards \ {s} /\ shard' = s /\ todo' = snap.want \cap s
  /\ Goto("delete")
  /\ UNCHANGED <<spec, status, sts, objectVars, snap, mem, fresh, cur, edits, faults>>
  /\ Watch(pending)

AfterReplica(left) == IF left = {} THEN "shards" ELSE "delete"

(* deleteReplica does nothing at all when the StatefulSet is not found.    *)
SkipReplica(r) ==
  /\ pc = "delete" /\ r \in todo /\ ~stsCache[r].exists
  /\ todo' = todo \ {r}
  /\ Goto(AfterReplica(todo \ {r}))
  /\ UNCHANGED <<spec, status, sts, objectVars, snap, mem, fresh, shards, shard, cur,
                 edits, faults>>
  /\ Watch(pending)

(* Its tables are dropped first, and a failure is only logged. *)
DeleteTables(r) ==
  /\ pc = "delete" /\ r \in todo /\ stsCache[r].exists
  /\ todo' = todo \ {r} /\ cur' = r
  /\ \/ sts[r].exists /\ sts[r].ready /\ tables' = tables \ {r} /\ UNCHANGED faults
     \/ ~(sts[r].exists /\ sts[r].ready) /\ UNCHANGED <<tables, faults>>
     \/ faults < MaxFaults /\ faults' = faults + 1 /\ UNCHANGED tables
  /\ Goto("deleteStatefulSet")
  /\ UNCHANGED <<spec, status, sts, configMaps, services, pvcs, common, snap, mem,
                 fresh, shards, shard, edits>>
  /\ Watch(pending)

(* Mutant: volumes are deleted under Retain and kept under Delete.         *)
AfterStatefulSetSwapped == IF ReclaimDelete THEN "deleteConfigMap" ELSE "deletePVC"

AfterStatefulSet == IF ReclaimDelete THEN "deletePVC" ELSE "deleteConfigMap"

(* The entry of the replica is removed from the status in memory. Without  *)
(* an entry for the cluster that is a write to a nil map: the operator     *)
(* panics, after the StatefulSet is gone.                                  *)
DeleteStatefulSet ==
  /\ pc = "deleteStatefulSet"
  /\ sts' = IF stsCache[cur].exists THEN [sts EXCEPT ![cur] = NoStatefulSet] ELSE sts
  /\ UNCHANGED <<spec, status, objectVars, edits, faults>>
  /\ IF mem.cluster /\ (stsCache[cur].exists => sts[cur].exists)
     THEN /\ mem' = [mem EXCEPT !.rep = [mem.rep EXCEPT ![cur] = NoReplicaStatus],
                               !.deleted = mem.deleted + 1]
          /\ Goto(AfterStatefulSet)
          /\ UNCHANGED <<snap, fresh, shards, shard, todo, cur>>
          /\ Watch(pending)
     ELSE GiveUp

DeletePVC ==
  /\ pc = "deletePVC"
  /\ pvcs' = pvcs \ {cur} /\ tables' = tables \ {cur}
  /\ Goto("deleteConfigMap")
  /\ UNCHANGED <<spec, status, sts, configMaps, services, common, snap, mem, fresh,
                 shards, shard, todo, cur, edits, faults>>
  /\ Watch(pending)

DeleteConfigMap ==
  /\ pc = "deleteConfigMap"
  /\ configMaps' = configMaps \ {cur}
  /\ Goto("deleteService")
  /\ UNCHANGED <<spec, status, sts, services, pvcs, tables, common, snap, mem, fresh,
                 shards, shard, todo, cur, edits, faults>>
  /\ Watch(pending)

DeleteServiceForReplica ==
  /\ pc = "deleteService"
  /\ services' = services \ {cur}
  /\ Goto("replicaDeleted")
  /\ UNCHANGED <<spec, status, sts, configMaps, pvcs, tables, common, snap, mem,
                 fresh, shards, shard, todo, cur, edits, faults>>
  /\ Watch(pending)

(* Mutant: the status is written over the latest version of the object.    *)
OverwriteLatestStatus(st) ==
  \/ ~diCache.spec.exists /\ UNCHANGED status
  \/ diCache.spec.exists /\ status' = st

(* UpdateInstallationStatus writes the whole status in memory, whatever    *)
(* stage it is in. An installation that is gone is tolerated, and a        *)
(* conflict is an error.                                                   *)
UpdateInstallationStatus(st) ==
  \/ ~diCache.spec.exists /\ UNCHANGED status
  \/ diCache.spec.exists /\ fresh /\ status' = st

StatusConflict == diCache.spec.exists /\ ~fresh

StatusAfterDelete ==
  /\ pc = "replicaDeleted"
  /\ UpdateInstallationStatus(mem)
  /\ cur' = None
  /\ Goto(AfterReplica(todo))
  /\ UNCHANGED <<spec, sts, objectVars, snap, mem, fresh, shards, shard, todo, edits,
                 faults>>
  /\ Watch(pending)

----------------------------------------------------------------------------
(* Sync: the end of the pass *)

IsReady(st) == st.count = st.ready

(* PrevSpec, and with it what a later pass takes for the old replicas, is  *)
(* set only here, after every shard is done. *)
ApplyConfiguration ==
  /\ pc = "shards" /\ shards = {} /\ ~snap.deleting
  /\ mem' = [mem EXCEPT !.prev = snap.want,
                        !.state = IF IsReady(mem) THEN "Completed" ELSE mem.state]
  /\ common' = common \cup {"configMaps"}
  /\ Goto("update")
  /\ UNCHANGED <<spec, status, sts, configMaps, services, pvcs, tables, snap, fresh,
                 shards, shard, todo, cur, edits, faults>>
  /\ Watch(pending)

(* Mutant: the finalizer that Sync added stays in memory.                  *)
UpdateInstallationInMemory ==
  /\ pc = "update" /\ fresh
  /\ Goto("status")
  /\ UNCHANGED <<spec, status, sts, objectVars, snap, mem, fresh, shards, shard, todo,
                 cur, edits, faults>>
  /\ Watch(pending)

(* Client.Update makes the finalizer that Sync added in memory persistent. *)
UpdateInstallation ==
  /\ pc = "update" /\ fresh
  /\ spec' = snap
  /\ Goto("status")
  /\ UNCHANGED <<status, sts, objectVars, snap, mem, fresh, shards, shard, todo, cur,
                 edits, faults>>
  /\ Watch(pending)

UpdateStatus ==
  /\ pc = "status"
  /\ UpdateInstallationStatus(mem)
  /\ PassOver
  /\ UNCHANGED <<spec, sts, objectVars, edits, faults>>
  /\ Watch(pending)

(* Every write of the installation carries the resourceVersion the pass    *)
(* read, and fails when somebody has written the installation since.       *)
Conflict ==
  /\ \/ pc \in {"update", "removeFinalizer"} /\ ~fresh
     \/ pc \in {"replicaDeleted", "status", "terminated"} /\ StatusConflict
  /\ UNCHANGED <<spec, status, sts, objectVars, edits, faults>>
  /\ GiveUp

----------------------------------------------------------------------------
(* deleteDaisyInstallation, after its replicas *)

(* A failure to delete the ConfigMaps is only logged. *)
DeleteConfigMaps ==
  /\ pc = "shards" /\ shards = {} /\ snap.deleting
  /\ \/ common' = common \ {"configMaps"} /\ UNCHANGED faults
     \/ faults < MaxFaults /\ faults' = faults + 1 /\ UNCHANGED common
  /\ Goto("deleteInstallationService")
  /\ UNCHANGED <<spec, status, sts, configMaps, services, pvcs, tables, snap, mem,
                 fresh, shards, shard, todo, cur, edits>>
  /\ Watch(pending)

DeleteServiceForInstallation ==
  /\ pc = "deleteInstallationService"
  /\ common' = common \ {"service"}
  /\ mem' = [mem EXCEPT !.state = "Completed"]
  /\ Goto("terminated")
  /\ UNCHANGED <<spec, status, sts, configMaps, services, pvcs, tables, snap, fresh,
                 shards, shard, todo, cur, edits, faults>>
  /\ Watch(pending)

StatusTerminated ==
  /\ pc = "terminated"
  /\ UpdateInstallationStatus(mem)
  /\ Goto("removeFinalizer")
  /\ UNCHANGED <<spec, sts, objectVars, snap, mem, fresh, shards, shard, todo, cur,
                 edits, faults>>
  /\ Watch(pending)

(* Mutant: the finalizer is removed in memory only.                        *)
RemoveFinalizerInMemory ==
  /\ pc = "removeFinalizer" /\ fresh
  /\ PassOver
  /\ UNCHANGED <<spec, status, sts, objectVars, edits, faults>>
  /\ Watch(pending)

(* Without its finalizer the API server removes the deleted installation.  *)
RemoveFinalizer ==
  /\ pc = "removeFinalizer" /\ fresh
  /\ spec' = NoSpec /\ status' = NoStatus
  /\ PassOver
  /\ UNCHANGED <<sts, objectVars, edits, faults>>
  /\ Watch(pending)

----------------------------------------------------------------------------
(* The world around the operator *)

(* What a user who watches the status takes for "done". *)
Applied ==
  status.state = "Completed" /\ status.prev = spec.want /\ ~spec.deleting

UserWrites(new) ==
  /\ spec.exists /\ edits < MaxEdits /\ new # spec
  /\ spec' = new /\ fresh' = FALSE /\ edits' = edits + 1
  /\ UNCHANGED <<status, sts, objectVars, pc, snap, mem, shards, shard, todo, cur, faults>>
  /\ Watch(pending)

ChangeLayout(w) ==
  (PatientUser => Applied) /\ UserWrites([spec EXCEPT !.want = w])

ChangeTemplate(t) ==
  (PatientUser => Applied) /\ UserWrites([spec EXCEPT !.template = t])

SetPaused(b) ==
  (PatientUser => Applied \/ spec.paused) /\ UserWrites([spec EXCEPT !.paused = b])

(* With a finalizer the API server only marks the installation, without   *)
(* one it removes it.                                                     *)
DeleteInstallation ==
  /\ PatientUser => Applied
  /\ ~spec.deleting
  /\ IF spec.finalizer
     THEN UserWrites([spec EXCEPT !.deleting = TRUE])
     ELSE /\ spec.exists /\ edits < MaxEdits
          /\ spec' = NoSpec /\ status' = NoStatus
          /\ fresh' = FALSE /\ edits' = edits + 1
          /\ UNCHANGED <<sts, objectVars, pc, snap, mem, shards, shard, todo, cur, faults>>
          /\ Watch(pending)

(* The pod of r runs the template of its StatefulSet and its volume is     *)
(* bound.                                                                  *)
PodReady(r) ==
  /\ sts[r].exists /\ ~(sts[r].ready /\ sts[r].current)
  /\ sts' = [sts EXCEPT ![r].ready = TRUE, ![r].current = TRUE]
  /\ pvcs' = pvcs \cup {r}
  /\ UNCHANGED <<spec, status, configMaps, services, tables, common, passVars, edits,
                 faults>>
  /\ Watch(pending)

(* A rolling update takes the pod down. *)
PodReplaced(r) ==
  /\ sts[r].exists /\ sts[r].ready /\ ~sts[r].current
  /\ sts' = [sts EXCEPT ![r].ready = FALSE]
  /\ UNCHANGED <<spec, status, objectVars, passVars, edits, faults>>
  /\ Watch(pending)

PodLost(r) ==
  /\ sts[r].exists /\ sts[r].ready /\ sts[r].current
  /\ faults < MaxFaults /\ faults' = faults + 1
  /\ sts' = [sts EXCEPT ![r].ready = FALSE]
  /\ UNCHANGED <<spec, status, objectVars, passVars, edits>>
  /\ Watch(pending)

(* What the installation owns goes with it. Volumes are not owned by it.   *)
CollectGarbage ==
  /\ ~spec.exists
  /\ common # {} \/ services # {} \/ configMaps # {} \/ \E r \in Replicas : sts[r].exists
  /\ sts' = [r \in Replicas |-> NoStatefulSet]
  /\ services' = {} /\ configMaps' = {} /\ common' = {}
  /\ UNCHANGED <<spec, status, pvcs, tables, passVars, edits, faults>>
  /\ Watch(pending)

(* Nothing is under way: no pass, no event, no pod. Only the user or a     *)
(* fault can set the system in motion again, so it may rest here.          *)
Settled ==
  /\ pc = "idle" /\ ~pending
  /\ ~diStale /\ stsCache = sts
  /\ \A r \in Replicas : sts[r].exists => sts[r].ready /\ sts[r].current
  /\ ~spec.exists => common = {} /\ \A r \in Replicas : ~sts[r].exists

Rest == Settled /\ UNCHANGED vars

----------------------------------------------------------------------------
(* The specification *)

Init ==
  /\ \E w \in Layouts :
       spec = [exists |-> TRUE, deleting |-> FALSE, finalizer |-> FALSE,
               paused |-> FALSE, want |-> w, template |-> InitialTemplate]
  /\ status = NoStatus
  /\ sts = [r \in Replicas |-> NoStatefulSet]
  /\ configMaps = {} /\ services = {} /\ pvcs = {} /\ tables = {} /\ common = {}
  /\ diCache = [spec |-> spec, status |-> status] /\ diStale = FALSE
  /\ stsCache = sts /\ pending = TRUE
  /\ pc = "idle" /\ snap = NoSpec /\ mem = NoStatus /\ fresh = FALSE
  /\ shards = {} /\ shard = {} /\ todo = {} /\ cur = None
  /\ edits = 0 /\ faults = 0

SyncReplicas ==
  \/ \E s \in Shards : SyncShard(s)
  \/ \E r \in Replicas : SyncReplica(r)
  \/ SkipStatefulSet \/ CreateStatefulSet \/ KeepStatefulSet \/ UpdateStatefulSet
  \/ SyncServiceForReplica
  \/ CreateTablesForReplica \/ CreateTablesFails
  \/ FindExtraReplicas

DeleteReplicas ==
  \/ \E s \in Shards : DeleteShard(s)
  \/ \E r \in Replicas : SkipReplica(r) \/ DeleteTables(r)
  \/ DeleteStatefulSet \/ DeletePVC \/ DeleteConfigMap
  \/ DeleteServiceForReplica \/ StatusAfterDelete

Pass ==
  \/ Reconcile
  \/ SyncServiceForInstallation \/ SyncConfigMaps
  \/ SyncReplicas \/ DeleteReplicas
  \/ ApplyConfiguration \/ UpdateInstallation \/ UpdateStatus \/ Conflict
  \/ DeleteConfigMaps \/ DeleteServiceForInstallation
  \/ StatusTerminated \/ RemoveFinalizer

User ==
  \/ \E w \in Layouts : ChangeLayout(w)
  \/ \E t \in Templates : ChangeTemplate(t)
  \/ \E b \in BOOLEAN : SetPaused(b)
  \/ DeleteInstallation

Pods == \E r \in Replicas : PodReady(r) \/ PodReplaced(r) \/ PodLost(r)

Informers == InformerInstallation \/ \E r \in Replicas : InformerStatefulSet(r)

Next == Pass \/ Fault \/ User \/ Pods \/ Informers \/ CollectGarbage \/ Rest

Spec == Init /\ [][Next]_vars

(***************************************************************************)
(* Fairness: the worker makes its next call and takes the installation     *)
(* from the queue, watches deliver, the StatefulSet controller brings up   *)
(* pods, the garbage collector runs. Nothing is assumed of the user.       *)
(***************************************************************************)
Fairness ==
  /\ WF_vars(Pass)
  /\ WF_vars(InformerInstallation)
  /\ \A r \in Replicas : WF_vars(InformerStatefulSet(r)) /\ WF_vars(PodReady(r))
  /\ WF_vars(CollectGarbage)

FairSpec == Spec /\ Fairness

----------------------------------------------------------------------------
(* Properties *)

(* Every variable holds a value of its type.                               *)
TypeOK ==
  /\ spec \in InstallationSpec /\ snap \in InstallationSpec
  /\ status \in InstallationStatus /\ mem \in InstallationStatus
  /\ sts \in [Replicas -> StatefulSet] /\ stsCache \in [Replicas -> StatefulSet]
  /\ configMaps \subseteq Replicas /\ services \subseteq Replicas
  /\ pvcs \subseteq Replicas /\ tables \subseteq Replicas
  /\ common \subseteq {"configMaps", "service"}
  /\ diCache \in [spec : InstallationSpec, status : InstallationStatus]
  /\ diStale \in BOOLEAN /\ pending \in BOOLEAN /\ fresh \in BOOLEAN
  /\ pc \in {"idle", "service", "configMaps", "shards", "replicas", "statefulSet",
             "replicaService", "createTables", "delete", "deleteStatefulSet",
             "deletePVC", "deleteConfigMap", "deleteService", "replicaDeleted",
             "update", "status", "deleteInstallationService", "terminated",
             "removeFinalizer"}
  /\ shards \subseteq Shards /\ shard \subseteq Replicas /\ todo \subseteq Replicas
  /\ cur \in Replicas \cup {None}
  /\ edits \in 0..MaxEdits /\ faults \in 0..MaxFaults

(***************************************************************************)
(* A stored state of Completed is earned: the counter comparison of IsReady*)
(* stands for each replica of the applied spec, no one counted twice and   *)
(* none through an entry that another pass left behind. Each of them has   *)
(* an entry that is Normal, or Ready with its tables synced (Sync, IsReady,*)
(* syncReplica, syncRepliaStatus).                                         *)
(***************************************************************************)
Counted(entry) ==
  entry.phase = "Normal" \/ (entry.phase = "Ready" /\ entry.state = "Sync")

CompletedIsEarned ==
  status.state = "Completed" /\ ~spec.deleting =>
    \A r \in status.prev : Counted(status.rep[r])

(***************************************************************************)
(* A stored entry in phase Ready is in state Sync: a pass that reads it    *)
(* back never owes the replica its tables, so that no replica is left      *)
(* between the two (syncReplica stores Ready only through CreateTables).   *)
(***************************************************************************)
StoredReadyIsSynced ==
  \A r \in Replicas : status.rep[r].phase = "Ready" => status.rep[r].state = "Sync"

(***************************************************************************)
(* The status that is written describes the spec that is stored: a write   *)
(* built from a spec the user has changed since conflicts, whatever the    *)
(* caches showed, also in the middle of a pass (UpdateInstallationStatus). *)
(***************************************************************************)
StatusWritesAreCurrent ==
  [][status' # status /\ spec'.exists =>
       /\ snap.want = spec.want /\ snap.template = spec.template
       /\ snap.deleting = spec.deleting]_vars

(***************************************************************************)
(* A replica's entry becomes Sync only when a pass has copied the tables   *)
(* to the volume it has now; a status carried over a failed copy, a        *)
(* requeue or a replica that was deleted in between would break it.        *)
(***************************************************************************)
SyncFollowsTables ==
  [][\A r \in Replicas :
       status'.rep[r].state = "Sync" /\ status.rep[r].state # "Sync" => r \in tables]_vars

(***************************************************************************)
(* No replica that the stored spec asks for is torn down, unless the       *)
(* installation is deleted or the pass works on a spec that has changed    *)
(* since it was read: the extra replicas come from PrevSpec and the spec,  *)
(* and never from a half-finished scale-out (syncShard).                   *)
(***************************************************************************)
WantedReplicasSurvive ==
  [][\A r \in spec.want :
       \/ sts[r].exists /\ ~sts'[r].exists
       \/ r \in pvcs /\ r \notin pvcs'
       => spec.deleting \/ ~spec.exists \/ ~fresh]_vars

(***************************************************************************)
(* When the operator takes its finalizer off a deleted installation, no    *)
(* replica that the spec names has a StatefulSet any more, whatever failed *)
(* on the way and however often the deletion was begun again               *)
(* (deleteDaisyInstallation). It goes by the spec alone: a replica of a    *)
(* scale-in that has not been carried out, or one that orphan_replica      *)
(* shows, is left to the garbage collector. For caches that do not lag.    *)
(***************************************************************************)
WantedGoBeforeFinalizer ==
  [][spec.exists /\ spec.finalizer /\ ~spec'.exists =>
       \A r \in spec.want : ~sts[r].exists]_vars

(***************************************************************************)
(* An installation that is deleted by a user who has waited for Completed  *)
(* leaves nothing behind: when it goes, by whosever hand, no replica at    *)
(* all, wanted or not, has a StatefulSet or, under the reclaim policy      *)
(* Delete, a volume, which no garbage collector would take. Completed must *)
(* not be stored before the finalizer is, the scale-ins before it must     *)
(* have left no orphan, and the deletion may not be cut off between the    *)
(* parts of a replica (Sync, deleteDaisyInstallation, deleteReplica).      *)
(***************************************************************************)
DeletionLeavesNothing ==
  [][spec.exists /\ ~spec'.exists =>
       \A r \in Replicas : ~sts[r].exists /\ (ReclaimDelete => r \notin pvcs)]_vars

(***************************************************************************)
(* Once the user stops editing, the system settles for good: it does not   *)
(* react to its own writes for ever, and it does not wait for an event     *)
(* that no one sends (Reconcile, Owns, the requeue errors).                *)
(***************************************************************************)
EventuallySettled == <>[]Settled

(* A settled installation that is not paused has been carried out: its     *)
(* replicas run the template it asks for and the status says so.           *)
CarriedOut ==
  /\ status.state = "Completed" /\ status.prev = spec.want
  /\ \A r \in spec.want : sts[r].exists /\ sts[r].template = spec.template
  /\ spec.want \subseteq configMaps \cap services

SettledIsCarriedOut ==
  Settled /\ spec.exists /\ ~spec.paused => CarriedOut

(***************************************************************************)
(* What a finished scale-in leaves: no StatefulSet of a replica that is    *)
(* not wanted any more ("delete extra replicas", syncShard) ...            *)
(***************************************************************************)
Finished == Settled /\ spec.exists /\ ~spec.paused

ExtraReplicasAreDeleted ==
  Finished => \A r \in Replicas \ spec.want : ~sts[r].exists

(* ... and none of the other things a replica consists of: ConfigMap,      *)
(* Service and, under the reclaim policy Delete, volumes (deleteReplica).  *)
DeletedReplicasAreCleanedUp ==
  Finished => \A r \in Replicas \ spec.want :
    ~sts[r].exists =>
      r \notin configMaps \cup services \cup (IF ReclaimDelete THEN pvcs ELSE {})

(***************************************************************************)
(* A scale-out that is reported as Completed has its new replicas in state *)
(* Sync: their tables have been copied (syncReplica, and the test "scale   *)
(* out, eventually replica's state change to Sync").                       *)
(***************************************************************************)
ScaleOutIsSynced ==
  [][status.prev # {} /\ status'.state = "Completed" /\ spec'.exists =>
       \A r \in status'.prev \ status.prev : status'.rep[r].state = "Sync"]_vars

(* A deleted installation is eventually gone.                              *)
DeletionCompletes == spec.deleting ~> ~spec.exists
=============================================================================
