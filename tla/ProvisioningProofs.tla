------------------------- MODULE ProvisioningProofs --------------------------
(***************************************************************************)
(* Proofs about Provisioning, for any documents, templates, surroundings,  *)
(* replicas and orders, and any number of edits and faults.                *)
(***************************************************************************)
EXTENDS Provisioning, TLAPS

----------------------------------------------------------------------------
(* Passes *)

(* The worker is a record of its fields.                                   *)
WorkerInv ==
  DOMAIN worker = {"step", "source", "merged", "uses", "fetched", "norm", "left", "replica",
                   "found", "missed"}

(* No step gives the record of a pass another shape.                       *)
LEMMA WorkerInvHolds == Spec => []WorkerInv
<1>1. Init => WorkerInv
  BY DEF Init, WorkerInv, Down, Idle
<1>2. ASSUME WorkerInv, Next PROVE WorkerInv'
  <2> USE DEF WorkerInv, Idle, Down, Goto
  <2>1. CASE Work
    BY <1>2, <2>1
    DEF Work, Merging, SyncReplica, ReadInstallation, FindTemplate, FetchTemplate,
        EnlistTemplate, Merged, SkipTemplate, Normalize, CreateCommon, CreateUsers,
        BeginReplica, SkipPaused, CreateStatefulSet, RefuseClaims, FindVolumes, UpdateSet,
        ResizeVolume, EndReplicas, SkipRemoved, RemoveReplica, RemoveHostMap, EndExtra, UpdateCommon,
        UpdateUsers, Finish
  <2>2. CASE Trouble \/ Editing \/ Kubernetes \/ Others \/ Start
    BY <1>2, <2>2
    DEF Trouble, FailUpdate, FailCall, Crash, Editing, Edit, EditTemplate,
        DeleteTemplate, EndFinalizer, EditSurroundings, Kubernetes, ProvideVolume,
        StartPod, Others,
        ReconcileOther, ReconcileTemplate, Start
  <2> QED BY <1>2, <2>1, <2>2 DEF Next
<1>3. WorkerInv /\ UNCHANGED vars => WorkerInv'
  BY DEF WorkerInv, vars
<1> QED BY <1>1, <1>2, <1>3, PTL DEF Spec

----------------------------------------------------------------------------
(* ConfigMaps before StatefulSets *)

(* The steps of a pass that come after the creation of the ConfigMaps.     *)
Created == {"replicas", "statefulset", "resize", "extra", "remove map", "update common",
            "update users", "finish"}

(* What is there already at each step: a ConfigMap is never taken away,    *)
(* but that of a replica together with its StatefulSet.                    *)
MapsInv ==
  /\ DOMAIN configMaps \subseteq {"common", "users"}
  /\ At("users") => "common" \in DOMAIN configMaps
  /\ worker.step \in Created \/ DOMAIN sets # {} =>
       {"common", "users"} \subseteq DOMAIN configMaps
  /\ DOMAIN sets \subseteq DOMAIN hostMaps
  /\ At("statefulset") \/ At("resize") => current \in DOMAIN hostMaps
  /\ At("remove map") => current \notin DOMAIN sets

(* Every step keeps the order of ConfigMaps and StatefulSets.              *)
LEMMA MapsInvStep ==
  ASSUME WorkerInv, MapsInv, Next PROVE MapsInv'
<1> USE DEF MapsInv, WorkerInv, At, Goto, Idle, Down, current, Created
<1>1. CASE Merging
  BY <1>1 DEF Merging, ReadInstallation, FindTemplate, FetchTemplate, EnlistTemplate,
              Merged, SkipTemplate, Normalize, objects
<1>2. CASE CreateCommon \/ CreateUsers \/ UpdateCommon \/ UpdateUsers
  <2>1. ASSUME NEW name, NEW update, SyncConfigMap(name, update)
        PROVE  DOMAIN configMaps' = DOMAIN configMaps \cup {name}
    BY <2>1 DEF SyncConfigMap, Put
  <2>2. CASE CreateCommon
    <3>1. DOMAIN configMaps' = DOMAIN configMaps \cup {"common"}
      BY <2>1, <2>2 DEF CreateCommon
    <3> QED BY <2>2, <3>1 DEF CreateCommon
  <2>3. CASE CreateUsers
    <3>1. DOMAIN configMaps' = DOMAIN configMaps \cup {"users"}
      BY <2>1, <2>3 DEF CreateUsers
    <3> QED BY <2>3, <3>1 DEF CreateUsers
  <2>4. CASE UpdateCommon
    <3>1. DOMAIN configMaps' = DOMAIN configMaps \cup {"common"}
      BY <2>1, <2>4 DEF UpdateCommon
    <3> QED BY <2>4, <3>1 DEF UpdateCommon
  <2>5. CASE UpdateUsers
    <3>1. DOMAIN configMaps' = DOMAIN configMaps \cup {"users"}
      BY <2>1, <2>5 DEF UpdateUsers
    <3> QED BY <2>5, <3>1 DEF UpdateUsers
  <2> QED BY <1>2, <2>2, <2>3, <2>4, <2>5
<1>3. CASE \E r \in Replicas : BeginReplica(r)
  BY <1>3 DEF BeginReplica, Put
<1>4. CASE CreateStatefulSet
  BY <1>4 DEF CreateStatefulSet, Put
<1>5. CASE \/ SkipPaused \/ RefuseClaims \/ FindVolumes
           \/ \E c \in worker.found : ResizeVolume(c)
  <2>1. CASE SkipPaused
    BY <2>1 DEF SkipPaused, objects
  <2>2. CASE RefuseClaims
    BY <2>2 DEF RefuseClaims, objects
  <2>3. CASE FindVolumes
    BY <2>3 DEF FindVolumes, objects
  <2>4. CASE \E c \in worker.found : ResizeVolume(c)
    BY <2>4 DEF ResizeVolume, objects
  <2> QED BY <1>5, <2>1, <2>2, <2>3, <2>4
<1>6. CASE UpdateSet
  BY <1>6 DEF UpdateSet
<1>7. CASE EndReplicas \/ EndExtra \/ Finish
  <2>1. CASE EndReplicas
    BY <2>1 DEF EndReplicas, objects
  <2>2. CASE EndExtra
    BY <2>2 DEF EndExtra, objects
  <2>3. CASE Finish
    BY <2>3 DEF Finish, objects
  <2> QED BY <1>7, <2>1, <2>2, <2>3
<1>8. CASE (\E r \in Replicas : SkipRemoved(r) \/ RemoveReplica(r)) \/ RemoveHostMap
  <2>1. CASE \E r \in Replicas : SkipRemoved(r)
    BY <2>1 DEF SkipRemoved, objects
  <2>2. CASE \E r \in Replicas : RemoveReplica(r)
    BY <2>2 DEF RemoveReplica, Restrict
  <2>3. CASE RemoveHostMap
    BY <2>3 DEF RemoveHostMap, Restrict
  <2> QED BY <1>8, <2>1, <2>2, <2>3
<1>9. CASE Start \/ Trouble
  <2>1. CASE Start
    BY <2>1 DEF Start, objects
  <2>2. CASE FailUpdate
    BY <2>2 DEF FailUpdate, objects
  <2>3. CASE FailCall
    BY <2>3 DEF FailCall, objects
  <2>4. CASE Crash
    BY <2>4 DEF Crash, objects
  <2> QED BY <1>9, <2>1, <2>2, <2>3, <2>4 DEF Trouble
<1>10. CASE Others \/ Editing
  BY <1>10 DEF Others, ReconcileOther, ReconcileTemplate, Editing, Edit, EditTemplate,
               DeleteTemplate, EndFinalizer, EditSurroundings, objects
<1>11. CASE Kubernetes
  BY <1>11 DEF Kubernetes, ProvideVolume, StartPod, objects
<1> QED
  BY <1>1, <1>2, <1>3, <1>4, <1>5, <1>6, <1>7, <1>8, <1>9, <1>10, <1>11
  DEF Next, Work, SyncReplica

(* The order of ConfigMaps and StatefulSets is an invariant.               *)
LEMMA MapsInvHolds == Spec => []MapsInv
<1>1. Init => MapsInv
  BY DEF Init, MapsInv, Down, Idle, At, Created
<1>2. ASSUME MapsInv, UNCHANGED vars PROVE MapsInv'
  BY <1>2 DEF MapsInv, vars, objects, At, current
<1>3. WorkerInv /\ MapsInv /\ [Next]_vars => MapsInv'
  BY <1>2, MapsInvStep
<1> QED BY <1>1, <1>3, WorkerInvHolds, PTL DEF Spec

(***************************************************************************)
(* No StatefulSet exists whose ConfigMaps are not all there, whatever      *)
(* fails, crashes and is edited between the calls.                         *)
(***************************************************************************)
THEOREM MapsComeFirst == Spec => []ConfigMapsComeFirst
<1>1. MapsInv => ConfigMapsComeFirst
  BY DEF MapsInv, ConfigMapsComeFirst
<1> QED BY <1>1, MapsInvHolds, PTL

----------------------------------------------------------------------------
(* Volumes *)

(* The StatefulSet a pass is about to change exists, and it changes        *)
(* volumes of it that exist.                                               *)
VolumesInv ==
  /\ DOMAIN volumes = Replicas
  /\ DOMAIN sets \subseteq Replicas
  /\ At("statefulset") \/ At("resize") => current \in Replicas
  /\ At("resize") =>
       /\ current \in DOMAIN sets
       /\ worker.found \subseteq DOMAIN volumes[current] \cap DOMAIN sets[current].claims

(* Every step keeps the volumes found among those claimed and there.       *)
LEMMA VolumesInvStep ==
  ASSUME WorkerInv, VolumesInv, Next PROVE VolumesInv'
<1> USE DEF VolumesInv, WorkerInv, At, Goto, Idle, Down, current
<1>1. CASE Merging
  BY <1>1 DEF Merging, ReadInstallation, FindTemplate, FetchTemplate, EnlistTemplate,
              Merged, SkipTemplate, Normalize, objects
<1>2. CASE CreateCommon \/ CreateUsers \/ UpdateCommon \/ UpdateUsers
  BY <1>2 DEF CreateCommon, CreateUsers, UpdateCommon, UpdateUsers
<1>3. CASE \E r \in Replicas : BeginReplica(r)
  BY <1>3 DEF BeginReplica
<1>4. CASE CreateStatefulSet
  BY <1>4 DEF CreateStatefulSet, Put
<1>5. CASE SkipPaused
  BY <1>5 DEF SkipPaused, objects
<1>6. CASE RefuseClaims
  BY <1>6 DEF RefuseClaims, objects
<1>7. CASE FindVolumes
  BY <1>7 DEF FindVolumes, objects
<1>8. CASE \E c \in worker.found : ResizeVolume(c)
  BY <1>8 DEF ResizeVolume, objects
<1>9. CASE UpdateSet
  BY <1>9 DEF UpdateSet
<1>10. CASE EndReplicas
  BY <1>10 DEF EndReplicas, objects
<1>11. CASE (\E r \in Replicas : SkipRemoved(r) \/ RemoveReplica(r)) \/ RemoveHostMap
  <2>1. CASE \E r \in Replicas : SkipRemoved(r)
    BY <2>1 DEF SkipRemoved, objects
  <2>2. CASE \E r \in Replicas : RemoveReplica(r)
    BY <2>2 DEF RemoveReplica, Restrict
  <2>3. CASE RemoveHostMap
    BY <2>3 DEF RemoveHostMap
  <2> QED BY <1>11, <2>1, <2>2, <2>3
<1>12. CASE EndExtra
  BY <1>12 DEF EndExtra, objects
<1>13. CASE Finish
  BY <1>13 DEF Finish, objects
<1>14. CASE Start
  BY <1>14 DEF Start, objects
<1>15. CASE FailUpdate
  BY <1>15 DEF FailUpdate, objects
<1>16. CASE FailCall
  BY <1>16 DEF FailCall, objects
<1>17. CASE Crash
  BY <1>17 DEF Crash, objects
<1>18. CASE Others \/ Editing
  BY <1>18 DEF Others, ReconcileOther, ReconcileTemplate, Editing, Edit, EditTemplate,
               DeleteTemplate, EndFinalizer, EditSurroundings, objects
<1>19. CASE Kubernetes
  BY <1>19 DEF Kubernetes, ProvideVolume, StartPod, objects, Put
<1> QED
  BY <1>1, <1>2, <1>3, <1>4, <1>5, <1>6, <1>7, <1>8, <1>9, <1>10, <1>11, <1>12, <1>13,
     <1>14, <1>15, <1>16, <1>17, <1>18, <1>19
  DEF Next, Work, SyncReplica, Trouble

(* What a pass found of volumes is there all along.                        *)
LEMMA VolumesInvHolds == Spec => []VolumesInv
<1>1. Init => VolumesInv
  BY ProvisioningConstants DEF Init, VolumesInv, Down, Idle, At
<1>2. ASSUME VolumesInv, UNCHANGED vars PROVE VolumesInv'
  BY <1>2 DEF VolumesInv, vars, objects, At, current
<1>3. WorkerInv /\ VolumesInv /\ [Next]_vars => VolumesInv'
  BY <1>2, VolumesInvStep
<1> QED BY <1>1, <1>3, WorkerInvHolds, PTL DEF Spec

(* What Storage sees of the StatefulSets. *)
Claims == [r \in DOMAIN sets |-> sets[r].claims]

(* Every step is one of Storage, or changes neither claims nor volumes.    *)
LEMMA StorageStep ==
  ASSUME WorkerInv, VolumesInv, Next
  PROVE  StorageOf!Next \/ UNCHANGED <<Claims, volumes>>
<1> USE DEF Claims
<1>1. CASE UNCHANGED <<sets, volumes>>
  BY <1>1
<1>2. CASE CreateStatefulSet
  <2>1. PICK r : r = current
    OBVIOUS
  <2>2. /\ r \notin DOMAIN sets /\ UNCHANGED volumes
        /\ sets' = Put(sets, r, Wanted)
    BY <1>2, <2>1, Zenon DEF CreateStatefulSet
  <2>3. /\ DOMAIN sets' = DOMAIN sets \cup {r}
        /\ \A q \in DOMAIN sets : sets'[q] = sets[q]
    BY <2>2 DEF Put
  <2>4. Claims' = [q \in DOMAIN Claims \cup {r} |-> IF q = r THEN Claims'[r] ELSE Claims[q]]
    BY <2>2, <2>3
  <2>5. r \in DOMAIN Claims' \ DOMAIN Claims
    BY <2>2, <2>3
  <2>6. StorageOf!Create(r)
    BY <2>2, <2>4, <2>5, Zenon DEF StorageOf!Create, StorageOf!Put
  <2>7. r \in Replicas
    BY <1>2, <2>1 DEF CreateStatefulSet, VolumesInv, At
  <2> QED BY <2>6, <2>7 DEF StorageOf!Next
<1>3. CASE \E c \in worker.found : ResizeVolume(c)
  <2>1. PICK c \in worker.found : ResizeVolume(c)
    BY <1>3
  <2>2. /\ current \in DOMAIN sets /\ current \in DOMAIN volumes /\ current \in Replicas
        /\ c \in DOMAIN volumes[current] /\ c \in DOMAIN sets[current].claims
        /\ UNCHANGED sets
    BY <2>1 DEF ResizeVolume, VolumesInv, objects
  <2>3. volumes[current][c] < Wanted.claims[c]
    BY <2>1 DEF ResizeVolume, StillToResize, ToResize, Increase
  <2>4. volumes' = [volumes EXCEPT ![current][c] = Wanted.claims[c]]
    BY <2>1 DEF ResizeVolume
  <2>5. volumes'[current][c] = Wanted.claims[c]
    BY <2>2, <2>4
  <2>6. StorageOf!Grow(current, c)
    BY <2>2, <2>3, <2>4, <2>5 DEF StorageOf!Grow
  <2> QED BY <2>2, <2>6 DEF StorageOf!Next
<1>4. CASE UpdateSet
  BY <1>4 DEF UpdateSet, Updated
<1>5. CASE \E r \in Replicas : RemoveReplica(r)
  <2>1. PICK r \in Replicas : RemoveReplica(r)
    BY <1>5
  <2>2. StorageOf!Remove(r)
    BY <2>1 DEF RemoveReplica, StorageOf!Remove, Restrict, StorageOf!Restrict
  <2> QED BY <2>2 DEF StorageOf!Next
<1>6. CASE \E r \in Replicas :
             r \in DOMAIN sets /\ \E c \in DOMAIN sets[r].claims : ProvideVolume(r, c)
  <2>1. PICK r \in Replicas :
          r \in DOMAIN sets /\ \E c \in DOMAIN sets[r].claims : ProvideVolume(r, c)
    BY <1>6
  <2>2. PICK c \in DOMAIN sets[r].claims : ProvideVolume(r, c)
    BY <2>1
  <2>3. StorageOf!Provide(r, c)
    BY <2>1, <2>2 DEF ProvideVolume, StorageOf!Provide, objects, Put, StorageOf!Put
  <2> QED BY <2>1, <2>2, <2>3 DEF StorageOf!Next
<1>7. CASE Merging
  BY <1>1, <1>7 DEF Merging, ReadInstallation, FindTemplate, FetchTemplate, EnlistTemplate,
              SkipTemplate, Normalize, objects
<1>8. CASE \/ CreateCommon \/ CreateUsers \/ UpdateCommon \/ UpdateUsers
           \/ \E r \in Replicas : BeginReplica(r) \/ SkipRemoved(r)
           \/ RemoveHostMap
           \/ SkipPaused \/ RefuseClaims \/ FindVolumes \/ EndReplicas \/ EndExtra \/ Finish
  BY <1>1, <1>8, Zenon
  DEF CreateCommon, CreateUsers, UpdateCommon, UpdateUsers, BeginReplica, SkipPaused,
      RefuseClaims, FindVolumes, EndReplicas, SkipRemoved, RemoveHostMap, EndExtra, Finish,
      objects
<1>9. CASE Start \/ Trouble \/ Others \/ Editing \/ \E r \in Replicas : StartPod(r)
  BY <1>1, <1>9, Zenon
  DEF Start, Trouble, FailUpdate, FailCall, Crash, Others, ReconcileOther, ReconcileTemplate,
      Editing, Edit, EditTemplate, DeleteTemplate, EndFinalizer, EditSurroundings, StartPod,
      objects
<1> QED
  BY <1>2, <1>3, <1>4, <1>5, <1>6, <1>7, <1>8, <1>9 DEF Next, Work, SyncReplica, Kubernetes

(***************************************************************************)
(* The operator implements Storage: a StatefulSet keeps its claims, no     *)
(* volume goes and none gets smaller, for any claims and sizes.            *)
(***************************************************************************)
THEOREM VolumesSafe == Spec => VolumesAreSafe
<1>1. Init => StorageOf!Init
  BY ProvisioningConstants DEF Init, StorageOf!Init
<1>2. WorkerInv /\ VolumesInv /\ [Next]_vars => [StorageOf!Next]_(StorageOf!vars)
  <2>1. ASSUME UNCHANGED vars PROVE UNCHANGED <<Claims, volumes>>
    BY <2>1 DEF vars, objects, Claims
  <2> QED BY <2>1, StorageStep DEF StorageOf!vars, Claims
<1> QED
  BY <1>1, <1>2, WorkerInvHolds, VolumesInvHolds, PTL
  DEF Spec, VolumesAreSafe, StorageOf!Spec

----------------------------------------------------------------------------
(* ConfigMaps of one specification *)

CommonIs(norm) ==
  /\ "common" \in DOMAIN configMaps
  /\ \E o \in Orders : configMaps["common"] = CreateConfigsCommon(norm, config, o)
UsersIs(norm) ==
  /\ "users" \in DOMAIN configMaps
  /\ \E o \in Orders : configMaps["users"] = CreateConfigsUsers(norm, config, o)
HostIs(norm, r) ==
  /\ r \in DOMAIN hostMaps
  /\ \E o \in Orders : hostMaps[r] = CreateConfigsHost(norm, r, config, o)

(* The steps at which the pass goes through the replicas, and after that.  *)
Replicating == {"common", "users", "replicas", "statefulset", "resize"}
Updating == {"extra", "remove map", "update common", "update users", "finish"}

(* What a pass has written so far is of its specification, and nothing     *)
(* that it does later takes that back.                                     *)
OneSpecInv ==
  /\ worker.step \in {"update users", "finish"} => CommonIs(worker.norm)
  /\ At("finish") => UsersIs(worker.norm)
  /\ worker.step \in Replicating =>
       \A r \in DOMAIN worker.norm.replicas \ worker.left : HostIs(worker.norm, r)
  /\ worker.step \in Updating =>
       \A r \in DOMAIN worker.norm.replicas : HostIs(worker.norm, r)
  /\ At("extra") \/ At("remove map") =>
       worker.left \cap DOMAIN worker.norm.replicas = {}
  /\ At("remove map") => current \notin DOMAIN worker.norm.replicas
  /\ AtRest => /\ CommonIs(applied.norm) /\ UsersIs(applied.norm)
               /\ \A r \in DOMAIN applied.norm.replicas : HostIs(applied.norm, r)

(* Nothing is promised when a pass is over that another one follows.       *)
LEMMA PassEnds ==
  ASSUME worker.step' \in {"idle", "down"}, pending' \/ worker.step' = "down"
  PROVE  OneSpecInv'
BY DEF OneSpecInv, At, AtRest, Replicating, Updating

(* A step that leaves the replicas' ConfigMaps alone, before the updates.  *)
LEMMA PassGoesOn ==
  ASSUME OneSpecInv, worker.step \in Replicating, worker'.step \in Replicating,
         worker'.norm = worker.norm, worker'.left = worker.left,
         UNCHANGED <<hostMaps, config>>
  PROVE  OneSpecInv'
BY DEF OneSpecInv, At, AtRest, Replicating, Updating, HostIs

(* Every step keeps what has been written of one specification.            *)
LEMMA OneSpecInvStep ==
  ASSUME WorkerInv, OneSpecInv, Next PROVE OneSpecInv'
<1> USE DEF WorkerInv, At, Goto
<1>1. CASE Merging
  <2>1. CASE Normalize
    BY <2>1 DEF Normalize, OneSpecInv, AtRest, Replicating, Updating
  <2>2. CASE Merging /\ ~Normalize
    <3>1. worker'.step \in {"merge", "enlist"}
      BY <2>2
      DEF Merging, ReadInstallation, FindTemplate, FetchTemplate, EnlistTemplate, Merged,
                  SkipTemplate, Idle
    <3> QED BY <3>1 DEF OneSpecInv, AtRest, Replicating, Updating
  <2> QED BY <1>1, <2>1, <2>2
<1>2. CASE CreateCommon \/ CreateUsers
  <2>1. /\ worker.step \in {"common", "users"} /\ worker'.step \in {"users", "replicas"}
        /\ worker'.norm = worker.norm /\ worker'.left = worker.left
        /\ UNCHANGED <<hostMaps, config>>
    BY <1>2 DEF CreateCommon, CreateUsers, operator
  <2> QED BY <2>1, PassGoesOn DEF Replicating
<1>3. CASE \E r \in Replicas : BeginReplica(r)
  <2>1. PICK r \in Replicas : BeginReplica(r)
    BY <1>3
  <2>2. PICK o \in Orders :
          hostMaps' = Put(hostMaps, r, CreateConfigsHost(worker.norm, r, config, o))
    BY <2>1, Zenon DEF BeginReplica
  <2>3. /\ r \in DOMAIN hostMaps'
        /\ hostMaps'[r] = CreateConfigsHost(worker.norm, r, config, o)
        /\ \A q \in DOMAIN hostMaps :
             q # r => q \in DOMAIN hostMaps' /\ hostMaps'[q] = hostMaps[q]
    BY <2>2 DEF Put
  <2>4. /\ worker.step = "replicas" /\ worker'.step = "statefulset"
        /\ worker'.norm = worker.norm /\ worker'.left = worker.left \ {r}
        /\ UNCHANGED config
    BY <2>1 DEF BeginReplica, operator
  <2> QED BY <2>3, <2>4 DEF OneSpecInv, AtRest, Replicating, Updating, HostIs
<1>4. CASE CreateStatefulSet \/ RefuseClaims \/ FailCall
  BY <1>4, PassEnds DEF CreateStatefulSet, RefuseClaims, FailCall, Idle
<1>5. CASE Crash
  BY <1>5, PassEnds DEF Crash, Down, Idle
<1>6. CASE Start
  BY <1>6, PassEnds DEF Start, Idle
<1>7. CASE SkipPaused
  BY <1>7, PassGoesOn DEF SkipPaused, objects, operator, Replicating
<1>8. CASE FindVolumes
  BY <1>8, PassGoesOn DEF FindVolumes, objects, operator, Replicating
<1>9. CASE \E c \in worker.found : ResizeVolume(c)
  BY <1>9, PassGoesOn DEF ResizeVolume, objects, operator, Replicating
<1>10. CASE UpdateSet
  BY <1>10, PassGoesOn DEF UpdateSet, objects, operator, Replicating
<1>11. CASE FailUpdate
  BY <1>11, PassGoesOn DEF FailUpdate, objects, operator, Replicating
<1>12. CASE EndReplicas
  <2>1. /\ worker.step = "replicas" /\ worker'.step = "extra"
        /\ worker.left = {} /\ worker'.left = Extra
        /\ worker'.norm = worker.norm /\ UNCHANGED <<configMaps, hostMaps, config>>
    BY <1>12 DEF EndReplicas, objects, operator
  <2>2. Extra \cap DOMAIN worker.norm.replicas = {}
    BY DEF Extra
  <2> QED BY <2>1, <2>2 DEF OneSpecInv, AtRest, Replicating, Updating, HostIs
<1>13. CASE (\E r \in Replicas : SkipRemoved(r) \/ RemoveReplica(r)) \/ RemoveHostMap
  <2>1. CASE \E r \in Replicas : SkipRemoved(r)
    <3>1. PICK r \in Replicas : SkipRemoved(r)
      BY <2>1
    <3>2. /\ worker.step = "extra" /\ worker'.step = "extra"
          /\ worker'.norm = worker.norm /\ worker'.left = worker.left \ {r}
          /\ UNCHANGED <<configMaps, hostMaps, config>>
      BY <3>1 DEF SkipRemoved, objects, operator
    <3> QED BY <3>2 DEF OneSpecInv, AtRest, Replicating, Updating, HostIs
  <2>2. CASE \E r \in Replicas : RemoveReplica(r)
    <3>1. PICK r \in Replicas : RemoveReplica(r)
      BY <2>2
    <3>2. /\ worker.step = "extra" /\ worker'.step = "remove map" /\ r \in worker.left
          /\ worker'.norm = worker.norm /\ worker'.left = worker.left \ {r}
          /\ worker'.replica = r /\ UNCHANGED <<configMaps, hostMaps, config>>
      BY <3>1 DEF RemoveReplica, operator
    <3> QED BY <3>2 DEF OneSpecInv, AtRest, Replicating, Updating, HostIs, current
  <2>3. CASE RemoveHostMap
    <3>1. /\ worker.step = "remove map" /\ worker'.step = "extra"
          /\ worker'.norm = worker.norm /\ worker'.left = worker.left
          /\ UNCHANGED <<configMaps, config>>
      BY <2>3 DEF RemoveHostMap, operator
    <3>2. \A q \in DOMAIN hostMaps :
            q # current => q \in DOMAIN hostMaps' /\ hostMaps'[q] = hostMaps[q]
      BY <2>3 DEF RemoveHostMap, Restrict
    <3> QED BY <3>1, <3>2 DEF OneSpecInv, AtRest, Replicating, Updating, HostIs
  <2> QED BY <1>13, <2>1, <2>2, <2>3
<1>14. CASE EndExtra
  <2>1. /\ worker.step = "extra" /\ worker'.step = "update common"
        /\ worker'.norm = worker.norm /\ UNCHANGED <<hostMaps, config>>
    BY <1>14 DEF EndExtra, objects, operator
  <2> QED BY <2>1 DEF OneSpecInv, AtRest, Replicating, Updating, HostIs
<1>15. CASE UpdateCommon
  <2>1. PICK o \in Orders :
          configMaps' =
            Put(configMaps, "common", CreateConfigsCommon(worker.norm, config, o))
    BY <1>15 DEF UpdateCommon, SyncConfigMap, ContentOf
  <2>2. /\ "common" \in DOMAIN configMaps'
        /\ configMaps'["common"] = CreateConfigsCommon(worker.norm, config, o)
    BY <2>1 DEF Put
  <2>3. /\ worker.step = "update common" /\ worker'.step = "update users"
        /\ worker'.norm = worker.norm /\ UNCHANGED <<hostMaps, config>>
    BY <1>15 DEF UpdateCommon, operator
  <2> QED BY <2>2, <2>3 DEF OneSpecInv, AtRest, Replicating, Updating, HostIs, CommonIs
<1>16. CASE UpdateUsers
  <2>1. PICK o \in Orders :
          configMaps' = Put(configMaps, "users", CreateConfigsUsers(worker.norm, config, o))
    BY <1>16 DEF UpdateUsers, SyncConfigMap, ContentOf
  <2>2. /\ "users" \in DOMAIN configMaps'
        /\ configMaps'["users"] = CreateConfigsUsers(worker.norm, config, o)
        /\ "common" \in DOMAIN configMaps =>
              "common" \in DOMAIN configMaps' /\ configMaps'["common"] = configMaps["common"]
    BY <2>1 DEF Put
  <2>3. /\ worker.step = "update users" /\ worker'.step = "finish"
        /\ worker'.norm = worker.norm /\ UNCHANGED <<hostMaps, config>>
    BY <1>16 DEF UpdateUsers, operator
  <2>4. UsersIs(worker.norm)'
    BY <2>2, <2>3 DEF UsersIs
  <2>5. CommonIs(worker.norm)'
    <3>1. CommonIs(worker.norm)
      BY <2>3 DEF OneSpecInv
    <3> QED BY <2>2, <2>3, <3>1 DEF CommonIs
  <2>6. (\A r \in DOMAIN worker.norm.replicas : HostIs(worker.norm, r))'
    <3>1. \A r \in DOMAIN worker.norm.replicas : HostIs(worker.norm, r)
      BY <2>3 DEF OneSpecInv, Updating
    <3> QED BY <2>3, <3>1 DEF HostIs
  <2>7. /\ worker'.step \notin Replicating /\ ~AtRest'
        /\ ~At("extra")' /\ ~At("remove map")'
    BY <2>3 DEF Replicating, AtRest
  <2> QED
    BY Zenon, <2>4, <2>5, <2>6, <2>7 DEF OneSpecInv
<1>17. CASE Finish
  <2>1. /\ worker.step = "finish" /\ worker'.step = "idle"
        /\ applied'.norm = worker.norm /\ UNCHANGED <<configMaps, hostMaps, config>>
    BY <1>17 DEF Finish, objects, operator, Idle
  <2> QED BY <2>1 DEF OneSpecInv, AtRest, Replicating, Updating, HostIs, CommonIs, UsersIs
<1>18. CASE Others \/ Editing \/ Kubernetes
  <2>1. UNCHANGED <<worker, configMaps, hostMaps, config, applied>>
    BY <1>18
    DEF Others, ReconcileOther, ReconcileTemplate, Editing, Edit, EditTemplate,
        DeleteTemplate, EndFinalizer, EditSurroundings, Kubernetes, ProvideVolume,
         StartPod, objects, operator
  <2>2. pending => pending'
    BY <1>18, Zenon
    DEF Others, ReconcileOther, ReconcileTemplate, Editing, Edit, EditTemplate,
        DeleteTemplate, EndFinalizer, EditSurroundings, Kubernetes, ProvideVolume, StartPod
  <2> QED
    BY <2>1, <2>2 DEF OneSpecInv, AtRest, Replicating, Updating, HostIs, CommonIs, UsersIs,
       current
<1> QED
  BY <1>1, <1>2, <1>3, <1>4, <1>5, <1>6, <1>7, <1>8, <1>9, <1>10, <1>11, <1>12, <1>13,
     <1>14, <1>15, <1>16, <1>17, <1>18
  DEF Next, Work, SyncReplica, Trouble

(* What a pass has written is of one specification all along.              *)
LEMMA OneSpecInvHolds == Spec => []OneSpecInv
<1>1. Init => OneSpecInv
  BY DEF Init, OneSpecInv, Down, Idle, At, AtRest, Replicating, Updating
<1>2. ASSUME OneSpecInv, UNCHANGED vars PROVE OneSpecInv'
  <2>1. UNCHANGED <<worker, configMaps, hostMaps, config, applied, pending>>
    BY <1>2 DEF vars, objects, operator
  <2> QED
    BY <1>2, <2>1 DEF OneSpecInv, At, AtRest, HostIs, CommonIs, UsersIs, current
<1>3. WorkerInv /\ OneSpecInv /\ [Next]_vars => OneSpecInv'
  BY <1>2, OneSpecInvStep
<1> QED BY <1>1, <1>3, WorkerInvHolds, PTL DEF Spec

(***************************************************************************)
(* At rest all ConfigMaps are of the one specification that was applied    *)
(* and of the configuration that is loaded.                                *)
(***************************************************************************)
THEOREM MapsOfOneSpec == Spec => []ConfigMapsAreOfOneSpec
<1>1. OneSpecInv => ConfigMapsAreOfOneSpec
  BY DEF OneSpecInv, ConfigMapsAreOfOneSpec, CommonIs, UsersIs, HostIs
<1> QED BY <1>1, OneSpecInvHolds, PTL

----------------------------------------------------------------------------
(* Types *)

Steps == {"idle", "down", "merge", "enlist", "common", "users", "replicas", "statefulset",
          "resize", "extra", "remove map", "update common", "update users", "finish"}

(* What is merged has a cluster in it, the document of a pass is one that  *)
(* users write, and its normalized form has only replicas there can be.    *)
PassInv ==
  /\ worker.step \in Steps
  /\ worker.step \in {"merge", "enlist"} => "cluster" \in DOMAIN worker.merged
  /\ worker.step \notin {"idle", "down"} => worker.source \in Documents
  /\ worker.step \in Replicating \cup Updating =>
       DOMAIN worker.norm.replicas \subseteq Replicas
  /\ worker.left \subseteq Replicas
  /\ applied # NothingApplied => DOMAIN applied.norm.replicas \subseteq Replicas

(* What users, administrators and Kubernetes have made.                    *)
WorldInv ==
  /\ spec \in Documents
  /\ DOMAIN templates \subseteq FullNames /\ deleting \subseteq DOMAIN templates
  /\ surroundings \in AllSurroundings
  /\ started \subseteq DOMAIN sets /\ DOMAIN hostMaps \subseteq Replicas
  /\ pending \in BOOLEAN
  /\ edits \in 0..MaxEdits /\ faults \in 0..MaxFaults

(* The cluster of a merge is that of what is merged in.                    *)
LEMMA MergeKeepsCluster ==
  ASSUME NEW to, NEW from, "cluster" \in DOMAIN to
  PROVE  /\ "cluster" \in DOMAIN MergeSpec(to, from)
         /\ MergeSpec(to, from).cluster = from.cluster
BY DEF MergeSpec

(* The replicas of the normalized form follow from the cluster.            *)
LEMMA NormalReplicas ==
  ASSUME NEW s, NEW o
  PROVE  DOMAIN NormalizeSpec(s, config, o).replicas = KeptReplicas(s.cluster)
BY DEF NormalizeSpec, ReplicasOf

(* Every step keeps a pass on replicas and volumes that there are.         *)
LEMMA PassInvStep ==
  ASSUME WorkerInv, WorldInv, PassInv, Next PROVE PassInv'
<1> USE DEF WorkerInv, PassInv, At, Goto, Steps, Replicating, Updating
<1>1. CASE ReadInstallation
  <2>1. "cluster" \in DOMAIN NewSpec
    BY DEF NewSpec
  <2> QED BY <1>1, <2>1 DEF ReadInstallation, Idle, WorldInv
<1>2. CASE FindTemplate
  BY <1>2, MergeKeepsCluster DEF FindTemplate, Merged
<1>3. CASE FetchTemplate
  BY <1>3 DEF FetchTemplate
<1>4. CASE EnlistTemplate
  BY <1>4, MergeKeepsCluster DEF EnlistTemplate, Merged
<1>5. CASE SkipTemplate
  BY <1>5 DEF SkipTemplate
<1>6. CASE Normalize
  <2>1. PICK o \in Orders :
          LET norm == NormalizeSpec(MergeSpec(worker.merged, worker.source), config, o) IN
          worker' = [worker EXCEPT !.step = "common", !.merged = <<>>, !.norm = norm,
                                   !.left = DOMAIN norm.replicas]
    BY <1>6 DEF Normalize
  <2> DEFINE norm == NormalizeSpec(MergeSpec(worker.merged, worker.source), config, o)
  <2>2. DOMAIN norm.replicas \subseteq Replicas
    BY <1>6, MergeKeepsCluster, NormalReplicas, ProvisioningConstants DEF Normalize
  <2> QED BY <1>6, <2>1, <2>2 DEF Normalize
<1>7. CASE CreateCommon
  BY <1>7 DEF CreateCommon
<1>8. CASE CreateUsers
  BY <1>8 DEF CreateUsers
<1>9. CASE \E r \in Replicas : BeginReplica(r)
  BY <1>9 DEF BeginReplica
<1>10. CASE SkipPaused
  BY <1>10 DEF SkipPaused
<1>11. CASE CreateStatefulSet \/ RefuseClaims \/ FailCall
  <2>1. worker' = Idle /\ UNCHANGED applied
    BY <1>11, Zenon DEF CreateStatefulSet, RefuseClaims, FailCall
  <2> QED BY <2>1 DEF Idle
<1>12. CASE FindVolumes
  BY <1>12 DEF FindVolumes
<1>13. CASE \E c \in worker.found : ResizeVolume(c)
  BY <1>13 DEF ResizeVolume
<1>14. CASE UpdateSet
  BY <1>14 DEF UpdateSet
<1>15. CASE FailUpdate
  BY <1>15 DEF FailUpdate
<1>16. CASE EndReplicas
  BY <1>16 DEF EndReplicas, Extra, AppliedReplicas
<1>17. CASE (\E r \in Replicas : SkipRemoved(r) \/ RemoveReplica(r)) \/ RemoveHostMap
  <2>1. /\ worker.step \in {"extra", "remove map"}
        /\ worker'.step \in {"extra", "remove map"} /\ worker'.left \subseteq worker.left
        /\ worker'.norm = worker.norm /\ worker'.source = worker.source
        /\ UNCHANGED applied
    <3>1. CASE \E r \in Replicas : SkipRemoved(r)
      BY <3>1 DEF SkipRemoved
    <3>2. CASE \E r \in Replicas : RemoveReplica(r)
      BY <3>2 DEF RemoveReplica
    <3>3. CASE RemoveHostMap
      BY <3>3 DEF RemoveHostMap
    <3> QED BY <1>17, <3>1, <3>2, <3>3
  <2> QED BY <2>1
<1>18. CASE EndExtra
  BY <1>18 DEF EndExtra
<1>19. CASE UpdateCommon
  BY <1>19 DEF UpdateCommon
<1>20. CASE UpdateUsers
  BY <1>20 DEF UpdateUsers
<1>21. CASE Finish
  BY <1>21 DEF Finish, Idle
<1>22. CASE Crash \/ Start
  <2>1. (worker' = Idle \/ worker' = Down) /\ UNCHANGED applied
    BY <1>22, Zenon DEF Crash, Start
  <2>2. /\ Idle.step = "idle" /\ Idle.left = {}
        /\ Down.step = "down" /\ Down.left = {}
    BY DEF Down, Idle
  <2> QED BY <2>1, <2>2
<1>23. CASE Others \/ Editing \/ Kubernetes
  <2>1. UNCHANGED <<worker, applied>>
    BY <1>23
    DEF Others, ReconcileOther, ReconcileTemplate, Editing, Edit, EditTemplate,
        DeleteTemplate, EndFinalizer, EditSurroundings, Kubernetes, ProvideVolume, StartPod
  <2> QED BY <2>1
<1> QED
  BY <1>1, <1>2, <1>3, <1>4, <1>5, <1>6, <1>7, <1>8, <1>9, <1>10, <1>11, <1>12, <1>13,
     <1>14, <1>15, <1>16, <1>17, <1>18, <1>19, <1>20, <1>21, <1>22, <1>23
  DEF Next, Work, Merging, SyncReplica, Trouble

(* Every step keeps what is outside the pass in its types.                 *)
LEMMA WorldInvStep ==
  ASSUME WorldInv, Next PROVE WorldInv'
<1> USE DEF WorldInv
<1>1. CASE Merging \/ CreateCommon \/ CreateUsers \/ UpdateCommon \/ UpdateUsers
  BY <1>1
  DEF Merging, ReadInstallation, FindTemplate, FetchTemplate, EnlistTemplate, SkipTemplate,
      Normalize, CreateCommon, CreateUsers, UpdateCommon, UpdateUsers, written, objects
<1>16. CASE \E r \in Replicas : BeginReplica(r)
  BY <1>16 DEF BeginReplica, Put, written
<1>2. CASE \/ SkipPaused \/ RefuseClaims \/ FindVolumes
           \/ \E c \in worker.found : ResizeVolume(c)
  BY <1>2 DEF SkipPaused, RefuseClaims, FindVolumes, ResizeVolume, written, objects
<1>3. CASE CreateStatefulSet
  BY <1>3 DEF CreateStatefulSet, Put, written
<1>4. CASE UpdateSet
  BY <1>4 DEF UpdateSet, written
<1>5. CASE EndReplicas \/ EndExtra \/ Finish
  BY <1>5 DEF EndReplicas, EndExtra, Finish, written, objects
<1>6. CASE (\E r \in Replicas : SkipRemoved(r) \/ RemoveReplica(r)) \/ RemoveHostMap
  <2>1. CASE \E r \in Replicas : SkipRemoved(r)
    BY <2>1 DEF SkipRemoved, objects, written
  <2>2. CASE \E r \in Replicas : RemoveReplica(r)
    BY <2>2 DEF RemoveReplica, Restrict, written
  <2>3. CASE RemoveHostMap
    BY <2>3 DEF RemoveHostMap, Restrict, written
  <2> QED BY <1>6, <2>1, <2>2, <2>3
<1>7. CASE Start
  BY <1>7 DEF Start, written, objects
<1>8. CASE Trouble
  <2>1. /\ UNCHANGED <<spec, templates, deleting, surroundings, sets, hostMaps, started,
                       edits>>
        /\ faults < MaxFaults /\ faults' = faults + 1
    BY <1>8, Zenon DEF Trouble, FailUpdate, FailCall, Crash, written, objects
  <2>2. pending' \in BOOLEAN
    BY <1>8 DEF Trouble, FailUpdate, FailCall, Crash
  <2> QED BY <2>1, <2>2, ProvisioningConstants
<1>9. CASE Others
  BY <1>9 DEF Others, ReconcileOther, ReconcileTemplate, written, objects
<1>10. CASE \E d \in Documents : Edit(d)
  BY <1>10, ProvisioningConstants DEF Edit, objects
<1>11. CASE \E k \in FullNames : \E b \in Bodies[k] : EditTemplate(k, b)
  BY <1>11, ProvisioningConstants DEF EditTemplate, objects
<1>12. CASE \E k \in FullNames : DeleteTemplate(k)
  BY <1>12, ProvisioningConstants DEF DeleteTemplate, Restrict, objects
<1>13. CASE \E k \in FullNames : EndFinalizer(k)
  BY <1>13 DEF EndFinalizer, Restrict, objects
<1>14. CASE \E s \in AllSurroundings : EditSurroundings(s)
  BY <1>14, ProvisioningConstants DEF EditSurroundings, objects
<1>15. CASE Kubernetes
  BY <1>15 DEF Kubernetes, ProvideVolume, StartPod, written, objects, At
<1> QED
  BY <1>1, <1>2, <1>3, <1>4, <1>5, <1>6, <1>7, <1>8, <1>9, <1>10, <1>11, <1>12, <1>13,
     <1>14, <1>15, <1>16
  DEF Next, Work, SyncReplica, Editing

(* What is outside the pass and the pass itself keep their types.          *)
LEMMA WorldAndPassHold == Spec => [](WorldInv /\ PassInv)
<1>1. Init => WorldInv /\ PassInv
  <2>1. Init => WorldInv
    <3>1. ASSUME Init
          PROVE  /\ spec \in Documents /\ surroundings \in AllSurroundings
                 /\ DOMAIN templates \subseteq FullNames /\ deleting = {}
                 /\ started = {} /\ hostMaps = <<>> /\ pending = FALSE
                 /\ edits = 0 /\ faults = 0
      BY <3>1, ProvisioningConstants DEF Init
    <3>2. DOMAIN <<>> = {}
      OBVIOUS
    <3> QED BY <3>1, <3>2, ProvisioningConstants DEF WorldInv
  <2>2. Init => PassInv
    BY DEF Init, PassInv, Down, Idle, Steps, Replicating, Updating
  <2> QED BY <2>1, <2>2
<1>2. ASSUME WorldInv /\ PassInv, UNCHANGED vars PROVE (WorldInv /\ PassInv)'
  BY <1>2 DEF WorldInv, PassInv, vars, written, objects
<1>3. WorkerInv /\ WorldInv /\ PassInv /\ [Next]_vars => (WorldInv /\ PassInv)'
  BY <1>2, WorldInvStep, PassInvStep
<1> QED BY <1>1, <1>3, WorkerInvHolds, PTL DEF Spec

(* Every variable has its type, and a pass works on volumes that exist.    *)
THEOREM ProvisioningTypeCorrect == Spec => []TypeOK
<1>1. WorldInv /\ PassInv /\ VolumesInv /\ MapsInv => TypeOK
  BY DEF WorldInv, PassInv, VolumesInv, MapsInv, TypeOK, Steps, At
<1> QED BY <1>1, WorldAndPassHold, VolumesInvHolds, MapsInvHolds, PTL
=============================================================================
