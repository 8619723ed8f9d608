------------------------------ MODULE Volumes ------------------------------
(***************************************************************************)
(* The StatefulSet of a replica as far as its volumes go                   *)
(* (controllers/daisymanager/statefulset_util.go): the claims it is        *)
(* created with and the mounts of its containers; and what an update may   *)
(* do to the claims (validation.go, resizePVCs). Pure operators. The       *)
(* volumes and mounts of the ConfigMaps, labels, ports and probes are left *)
(* out: they are the same for every StatefulSet.                           *)
(***************************************************************************)
EXTENDS Configuration

DataPath == "/var/lib/clickhouse"
LogPath == "/var/log/clickhouse-server"

Container(name, mounts) == [name |-> name, mounts |-> mounts]
Mount(claim, path) == [name |-> claim, path |-> path]

DefaultPod == <<Container("clickhouse", <<>>)>>
LogContainer == Container("clickhouse-log", <<>>)

----------------------------------------------------------------------------
(* Building *)

(* getPodTemplate and ensureClickHouseContainer: the default pod stands in *)
(* for a template that is not known and for one without a container.       *)
PodTemplate(norm, names) ==
  IF names.pod \in DOMAIN norm.pods /\ norm.pods[names.pod] # <<>>
  THEN norm.pods[names.pod] ELSE DefaultPod

(* personalizeStatefulSetTemplate: a container beside it that keeps the    *)
(* log volume.                                                             *)
Containers(norm, names) ==
  PodTemplate(norm, names)
    \o (IF names.log # NoName /\ names.log \in DOMAIN norm.claims
         THEN <<LogContainer>> ELSE <<>>)

(* Neither the claim nor the path is mounted in the container yet.         *)
IsFree(container, claim, path) ==
  \A m \in Range(container.mounts) : m.name # claim /\ m.path # path

(* setupStatefulSetApplyVolumeMount: a claim that is not given or not      *)
(* known is not mounted, and nobody is told.                               *)
ApplyVolumeMount(container, norm, claim, path) ==
  IF claim # NoName /\ claim \in DOMAIN norm.claims /\ IsFree(container, claim, path)
  THEN [container EXCEPT !.mounts = Append(@, Mount(claim, path))]
  ELSE container

(* GetContainerByName finds the first of two containers with one name.     *)
IsFound(containers, i) ==
  \A j \in 1..(i - 1) : containers[j].name # containers[i].name

(* setupStatefulSetApplyVolumeClaimTemplates: data and log into every      *)
(* container, which is looked up by its name.                              *)
ApplyVolumeClaimTemplates(containers, norm, names) ==
  [i \in DOMAIN containers |->
     IF IsFound(containers, i)
     THEN ApplyVolumeMount(ApplyVolumeMount(containers[i], norm, names.data, DataPath),
                           norm, names.log, LogPath)
     ELSE containers[i]]

(* setupStatefulSetApplyVolumeMounts and statefulSetAppendPVCTemplate: the *)
(* claims are those that are mounted, by the pod template itself or by     *)
(* what is added to it, each once.                                         *)
ClaimsMounted(containers, norm) ==
  LET mounted == UNION {{m.name : m \in Range(containers[i].mounts)} :
                          i \in DOMAIN containers}
  IN [c \in mounted \cap DOMAIN norm.claims |-> norm.claims[c]]

(* getStatefulSetForReplica *)
StatefulSetFor(norm, r) ==
  LET names == norm.replicas[r].names
      containers == ApplyVolumeClaimTemplates(Containers(norm, names), norm, names)
  IN [claims |-> ClaimsMounted(containers, norm), containers |-> containers]

(* Where ClickHouse, which runs in the first container, keeps its data: a  *)
(* volume, or nothing that outlives the pod.                               *)
DataVolumes(set) ==
  {m.name : m \in {n \in Range(set.containers[1].mounts) :
                     n.path = DataPath /\ n.name \in DOMAIN set.claims}}

----------------------------------------------------------------------------
(* Updating *)

(* CompareStorageRequests: a request of nothing compares with nothing.     *)
Increase(from, to) == from # NoSize /\ to # NoSize /\ from < to
Decrease(from, to) == from # NoSize /\ to # NoSize /\ from > to

(* ValidateClaimsStorageUpdate: no claim is new, none gets smaller than    *)
(* the StatefulSet was created with; the storage class is not asked.       *)
ClaimsCanChange(old, new) ==
  \A c \in DOMAIN new : c \in DOMAIN old /\ ~Decrease(old[c], new[c])

(* Mutant: any other size is taken. *)
ToResizeEitherWay(volumes, found, old, new) ==
  {c \in found \cap DOMAIN new : volumes[c] # new[c]}

(* resizePVCs: of the volumes that were found those that are to grow.      *)
ToResize(volumes, found, old, new) ==
  {c \in found \cap DOMAIN new : Increase(volumes[c], new[c])}

(* UpdateStatefulSet: the pod template is replaced, the claims stay. *)
Updated(old, new) == [claims |-> old.claims, containers |-> new.containers]
=============================================================================
