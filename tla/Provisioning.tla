---------------------------- MODULE Provisioning ----------------------------
(***************************************************************************)
(* From what users and administrators write to what the pods of an         *)
(* installation get: templates are looked up and merged, the specification *)
(* is normalized, and the ConfigMaps, StatefulSets and volumes of the      *)
(* replicas follow it, one call at a time (Sync in                         *)
(* daisy_member_manager.go, normalizer.go, config_manager.go).             *)
(*                                                                         *)
(* One installation with one shard in OwnNamespace; installations of other *)
(* namespaces share the process, its worker and its catalogue. Status,     *)
(* tables, Services and the deletion of the installation are left to       *)
(* MemberManager; the order of the calls of a pass is the same.            *)
(***************************************************************************)
EXTENDS Webhook, OperatorConfig

CONSTANTS
  Documents,      \* the specifications that users write
  FirstDocuments, \* the ones an installation is created with
  Bodies,         \* the specifications a DaisyTemplate can get, by full name
  FirstTemplates, \* the DaisyTemplates there are at first, by full name
  Namespaces,
  OwnNamespace,   \* where the installation is
  TemplateNames,
  Replicas,       \* the ordinals that replicas can have
  AllSurroundings,\* what the process can find when it starts
  FirstSurroundings, \* what it finds at first
  FirstVolumes,   \* what an earlier installation of this name left behind
  Orders,         \* the orders in which Go goes through a map
  MaxEdits,       \* bound: edits of documents, templates and surroundings
  MaxFaults       \* bound: failed calls and crashes

FullNames == {FullName(n, t) : n \in Namespaces, t \in TemplateNames}

ASSUME ProvisioningConstants ==
  /\ OwnNamespace \in Namespaces /\ Replicas \subseteq Nat /\ Orders \subseteq Nat
  /\ FirstDocuments \subseteq Documents /\ FirstSurroundings \in AllSurroundings
  /\ \A d \in Documents : KeptReplicas(d.cluster) \subseteq Replicas
  /\ DOMAIN FirstTemplates \subseteq FullNames
  /\ \A v \in FirstVolumes : DOMAIN v = Replicas
  /\ \A s \in AllSurroundings : CanStart(s) => IsFiniteSet(DOMAIN TemplateFiles(s))
  /\ MaxEdits \in Nat /\ MaxFaults \in Nat

(* The templates a process finds in the operator's files.                  *)
Loadable(s) == UNION {Range(c) : c \in LoadCatalogues(s)}

(* The templates there can be, each with its full name: the first ones,    *)
(* what they can become, and those of the operator's files.                *)
AllTemplates ==
  {Entry(n, FirstTemplates[n]) : n \in DOMAIN FirstTemplates}
    \cup (UNION {{Entry(n, body) : body \in Bodies[n]} : n \in FullNames})
    \cup (UNION {Loadable(s) : s \in {x \in AllSurroundings : CanStart(x)}})

ASSUME ProvisioningTypes ==
  /\ \A d \in Documents : IsSpecification(d)
  /\ \A t \in AllTemplates : IsSpecification(t.body)

VARIABLES
  spec,         \* the document of the installation
  templates,    \* the DaisyTemplates there are, by full name
  deleting,     \* those with a DeletionTimestamp, kept by a finalizer
  surroundings, \* files and environment of the operator's pod
  config,       \* the operator's configuration
  catalogue,    \* its templates
  worker,       \* the pass under way
  configMaps,   \* the installation's ConfigMaps, common and users
  hostMaps,     \* the ConfigMaps of the replicas
  sets,         \* the StatefulSets of the replicas
  volumes,      \* the sizes of their volumes by claim
  started,      \* the replicas whose pod has come up with its StatefulSet
  applied,      \* document and normalized form of the last complete pass
  pending,      \* the installation is in the work queue
  edits, faults \* bound: spent so far

operator == <<config, catalogue>>
objects == <<configMaps, hostMaps, sets>>
written == <<spec, templates, deleting, surroundings>>
vars == <<written, operator, worker, objects, volumes, started, applied, pending,
          edits, faults>>

NothingApplied == <<>>

(* A pass: the step it is at, the document it read, what is merged so far, *)
(* the uses not looked up yet, the body fetched for the first of them, the *)
(* normalized form, the replicas left to sync, the one it is at, the       *)
(* volumes found for that one, and (history) the replicas whose            *)
(* StatefulSet it failed to update.                                        *)
Idle == [step |-> "idle", source |-> <<>>, merged |-> <<>>, uses |-> <<>>,
         fetched |-> <<>>, norm |-> <<>>, left |-> {}, replica |-> 0, found |-> {},
         missed |-> {}]
Down == [Idle EXCEPT !.step = "down"]

At(step) == worker.step = step
Goto(step) == worker' = [worker EXCEPT !.step = step]

----------------------------------------------------------------------------
(* Templates *)

ReadInstallation ==
  /\ At("idle") /\ pending
  /\ pending' = FALSE
  /\ worker' = [Idle EXCEPT !.step = "merge", !.source = spec, !.merged = NewSpec,
                            !.uses = spec.uses]
  /\ UNCHANGED <<written, operator, objects, volumes, started, applied, edits, faults>>

use == worker.uses[1]

Merged(body) ==
  worker' = [worker EXCEPT !.step = "merge", !.merged = MergeSpec(@, body),
                           !.uses = Tail(@), !.fetched = <<>>]

FindTemplate ==
  /\ At("merge") /\ worker.uses # <<>>
  /\ \E i \in InCatalogue(catalogue, use) : Merged(catalogue[i].body)
  /\ UNCHANGED <<written, operator, objects, volumes, started, applied, pending,
                 edits, faults>>

(* FetchTemplate reads the template of the installation's namespace, also  *)
(* when the use names another one.                                         *)
FetchTemplate ==
  /\ At("merge") /\ worker.uses # <<>> /\ InCatalogue(catalogue, use) = {}
  /\ FullName(OwnNamespace, use.name) \in DOMAIN templates
  /\ worker' = [worker EXCEPT !.step = "enlist",
                              !.fetched = templates[FullName(OwnNamespace, use.name)]]
  /\ UNCHANGED <<written, operator, objects, volumes, started, applied, pending,
                 edits, faults>>

EnlistTemplate ==
  /\ At("enlist")
  /\ catalogue' = Enlist(catalogue, FullName(OwnNamespace, use.name), worker.fetched)
  /\ Merged(worker.fetched)
  /\ UNCHANGED <<written, config, objects, volumes, started, applied, pending,
                 edits, faults>>

(* A template that is not found is skipped; the log alone tells.           *)
SkipTemplate ==
  /\ At("merge") /\ worker.uses # <<>> /\ InCatalogue(catalogue, use) = {}
  /\ FullName(OwnNamespace, use.name) \notin DOMAIN templates
  /\ worker' = [worker EXCEPT !.uses = Tail(@)]
  /\ UNCHANGED <<written, operator, objects, volumes, started, applied, pending,
                 edits, faults>>

(* The document goes on top of the templates. *)
Normalize ==
  /\ At("merge") /\ worker.uses = <<>>
  /\ \E order \in Orders :
       LET norm == NormalizeSpec(MergeSpec(worker.merged, worker.source), config, order) IN
       worker' = [worker EXCEPT !.step = "common", !.merged = <<>>, !.norm = norm,
                                !.left = DOMAIN norm.replicas]
  /\ UNCHANGED <<written, operator, objects, volumes, started, applied, pending,
                 edits, faults>>

----------------------------------------------------------------------------
(* ConfigMaps *)

ContentOf(name, order) ==
  IF name = "common" THEN CreateConfigsCommon(worker.norm, config, order)
  ELSE CreateConfigsUsers(worker.norm, config, order)

(* Mutant: a ConfigMap that exists is never updated. *)
SyncConfigMapOnce(name, update) ==
  IF name \in DOMAIN configMaps THEN UNCHANGED configMaps
  ELSE \E order \in Orders :
         configMaps' = Put(configMaps, name, ContentOf(name, order))

(* syncConfigMap: the one that exists is only touched for an update. *)
SyncConfigMap(name, update) ==
  IF name \in DOMAIN configMaps /\ ~update THEN UNCHANGED configMaps
  ELSE \E order \in Orders :
         configMaps' = Put(configMaps, name, ContentOf(name, order))

(* The first pass over them creates what is missing, the second one, when  *)
(* all replicas are through, updates.                                      *)
CreateCommon ==
  /\ At("common") /\ SyncConfigMap("common", FALSE) /\ Goto("users")
  /\ UNCHANGED <<written, operator, hostMaps, sets, volumes, started, applied, pending,
                 edits, faults>>

CreateUsers ==
  /\ At("users") /\ SyncConfigMap("users", FALSE) /\ Goto("replicas")
  /\ UNCHANGED <<written, operator, hostMaps, sets, volumes, started, applied, pending,
                 edits, faults>>

UpdateCommon ==
  /\ At("update common") /\ SyncConfigMap("common", TRUE) /\ Goto("update users")
  /\ UNCHANGED <<written, operator, hostMaps, sets, volumes, started, applied, pending,
                 edits, faults>>

UpdateUsers ==
  /\ At("update users") /\ SyncConfigMap("users", TRUE) /\ Goto("finish")
  /\ UNCHANGED <<written, operator, hostMaps, sets, volumes, started, applied, pending,
                 edits, faults>>

----------------------------------------------------------------------------
(* Replicas, in the order of the map *)

(* Mutant: the ConfigMap of a replica waits for its StatefulSet.           *)
BeginReplicaSetFirst(r) ==
  /\ At("replicas") /\ r \in worker.left
  /\ \E order \in Orders :
       hostMaps' = IF r \in DOMAIN sets
                   THEN Put(hostMaps, r, CreateConfigsHost(worker.norm, r, config, order))
                   ELSE hostMaps
  /\ worker' = [worker EXCEPT !.step = "statefulset", !.replica = r, !.left = @ \ {r}]
  /\ UNCHANGED <<written, operator, configMaps, sets, volumes, started, applied, pending,
                 edits, faults>>

(* The ConfigMap of a replica is updated before its StatefulSet.           *)
BeginReplica(r) ==
  /\ At("replicas") /\ r \in worker.left
  /\ \E order \in Orders :
       hostMaps' = Put(hostMaps, r, CreateConfigsHost(worker.norm, r, config, order))
  /\ worker' = [worker EXCEPT !.step = "statefulset", !.replica = r, !.left = @ \ {r}]
  /\ UNCHANGED <<written, operator, configMaps, sets, volumes, started, applied, pending,
                 edits, faults>>

current == worker.replica
Wanted == StatefulSetFor(worker.norm, current)

(* The document itself is asked whether it is paused. *)
SkipPaused ==
  /\ At("statefulset") /\ worker.source.paused
  /\ Goto("replicas")
  /\ UNCHANGED <<written, operator, objects, volumes, started, applied, pending,
                 edits, faults>>

(* A pass that created a StatefulSet ends; the next one finds it.          *)
CreateStatefulSet ==
  /\ At("statefulset") /\ ~worker.source.paused /\ current \notin DOMAIN sets
  /\ sets' = Put(sets, current, Wanted)
  /\ worker' = Idle /\ pending' = TRUE
  /\ UNCHANGED <<written, operator, configMaps, hostMaps, volumes, started, applied,
                 edits, faults>>

(* The claims are not what the StatefulSet allows: the pass ends with an   *)
(* error, and so does every other until the specification changes.         *)
ClaimsAreRefused ==
  /\ At("statefulset") /\ ~worker.source.paused /\ current \in DOMAIN sets
  /\ ~ClaimsCanChange(sets[current].claims, Wanted.claims)

RefuseClaims ==
  /\ ClaimsAreRefused
  /\ worker' = Idle /\ pending' = TRUE
  /\ UNCHANGED <<written, operator, objects, volumes, started, applied, edits, faults>>

(* Mutant: every claim is taken to have its volume. *)
FindVolumesOfClaims ==
  /\ At("statefulset") /\ ~worker.source.paused /\ current \in DOMAIN sets
  /\ ClaimsCanChange(sets[current].claims, Wanted.claims)
  /\ worker' = [worker EXCEPT !.step = "resize", !.found = DOMAIN sets[current].claims]
  /\ UNCHANGED <<written, operator, objects, volumes, started, applied, pending,
                 edits, faults>>

(* RetrieveActualPVCs: the volumes that are there by now. *)
FindVolumes ==
  /\ At("statefulset") /\ ~worker.source.paused /\ current \in DOMAIN sets
  /\ ClaimsCanChange(sets[current].claims, Wanted.claims)
  /\ worker' = [worker EXCEPT
       !.step = "resize",
       !.found = DOMAIN volumes[current] \cap DOMAIN sets[current].claims]
  /\ UNCHANGED <<written, operator, objects, volumes, started, applied, pending,
                 edits, faults>>

StillToResize ==
  ToResize(volumes[current], worker.found, sets[current].claims, Wanted.claims)

(* One volume after the other, in the order of the map. *)
ResizeVolume(c) ==
  /\ At("resize") /\ c \in StillToResize
  /\ volumes' = [volumes EXCEPT ![current][c] = Wanted.claims[c]]
  /\ UNCHANGED <<written, operator, worker, objects, started, applied, pending,
                 edits, faults>>

(* Mutant: does not wait for the other volumes. *)
UpdateSetEarly ==
  /\ At("resize")
  /\ sets' = [sets EXCEPT ![current] = Updated(@, Wanted)]
  /\ started' = IF sets'[current] = sets[current] THEN started ELSE started \ {current}
  /\ worker' = [worker EXCEPT !.step = "replicas", !.found = {}]
  /\ UNCHANGED <<written, operator, configMaps, hostMaps, volumes, applied, pending,
                 edits, faults>>

UpdateSet ==
  /\ At("resize") /\ StillToResize = {}
  /\ sets' = [sets EXCEPT ![current] = Updated(@, Wanted)]
  /\ started' = IF sets'[current] = sets[current] THEN started ELSE started \ {current}
  /\ worker' = [worker EXCEPT !.step = "replicas", !.found = {}]
  /\ UNCHANGED <<written, operator, configMaps, hostMaps, volumes, applied, pending,
                 edits, faults>>

(* An update that fails is only logged. *)
FailUpdate ==
  /\ At("resize") /\ StillToResize = {} /\ faults < MaxFaults
  /\ sets[current] # Updated(sets[current], Wanted)
  /\ faults' = faults + 1
  /\ worker' = [worker EXCEPT !.step = "replicas", !.found = {}, !.missed = @ \cup {current}]
  /\ UNCHANGED <<written, operator, objects, volumes, started, applied, pending, edits>>

AppliedReplicas ==
  IF applied = NothingApplied THEN {} ELSE DOMAIN applied.norm.replicas

(* The replicas of the last complete pass that are not wanted any more,    *)
(* looked at only when they have become fewer.                             *)
Extra ==
  IF Cardinality(AppliedReplicas) > Cardinality(DOMAIN worker.norm.replicas)
  THEN AppliedReplicas \ DOMAIN worker.norm.replicas ELSE {}

EndReplicas ==
  /\ At("replicas") /\ worker.left = {}
  /\ worker' = [worker EXCEPT !.step = "extra", !.left = Extra]
  /\ UNCHANGED <<written, operator, objects, volumes, started, applied, pending,
                 edits, faults>>

(* deleteReplica, with the reclaim policy Retain: its volumes stay. What   *)
(* has no StatefulSet is taken to be gone, its ConfigMap with it.          *)
SkipRemoved(r) ==
  /\ At("extra") /\ r \in worker.left \ DOMAIN sets
  /\ worker' = [worker EXCEPT !.left = @ \ {r}]
  /\ UNCHANGED <<written, operator, objects, volumes, started, applied, pending,
                 edits, faults>>

RemoveReplica(r) ==
  /\ At("extra") /\ r \in worker.left \cap DOMAIN sets
  /\ sets' = Restrict(sets, DOMAIN sets \ {r})
  /\ started' = started \ {r}
  /\ worker' = [worker EXCEPT !.step = "remove map", !.replica = r, !.left = @ \ {r}]
  /\ UNCHANGED <<written, operator, configMaps, hostMaps, volumes, applied, pending,
                 edits, faults>>

RemoveHostMap ==
  /\ At("remove map")
  /\ hostMaps' = Restrict(hostMaps, DOMAIN hostMaps \ {current})
  /\ Goto("extra")
  /\ UNCHANGED <<written, operator, configMaps, sets, volumes, started, applied, pending,
                 edits, faults>>

EndExtra ==
  /\ At("extra") /\ worker.left = {}
  /\ Goto("update common")
  /\ UNCHANGED <<written, operator, objects, volumes, started, applied, pending,
                 edits, faults>>

(* The status is stored: the pass is complete. *)
Finish ==
  /\ At("finish")
  /\ applied' = [source |-> worker.source, norm |-> worker.norm]
  /\ worker' = Idle
  /\ UNCHANGED <<written, operator, objects, volumes, started, pending, edits, faults>>

(* Mutant: it is not tried again. *)
FailCallForGood ==
  /\ ~At("idle") /\ ~At("down") /\ ~At("merge") /\ ~At("enlist") /\ faults < MaxFaults
  /\ faults' = faults + 1
  /\ worker' = Idle
  /\ UNCHANGED <<written, operator, objects, volumes, started, applied, pending, edits>>

(* A call fails, and the pass with it; it is tried again. *)
FailCall ==
  /\ ~At("idle") /\ ~At("down") /\ ~At("merge") /\ ~At("enlist") /\ faults < MaxFaults
  /\ faults' = faults + 1
  /\ worker' = Idle /\ pending' = TRUE
  /\ UNCHANGED <<written, operator, objects, volumes, started, applied, edits>>

----------------------------------------------------------------------------
(* The process *)

(* What it keeps in memory goes; when it starts, every installation is     *)
(* read again. Without the file that is named it does not start.           *)
Crash ==
  /\ ~At("down") /\ faults < MaxFaults
  /\ faults' = faults + 1
  /\ worker' = Down /\ pending' = FALSE
  /\ UNCHANGED <<written, operator, objects, volumes, started, applied, edits>>

Start ==
  /\ At("down") /\ CanStart(surroundings)
  /\ config' = LoadConfig(surroundings) /\ catalogue' \in LoadCatalogues(surroundings)
  /\ worker' = Idle /\ pending' = TRUE
  /\ UNCHANGED <<written, objects, volumes, started, applied, edits, faults>>

(* A pass over an installation of another namespace that uses a template,  *)
(* as far as it goes: the worker does one installation at a time.          *)
ReconcileOther(n, t) ==
  /\ At("idle") /\ n # OwnNamespace
  /\ FullName(n, t) \in DOMAIN templates /\ Places(catalogue, FullName(n, t)) = {}
  /\ catalogue' = Enlist(catalogue, FullName(n, t), templates[FullName(n, t)])
  /\ UNCHANGED <<written, config, worker, objects, volumes, started, applied, pending,
                 edits, faults>>

(* The template controller runs beside the worker and takes a template     *)
(* that is being deleted out of the catalogue. Its body stays there.       *)
ReconcileTemplate(k) ==
  /\ ~At("down") /\ k \in deleting
  /\ catalogue' = Unlist(catalogue, k)
  /\ UNCHANGED <<written, config, worker, objects, volumes, started, applied, pending,
                 edits, faults>>

----------------------------------------------------------------------------
(* Users, administrators and Kubernetes *)

Edit(document) ==
  /\ edits < MaxEdits /\ document # spec /\ ValidateUpdate(document, spec)
  /\ spec' = document /\ pending' = (pending \/ ~At("down"))
  /\ edits' = edits + 1
  /\ UNCHANGED <<templates, deleting, surroundings, operator, worker, objects, volumes,
                 started, applied, faults>>

(* Nobody is told that a template has changed. *)
EditTemplate(k, body) ==
  /\ edits < MaxEdits /\ k \in DOMAIN templates /\ body \in Bodies[k] \ {templates[k]}
  /\ templates' = [templates EXCEPT ![k] = body]
  /\ edits' = edits + 1
  /\ UNCHANGED <<spec, deleting, surroundings, operator, worker, objects, volumes,
                 started, applied, pending, faults>>

(* With a finalizer of somebody else a template stays for a while; without *)
(* one, the template controller never sees it go.                          *)
DeleteTemplate(k) ==
  /\ edits < MaxEdits /\ k \in DOMAIN templates \ deleting
  /\ \/ deleting' = deleting \cup {k} /\ UNCHANGED templates
     \/ templates' = Restrict(templates, DOMAIN templates \ {k}) /\ UNCHANGED deleting
  /\ edits' = edits + 1
  /\ UNCHANGED <<spec, surroundings, operator, worker, objects, volumes,
                 started, applied, pending, faults>>

EndFinalizer(k) ==
  /\ k \in deleting
  /\ deleting' = deleting \ {k}
  /\ templates' = Restrict(templates, DOMAIN templates \ {k})
  /\ UNCHANGED <<spec, surroundings, operator, worker, objects, volumes,
                 started, applied, pending, edits, faults>>

EditSurroundings(new) ==
  /\ edits < MaxEdits /\ new # surroundings
  /\ surroundings' = new /\ edits' = edits + 1
  /\ UNCHANGED <<spec, templates, deleting, operator, worker, objects, volumes,
                 started, applied, pending, faults>>

(* The controller of StatefulSets creates a volume for every claim that    *)
(* has none, in the size the StatefulSet was created with, and then the    *)
(* pod. The operator hears of the pod, by the status of the StatefulSet.   *)
ProvideVolume(r, c) ==
  /\ r \in DOMAIN sets /\ c \in DOMAIN sets[r].claims \ DOMAIN volumes[r]
  /\ volumes' = [volumes EXCEPT ![r] = Put(@, c, sets[r].claims[c])]
  /\ UNCHANGED <<written, operator, worker, objects, started, applied, pending,
                 edits, faults>>

StartPod(r) ==
  /\ r \in DOMAIN sets \ started /\ DOMAIN sets[r].claims \subseteq DOMAIN volumes[r]
  /\ started' = started \cup {r} /\ pending' = (pending \/ ~At("down"))
  /\ UNCHANGED <<written, operator, worker, objects, volumes, applied, edits, faults>>

----------------------------------------------------------------------------
Init ==
  /\ spec \in FirstDocuments /\ ValidateCreate(spec)
  /\ templates = FirstTemplates
  /\ surroundings = FirstSurroundings
  /\ deleting = {} /\ config = <<>> /\ catalogue = EmptyCatalogue
  /\ worker = Down /\ configMaps = <<>> /\ hostMaps = <<>> /\ sets = <<>>
  /\ volumes \in FirstVolumes /\ started = {} /\ applied = NothingApplied
  /\ pending = FALSE /\ edits = 0 /\ faults = 0

Merging ==
  ReadInstallation \/ FindTemplate \/ FetchTemplate \/ EnlistTemplate \/ SkipTemplate
    \/ Normalize

SyncReplica ==
  \/ \E r \in Replicas : BeginReplica(r)
  \/ SkipPaused \/ CreateStatefulSet \/ RefuseClaims \/ FindVolumes \/ UpdateSet
  \/ At("resize") /\ \E c \in worker.found : ResizeVolume(c)

Work ==
  \/ Merging \/ CreateCommon \/ CreateUsers \/ SyncReplica \/ EndReplicas
  \/ \E r \in Replicas : SkipRemoved(r) \/ RemoveReplica(r)
  \/ RemoveHostMap \/ EndExtra \/ UpdateCommon \/ UpdateUsers \/ Finish

Trouble == FailUpdate \/ FailCall \/ Crash

Others ==
  \/ \E n \in Namespaces, t \in TemplateNames : ReconcileOther(n, t)
  \/ \E k \in FullNames : ReconcileTemplate(k)

Editing ==
  \/ \E d \in Documents : Edit(d)
  \/ \E k \in FullNames : DeleteTemplate(k) \/ EndFinalizer(k)
                          \/ \E b \in Bodies[k] : EditTemplate(k, b)
  \/ \E s \in AllSurroundings : EditSurroundings(s)

Kubernetes ==
  \E r \in Replicas :
    \/ StartPod(r)
    \/ r \in DOMAIN sets /\ \E c \in DOMAIN sets[r].claims : ProvideVolume(r, c)

Next == Work \/ Start \/ Trouble \/ Others \/ Editing \/ Kubernetes

(* The worker has something to do. *)
Busy == ~At("down") /\ (At("idle") => pending)

(* The worker goes on (WF_vars(Work), with Busy for what enables it, which *)
(* is cheaper to evaluate) and is started again after a crash; Kubernetes  *)
(* does its part.                                                          *)
WorkerGoesOn == []<>(~Busy) \/ []<><<Work>>_vars

Spec == Init /\ [][Next]_vars /\ WorkerGoesOn /\ WF_vars(Start) /\ WF_vars(Kubernetes)

----------------------------------------------------------------------------
(* Properties *)

(* The variables have the values they are meant to have, and a pass deals  *)
(* with volumes that exist only.                                           *)
TypeOK ==
  /\ spec \in Documents
  /\ DOMAIN templates \subseteq FullNames /\ deleting \subseteq DOMAIN templates
  /\ surroundings \in AllSurroundings
  /\ worker.step \in {"idle", "down", "merge", "enlist", "common", "users", "replicas",
                      "statefulset", "resize", "extra", "remove map", "update common",
                      "update users", "finish"}
  /\ worker.left \subseteq Replicas
  /\ At("resize") => worker.found \subseteq DOMAIN volumes[current]
  /\ DOMAIN configMaps \subseteq {"common", "users"} /\ DOMAIN hostMaps \subseteq Replicas
  /\ started \subseteq DOMAIN sets /\ DOMAIN sets \subseteq Replicas
  /\ DOMAIN volumes = Replicas /\ pending \in BOOLEAN
  /\ edits \in 0..MaxEdits /\ faults \in 0..MaxFaults

(***************************************************************************)
(* A pod mounts three ConfigMaps and does not come up without them. There  *)
(* is no StatefulSet whose ConfigMaps are not all there, wherever a pass   *)
(* was cut off (syncConfigMaps before syncConfiguration, the replica's     *)
(* before its StatefulSet; deleteReplica the other way round).             *)
(***************************************************************************)
ConfigMapsComeFirst ==
  DOMAIN sets # {} =>
    DOMAIN configMaps = {"common", "users"} /\ DOMAIN sets \subseteq DOMAIN hostMaps

(* A value above a path hides it in the XML. *)
IsHidden(settings, path) ==
  \E n \in 1..(Len(path) - 1) : SubSeq(path, 1, n) \in DOMAIN settings

IsSecured(users, u) ==
  /\ \A path \in {Profile(u), Quota(u), NetworksIP(u), NetworksHost(u)} :
       path \in DOMAIN users \/ IsHidden(users, path)
  /\ {Password(u), PasswordSha256(u)} \subseteq DOMAIN users =>
       users[Password(u)].value = <<Removed>>

(***************************************************************************)
(* Whoever can log in, by whatever mix of templates and spellings, is in   *)
(* users.xml with a profile, a quota and a network restriction, and never  *)
(* with a password beside its digest, with which ClickHouse does not start *)
(* (normalizeConfigurationUsers). Only a user that hides them by a value   *)
(* of its own can be without, or a file in the place of the generated one. *)
(***************************************************************************)
UsersAreSecured ==
  "users" \in DOMAIN configMaps =>
    LET map == configMaps["users"] IN
    GeneratedFilename("users") \notin DOMAIN map.files =>
      /\ "users" \in DOMAIN map.sections
      /\ \A u \in UserNames(map.sections["users"]) : IsSecured(map.sections["users"], u)

(* The replicas that the normalizer made. *)
Generated == DOMAIN worker.norm.replicas \ DOMAIN worker.source.cluster.listed

(* The container of ClickHouse as the pod template has it. *)
TemplateContainer(norm, r) == PodTemplate(norm, norm.replicas[r].names)[1]

(* The claims that it mounts as the data directory itself. *)
MountedByTemplate(norm, r) ==
  {m.name : m \in {n \in Range(TemplateContainer(norm, r).mounts) :
                     n.path = DataPath /\ n.name \in DOMAIN norm.claims}}

(***************************************************************************)
(* A document that brings its own data claim gets it: when a pass is       *)
(* through, every replica of it has this volume under the data directory,  *)
(* whatever claims and names the templates add, unless a pod template      *)
(* mounts it elsewhere or something else there: then what it mounts stays. *)
(* (Replicas that the document lists one by one, and those whose update    *)
(* failed, excepted.)                                                      *)
(***************************************************************************)
OwnDataIsMounted ==
  At("finish") /\ ~worker.source.paused =>
    LET data == worker.source.names.data IN
    data # NoName /\ data \in DOMAIN worker.source.claims =>
      \A r \in Generated \ worker.missed :
        IF IsFree(TemplateContainer(worker.norm, r), data, DataPath)
        THEN DataVolumes(sets[r]) = {data}
        ELSE MountedByTemplate(worker.norm, r) \subseteq DataVolumes(sets[r])

(***************************************************************************)
(* What a shard sets counts for its replicas over what the cluster sets,   *)
(* however the two spell the path (MergeFrom, then Normalize).             *)
(***************************************************************************)
ShardSettingsCount ==
  At("finish") =>
    LET own == worker.source.cluster.shard.settings IN
    \A r \in Generated : "settings" \in DOMAIN hostMaps[r].sections =>
      LET shown == hostMaps[r].sections["settings"] IN
      \A p \in DOMAIN own : NormalPath(p) \in DOMAIN shown =>
        shown[NormalPath(p)] \in
          {own[q] : q \in {s \in DOMAIN own : NormalPath(s) = NormalPath(p)}}

(* A use that names nothing finds what was taken out of the catalogue.     *)
FindsUnlisted(document) ==
  /\ Places(catalogue, Unlisted) # {}
  /\ \E i \in DOMAIN document.uses :
       FullName(document.uses[i].namespace, document.uses[i].name) = Unlisted

(***************************************************************************)
(* Templates have a mark of their namespace. Nothing of a namespace gets   *)
(* into a specification that neither lives there nor names it, although    *)
(* all namespaces share one catalogue. (A specification with a use that    *)
(* names nothing excepted, when an entry of the catalogue has no name: one *)
(* taken out keeps its body, wherever it is from.)                         *)
(***************************************************************************)
Mark == <<"mark">>
NamespacesAreKept ==
  worker.norm # <<>> /\ Mark \in DOMAIN worker.norm.settings =>
    LET uses == worker.source.uses IN
    \/ worker.norm.settings[Mark].value[1] \in
         {OwnNamespace} \cup {uses[i].namespace : i \in DOMAIN uses}
    \/ FindsUnlisted(worker.source)

(***************************************************************************)
(* A template that the catalogue has stays as it is while the process      *)
(* lives, for all installations that name it in full: an edit of it, and a *)
(* use without a namespace, which fetches and enlists it at every pass,    *)
(* change nothing until it is taken out or the process starts again.       *)
(***************************************************************************)
TemplatesStayTheSame ==
  [][~At("down") =>
       \A i \in DOMAIN catalogue, j \in DOMAIN catalogue' :
         catalogue[i].name = catalogue'[j].name /\ catalogue[i].name # Unlisted =>
           catalogue'[j].body = catalogue[i].body]_vars

AtRest == At("idle") /\ ~pending /\ applied # NothingApplied

(***************************************************************************)
(* At rest all ConfigMaps are of one normalized specification and of the   *)
(* configuration that is loaded: no crash, failure or edit between the     *)
(* calls leaves old ones beside new ones.                                  *)
(***************************************************************************)
ConfigMapsAreOfOneSpec ==
  AtRest =>
    /\ \E o \in Orders : configMaps["common"] = CreateConfigsCommon(applied.norm, config, o)
    /\ \E o \in Orders : configMaps["users"] = CreateConfigsUsers(applied.norm, config, o)
    /\ \A r \in DOMAIN applied.norm.replicas : \E o \in Orders :
         hostMaps[r] = CreateConfigsHost(applied.norm, r, config, o)

(***************************************************************************)
(* At rest, with its pods up, every volume is at least as big as its claim *)
(* asks for, also one that Kubernetes created in the StatefulSet's old     *)
(* size while or after a pass looked for volumes to resize.                *)
(***************************************************************************)
VolumesAreBigEnough ==
  AtRest /\ ~spec.paused /\ DOMAIN sets \subseteq started =>
    \A r \in DOMAIN applied.norm.replicas :
      LET wanted == StatefulSetFor(applied.norm, r).claims IN
      \A c \in DOMAIN volumes[r] \cap DOMAIN wanted : volumes[r][c] >= wanted[c]

(***************************************************************************)
(* Whatever documents, templates, failures and crashes do, volumes are     *)
(* handled as Storage promises: a StatefulSet keeps its claims, no volume  *)
(* goes, and none gets smaller.                                            *)
(***************************************************************************)
StorageOf == INSTANCE Storage WITH claims <- [r \in DOMAIN sets |-> sets[r].claims]
VolumesAreSafe == StorageOf!Spec

(***************************************************************************)
(* The installation always comes to rest again with its last document      *)
(* applied, unless its claims are refused or the process cannot start.     *)
(***************************************************************************)
Provisioned == AtRest /\ applied.source = spec
EventuallyProvisioned == []<>(Provisioned \/ ClaimsAreRefused \/ At("down"))
=============================================================================
