# Verification of the daisy operator

The daisy operator runs ClickHouse clusters on Kubernetes. A user describes an
installation in a `DaisyInstallation` object; the operator keeps one
`StatefulSet`, `ConfigMap`, `Service` and set of volumes per replica, copies the
tables of the cluster to new replicas, removes what is not wanted any more, and
reports in the status of the object. This directory holds TLA+ modules of that
system, the TLC runs that check them and the theorems that TLAPS proves.

Source paths are relative to the repository; `dmm` stands for
`controllers/daisymanager/daisy_member_manager.go`.

## 1. The system

| component | state | operations |
|---|---|---|
| Installation reconciler (`controllers/daisyinstallation_controller.go`) | the work queue and the informer caches of controller-runtime | `Reconcile`: read the cached object, call `Sync`, requeue on error |
| Member manager (`dmm`, `util.go`) | none between passes; in a pass the object it read and the status it builds | `Sync`, `deleteDaisyInstallation` and what they call |
| Installation spec and status (`api/v1/daisyinstallation_types.go`, `type_installation.go`) | phase and state of each replica, counters, `PrevSpec`, state | `Reset`, `IsReady`, `IsSync`, `SetReplicaStatus` |
| Normalizer (`normalizer.go`) | none | spec and templates to a full layout: shards, replicas, delete slots |
| Schemer (`schemer.go`) | none | copy the tables of the peers to a new replica, drop the tables of a deleted one, with retries |
| StatefulSet construction (`statefulset_util.go`, `pkg/k8s/equality.go`) | last-applied annotation | build, compare, update |
| Volume expansion (`dmm` 807-960, `pkg/k8s/controller_utils.go`) | none | compare claims, resize them |
| Operator configuration, template catalogue (`config_manager.go`, `api/v1/type_config.go`) | the configuration, built once when the process starts; the catalogue, shared by two controllers | read files, environment and configuration objects, merge and complete them; `FetchTemplate`, `FindTemplate`, `EnlistDaisyTemplate`, `unlistDaisyTemplate` |
| Config generator (`config_generator.go`, `config_sections.go`, `pkg/util/xml`) | none | the ConfigMaps of an installation and of a replica |
| DaisyTemplate controller | none | delete from the catalogue |
| Admission webhook (`api/v1/daisyinstallation_webhook.go`) | none | accept or refuse a create or an update |
| Connection pool (`pkg/daisy`) | a map of connections, shared by goroutines | get or create, connect once |
| Names and labels, `main.go` | none | text and wiring |

How they interact. A change of a `DaisyInstallation`, or of a `StatefulSet` or
`Service` it owns, puts the installation into the work queue. One worker takes
it, reads the object **from the cache** and runs `Sync`. `Sync` normalizes the
spec, then makes one API call after another: the Service and the ConfigMaps of
the installation, and for each replica its ConfigMap, StatefulSet and Service
and, when its pod is ready, the copy of the tables over the connection pool. It
deletes the replicas that `status.prevSpec` has and the spec has not, and at the
very end stores the object (its finalizer with it) and its status, which holds
the new `PrevSpec`. Any error, and the creation of a StatefulSet, ends the pass
early: what it had in memory is lost and the installation is queued again. A
deleted installation is taken apart by the same calls in `deleteDaisyInstallation`.

What is hard about it: the user edits the object, pods come and go, watch events
are late and the operator restarts between any two of these calls; each pass
trusts a status that an earlier pass, perhaps an aborted one, has written; and
the steps of a replica's removal are not repeated from where they stopped.
`PROJECT.json` lists these hazards line by line.

Correctness, per component:

* member manager: the status never claims what is not so (`Completed` is earned,
  `Sync` means copied), a status is written only over the spec it was built from,
  nothing that is wanted is torn down, everything that is not wanted goes, the
  finalizer goes after the replicas, the operator comes to rest and a deletion completes,
  leaving nothing;
* normalizer: exactly the wanted number of distinct replicas, none of them
  deleted, and the names of the others unchanged by a scale-in;
* schemer: a replica that is reported as synced has the tables of its peers;
* catalogue: a template is the same for everybody who names it, and is only seen
  where it belongs; the code promises no more (an edit of a template is not seen
  before a restart);
* webhook: what it accepts loses no replica that has data;
* config generator: what the pods get is of one specification, every user that can log
  in is restricted, and an installation's own settings and volumes count;
* volume expansion: volumes only grow, none goes, and all are as big as asked for at rest;
* operator configuration: what a start reads is what a pass goes by, until the next start.

## 2. Modules

| module | content |
|---|---|
| `MemberManager` | the reconciliation of one installation, with the API server, the caches, the pods and the user: who exists, who is counted, what is stored |
| `MCMemberManager` | its instances for TLC: shards and layouts of two or three replicas |
| `MemberManagerProofs`, `ReplicaProofs`, `SettledProofs`, `ScaleInProofs` | the theorems about it, each module on top of the one before: types, status, loops and counters; the tables of a replica and the end of a deleted installation; an installation at rest; scale-in |
| `DeleteSlots` | pure operators: which ordinals a replica count and the annotation `daisy.com/delete-slots` leave; used by the next two and by `MCMemberManager` |
| `Layout` | the normalizer's walk over the shards of one cluster, with the user's edits, which pass `Webhook`, between two results |
| `MCLayout`, `LayoutProofs` | its instances for TLC, and the theorems about it |
| `Schemer` | the copy of the tables to one new replica, and their removal, with its peers, their tables and the statements, one at a time |
| `MCSchemer`, `SchemerProofs` | its instances for TLC, and the theorems about it |
| `Settings` | pure operators: the settings of a specification, from the document to normalized paths and sections |
| `Merge` | pure operators: how specifications are merged and what a cluster, a shard and a replica inherit |
| `Configuration` | pure operators: users, the normalized specification, the ConfigMaps |
| `Volumes` | pure operators: the StatefulSet of a replica as far as its volumes go, and what an update may do to them |
| `Webhook` | pure operators: which creations and updates are accepted |
| `OperatorConfig` | pure operators: what the process reads when it starts, and the catalogue of templates |
| `Provisioning` | from documents, templates and surroundings to ConfigMaps, StatefulSets and volumes, one call at a time, with edits, failures and crashes |
| `Storage` | the abstract specification of what the operator promises about volumes; `Provisioning` implements it |
| `MCProvisioning` | an instance of `Provisioning` for TLC |
| `ProvisioningProofs`, `PassProofs` | the theorems about it: what is written when, whatever it is; and what a pass makes of documents and templates |
| `Maps` | assignment to an entry of a map |

How they are composed:

* `Provisioning` extends `Webhook` (which extends `Volumes`, `Configuration`, `Merge`,
  `Settings`) and `OperatorConfig`: the pure modules say what the code computes, `Provisioning`
  when, from what it has read by then, and what is between two calls.
* `Layout` takes `Webhook!ValidateUpdate` as the guard of its edits: whether a count may go
  down is decided by the counts as they are written, what it means by the normalizer.
* The layouts that `MemberManager` takes as a constant are, in the run `safety`, computed by
  `DeleteSlots` (`SlotLayouts`): all that the normalizer makes of up to two replicas and
  any slots. They contain the replacement of a replica by another one at the same size.
* `MemberManager` takes the Schemer's calls as single actions with their outcomes
  (`CreateTablesForReplica`, `CreateTablesFails`, `DeleteTables`). `Schemer` is what
  goes on inside one of them: its `Synced` is the outcome after which `syncReplica`
  sets `Sync`, `GiveUp` the one that ends the pass. What an entry `Sync` is worth
  there, `SyncedHasShardTables` says here.
* `MemberManager` and `Provisioning` are two views of the same pass. The first has status, tables,
  Services, deletion and lagging caches, and a specification is a set of replicas
  and a template; the second has the contents of everything and no status. The
  order of the calls is the same in both.

### MemberManager: state

* API server: `spec` (existence, deletion mark, finalizer, paused, the set of
  replicas it normalizes to, the pod template), `status` (state, `PrevSpec`,
  counters, one entry per replica), `sts`, `configMaps`, `services`, `pvcs`,
  `common` (the Service and the ConfigMaps of the installation). `tables` is the
  set of replicas to whose present volume the Schemer has copied the tables.
* Caches: `diCache` and `stsCache`, and `diStale`, which says whether the cached
  installation has an old resourceVersion; `pending` is the work queue.
* The pass: `pc` (the call it makes next), `snap` (the spec it read), `mem` (the
  status it builds, `cur.Status`), `fresh` (whether its resourceVersion is still
  the stored one), and the loops over shards and replicas.

`fresh` stands for the comparison of resourceVersions: a write of the
installation by anybody else makes it false and every later write of the pass
then fails with a conflict. The pass's own writes bring a new version back and
leave it true.

### MemberManager: actions

| code | actions |
|---|---|
| `Reconcile`, head of `Sync` (dmm 103-157), `fillStatus`, `Reset` | `Reconcile`; on an error or a restart `Fault`; every other early end is `GiveUp` in the action that meets it |
| `syncServiceForInstallation`, `syncConfigMaps` | `SyncServiceForInstallation`, `SyncConfigMaps` |
| `syncCluster`, `syncShard`, `syncReplica` (539-683) | `SyncShard`, `SyncReplica`, `SyncServiceForReplica`, `FindExtraReplicas` |
| `syncStatefulSet`, `syncRepliaStatus` (685-781, 968-1029) | `SkipStatefulSet` (paused), `CreateStatefulSet`, `KeepStatefulSet`, `UpdateStatefulSet` |
| `CreateTablesForReplica` | `CreateTablesForReplica`, `CreateTablesFails` |
| `deleteReplica` (1113-1190) | `SkipReplica` (StatefulSet not found), `DeleteTables`, `DeleteStatefulSet`, `DeletePVC`, `DeleteConfigMap`, `DeleteServiceForReplica`, `StatusAfterDelete` |
| end of `Sync` (163-199) | `ApplyConfiguration`, `UpdateInstallation`, `UpdateStatus`, `Conflict` |
| `deleteDaisyInstallation` (201-262) | `DeleteShard`, `DeleteConfigMaps`, `DeleteServiceForInstallation`, `StatusTerminated`, `RemoveFinalizer`, `Conflict` |
| informers | `Watch` in every action, `InformerInstallation`, `InformerStatefulSet` |
| user | `ChangeLayout`, `ChangeTemplate`, `SetPaused`, `DeleteInstallation` |
| StatefulSet controller, kubelet, garbage collector (external) | `PodReady`, `PodReplaced`, `PodLost`, `CollectGarbage` |

Decisions worth knowing when the model is compared with the code:

* The loops run over Go maps, so shards and replicas are visited in any order.
* The comparison `DeepEqual(oldStatus, cur.Status)` (dmm 185) compares a pointer
  with a value and is never equal: the end of a pass always writes. A write that
  changes nothing produces no event, so this is not an endless loop by itself.
* `UpdateStatefulSet`'s error is only logged (dmm 770). The status that is stored
  afterwards differs (its `LastTransitionTime`), and that write is what makes the
  installation come back; the model's `stamp` is that difference. Two failures
  within the same second, the resolution of the field, are not modelled.
* After an update the replica's entry is built from the new object, whose own
  status is empty: `Scale` and `NotSync` (dmm 769-778).
* `CreateTablesForReplica` can succeed without a call to the pod, when it finds
  nothing to copy; the model allows success at any time and failure while the pod
  does not serve.
* Deleting with no entry for the cluster in the status writes to a nil map
  (dmm 1157). The panic ends the pass, after the StatefulSet has been deleted.
* `deleteTables` fails silently, `deleteConfigMaps` for the installation too.
* One installation with one cluster; shards are sets of replicas. A Service or a
  ConfigMap is there or not; its content and volume expansion are in
  `Provisioning`; the shard's phase and health and the pod's `sync-state` label are
  left out. Services, ConfigMaps and
  volumes are read without lag: the code creates or deletes them whatever it read.

### DeleteSlots and Layout

A replica is its ordinal, a shard its number, and an entry of the annotation the
number of the shard in it with what follows (`Slot`): an ordinal, something that
is no number, or nothing. `NameContains` is `strings.Contains` on such names,
`ExtractLastOrdinal` the conversion of the last part, where a failing `Atoi` gives
0. `NextIndex` is `getNextIndex`: `List` is the sorted list of the slots (`sets.Int.List`),
and its loop is `InUseBelow`, a recursive function: the number of ordinals in use below the
i-th slot.

| code | in `Layout` |
|---|---|
| annotations, `layout.shardsCount`, `layout.replicasCount`, `layout.shards` with their replicas, whether there are claims | `spec` |
| `normalizeClusterLayoutShardsCountAndReplicasCount` | `ShardsCount`, `ReplicasCount` |
| `ensureClusterLayoutShards` | `AddShard` (an iteration of the loop), `BeginReplicas` when it ends |
| the normalized layout, stored as `PrevSpec` | `layout`, and `prev` for the result before it |
| `EnumerateShards`, over a map | `todo`, `VisitShard` in any order |
| `normalizeShard`, `normalizeReplicas` | `VisitShard`, `AddReplica` (an iteration of the loop), `FinishShard` (`Trimmed`) |
| the user (external), `ValidateUpdate` | `Scale`, `ScaleShards`, `AddSlot`, `RemoveSlot`, when no normalization runs: the normalizer works on a copy |

Both loops end by the size of a map and add the name with that size as its index, so
they are modelled as steps: they spin when the name is there already. Shards that are
listed beyond `shardsCount` stay.

### Schemer

State: `objects` (the databases and tables of every replica), `zooKeeper` (the
replicated tables of which it knows a replica `Me`), `up`, the `state` of the new
replica `Me`, and the call: `pc`, the Normal peers it reads from the status
(`normal`), the hosts it asks (`hosts`), the list of statements (`sqls`, a blanked
one is `NoSQL`), position and try. `seen`, `lost` and `calm` are history that
only properties read: what the serving peers have had since the call began, which of
the two lists of the call came with rows missing, whether anything came between.

| code | actions |
|---|---|
| `CreateTablesForReplica` (schemer.go 284-311) | `CreateTablesForReplica`, and `GiveUp` for its early returns |
| `getCreateReplicaObjects`, one query each (209-255) | `FetchDatabases`, `FetchTables` |
| `getCreateDistributedObjects` (112-206) | `FetchDistributedDatabases`, `FetchDistributedTables` |
| `applySQLs`, `Retry` (344-378, util.go 357-387) | `Exec` (a statement, and its ATTACH after Code 253), `EndOfTry` |
| `state = Sync` (dmm 669-678), entry of a pod that is not ready (dmm 1014-1017) | `Synced` in `EndOfTry`, `PodNotReady` |
| `DeleteTablesForReplica` (257-282), then the replica and its volume | `DeleteTablesForReplica`, `Exec`, `EndOfTry` |
| pods, users of ClickHouse (external) | `PodLost`, `PodReady`, `CreateTable` |

* A query asks the listed replicas one after the other for what `remote(...)` says
  of `hosts`; it fails when none of them answers. Peers that do not serve are left
  out of the result (`skip_unavailable_shards`). The replicas that are asked are
  those of the spec as the user wrote it (`Listed`), not of the normalized one.
* What is read of an answer can be any part of it, without an error (`Reads`): a row that
  cannot be scanned is only logged, and `Rows.Err()` is not asked when the rows end
  (schemer.go 95-107), which the query's deadline or a lost connection can bring about. The
  list of a removal's drops is read in the same way.
* The lists of tables have no order (`SetToSeqs`), but that the tables behind
  distributed ones come first. Views, their sources and replicated tables
  are told apart by `Sources`, `Replicated` and `Distributed`.
* External: a CREATE needs its database and its sources, on the replica itself. A
  replicated table that ZooKeeper knows gives Code 253, and is attached.
* A user creates tables on peers, and drops none; a drop during the copy
  would leave a table on the new replica only.

### Provisioning and its operators

Values. A path of the settings is the sequence of the parts between its slashes, with
an empty part for a slash too many; a value is a sequence and a mark that tells scalars
from lists. A file is a path in a section. A ConfigMap is its generated sections, each
the settings that get into its XML (`InXML` drops what is below a node with a value),
and its files. A StatefulSet is its claims and the mounts of its containers. A template
has a full name and a body, which is a specification like that of an installation.
What a Go map's order decides is the choice of an `order` out of `Orders`, anew in every
loop over settings, and a choice of an action in the loops over replicas and volumes.

State: `spec`, `templates`, `deleting`, `surroundings` are what users and administrators have
written; `config` and `catalogue` the memory of the process; `worker` the pass under way
(its step, the document it read, what is merged so far, the uses left, the normalized
form, the replicas left, the volumes found); `configMaps`, `hostMaps`, `sets`, `volumes`,
`started` the objects in Kubernetes; `applied` is what the last complete pass left in the
status; `pending` the work queue.

| code | in `Provisioning` |
|---|---|
| `main`, `Init`, `Postprocess` (`config_manager.go`, `type_config.go`) | `Start`, guarded by `CanStart`; `Crash` before it |
| `GetInstallationFromTemplate` (normalizer.go 45-94) | `ReadInstallation`, then per use `FindTemplate`, or `FetchTemplate` and `EnlistTemplate`, or `SkipTemplate`; then `Normalize` |
| `normalizeInstallation` and all it calls | `NormalizeSpec` |
| `syncConfigMaps`, before and after the replicas | `CreateCommon`, `CreateUsers`, `UpdateCommon`, `UpdateUsers` |
| `syncReplica`: its ConfigMap | `BeginReplica` |
| `syncStatefulSet` (dmm 685-781) | `SkipPaused`, `CreateStatefulSet`, `RefuseClaims`, `UpdateSet`, `FailUpdate` |
| `handleVolumeExpansion`, `RetrieveActualPVCs`, `resizePVCs` | `ClaimsAreRefused`, `FindVolumes`, `ResizeVolume` (one volume) |
| extra replicas, `deleteReplica` | `EndReplicas`, `RemoveReplica`, `EndExtra` |
| the end of `Sync`; an error anywhere | `Finish`; `FailCall` |
| another installation's lookup | `ReconcileOther` |
| `DaisyTemplateReconciler.Reconcile` | `ReconcileTemplate`, beside the worker |
| `ValidateCreate`, `ValidateUpdate` | guards of `Init` and `Edit` |
| users, administrators, StatefulSet controller and kubelet (external) | `Edit`, `EditTemplate`, `DeleteTemplate`, `EndFinalizer`, `EditSurroundings`, `ProvideVolume`, `StartPod` |

Decisions worth knowing:

* The catalogue is a list that is searched from the front. An entry behind another one of the
  same name never shows, so `Enlist` leaves it out. `unlistDaisyTemplate` blanks
  name and namespace of an entry and leaves it in its place with its body (`Unlist`), where a use that gives
  neither finds it: whoever's template it was.
* The templates of the operator's directory are enlisted in the order of a Go map: a start takes any of the
  orders (`CataloguesOfFiles`), and of two files with one full name any can be the first.
* `MergePods`: a pod template that gives no containers keeps those of the one before it, as mergo does.
* A removal is two calls here, the StatefulSet and then its ConfigMap (`RemoveReplica`, `RemoveHostMap`). A
  crash between them leaves a ConfigMap that nobody removes, since the next pass finds no
  StatefulSet (`SkipRemoved`): `half_deleted` is about this. `ConfigMapsComeFirst` needs their order.
* A lookup, an append and a removal of the catalogue are one step each. The code does
  them without a lock; what a torn read of the slice would give is not modelled.
* A pass reads the document once (`worker.source`) and the configuration when it needs
  it. `paused` is asked of the document, not of the normalized specification.
* `Updated`: an update keeps the claims of the StatefulSet, so its old sizes stay there,
  and `ProvideVolume` creates in that size what is missing.
* Volumes are kept when a replica goes (reclaim policy Retain; Delete is in `MemberManager`).
* A listed replica is not normalized and inherits nothing: `ListedReplica`.
* The configuration objects are listed before the cache they come from is started, so
  that the list fails: `ObjectConfigs` yields none before `cacheStarted`.
* One cluster with one shard (the layout is `Layout`'s subject). The digest of a password is an
  injective oracle. Quotas and profiles are settings like those of users. The two clusters
  that `GetRemoteServers` adds beside the installation's, ports, labels, probes and the
  mounts of the ConfigMaps, which are the same for every StatefulSet, are left out.

## 3. Runs

| run | instance | shows |
|---|---|---|
| `safety` | r1, r2 in one shard, the layouts {r1}, {r2}, {r1,r2}, two templates, 2 edits at any moment, 1 fault, reclaim policy Delete | the type invariant and the safety properties below; 2.3 million states |
| `lag` | the same shard, layouts {r1}, {r1,r2}, one template, 2 edits, caches that lag | which of them do not depend on fresh caches; 0.6 million states |
| `patient` | two shards, three replicas, 2 edits, each only after `Completed` | liveness, and that neither a scale-in nor a deletion leaves anything; 52 thousand states |
| `tables_lost`, `orphan_replica`, `half_deleted` | small instances of one property each | three disagreements between the code and what is said of it, section 4 |
| `layout` | shards 0 and 1, `shardsCount` 0 to 2, `replicasCount` 0 to 3, up to two slots with ordinals 0 to 2, garbled ones and shard names, five ways to list shards and replicas, with and without claims, edits without bound | the properties of the normalizer and of the webhook's guard below; 0.4 million states |
| `slot_of_another_shard` | shards 1 and 10, counts up to 3, one slot | section 4, item 4 |
| `schemer` | the new replica, a peer, a replica of another shard; a replicated table, a view on it and a distributed table over it; 2 tries, 2 faults | the properties of the copy below; 1.8 million states |
| `counts_only` | the same with a spec that lists no replica, without faults | section 4, item 5 |
| `lists_cut_short` | the same as `schemer` with one fault | section 4, item 6 |
| `provisioning` | one installation of up to two replicas, six documents, two templates in two namespaces and one in a file, three surroundings of the process, two orders of maps, one edit, one fault | what the pods get, the volumes and the templates; 0.6 million states |

Properties of `MemberManager`:

* `TypeOK`. Its mutant shows that it is more than typing: a phase that
  `syncRepliaStatus` would produce only with another `statefulSetIsUpgradingFn`.
* `CompletedIsEarned`: when `Completed` is stored, each replica of the applied spec
  has an entry that is Normal, or Ready and Sync. The code compares two counters
  (`ReadyReplicas`, `ReplicasCount`); the property is about the entries.
* `StoredReadyIsSynced`: `Ready` without `Sync` exists only inside a pass.
* `SettledIsCarriedOut`: when nothing is under way and the installation is not
  paused, the spec has been carried out. No edit and no failed update is forgotten.
* `StatusWritesAreCurrent`: a status is only written over the spec it describes.
* `SyncFollowsTables`: an entry becomes `Sync` only when tables were copied to the
  replica's present volume.
* `WantedReplicasSurvive`: no StatefulSet and no volume of a wanted replica goes
  in a pass that works on the stored spec. A pass that an edit has overtaken, or that began
  from a cache behind the store, may delete what is wanted again: the next one creates it anew.
* `WantedGoBeforeFinalizer`: when the finalizer goes, no replica that the spec names has a StatefulSet.
  A deletion goes by the spec alone, so a replica of a scale-in that was not carried out, or
  one that `orphan_replica` shows, is left to the garbage collector, and its volumes to nobody. This
  needs caches that do not lag: with lag, `deleteReplica` can take a StatefulSet
  that it does not see yet for one that is gone, so it is not part of `lag`.
* `DeletionLeavesNothing`: when the installation goes, by the operator's hand or because it had no
  finalizer yet, no replica at all has a StatefulSet or a volume (reclaim policy Delete; the garbage
  collector takes no volumes). For a patient user and without faults. It takes the finalizer being
  stored before `Completed` is, an entry for the cluster in the status (without one the removal of a
  replica panics in its middle, dmm 1157), scale-ins that leave nothing, and the order
  of the removal. Its mutant adds the finalizer in memory only.
* `ExtraReplicasAreDeleted`, `DeletedReplicasAreCleanedUp`: a finished scale-in
  leaves no StatefulSet, and no ConfigMap, Service or volume. They hold for a
  patient user, the second one without faults, and only then: sections 4 and 5.
* `EventuallySettled`, `DeletionCompletes`: the operator comes to rest, and a
  deletion completes.

Properties of `Layout`, all of a finished normalization:

* `TypeOK` bounds every ordinal by `replicasCount`: slots that are ignored must not
  move names (its mutant skips them all the same).
* `LayoutIsLowestOrdinals`: the replicas of a shard without listed ones are the lowest
  ordinals that are not deleted, as many as asked for. `Lowest` is defined by
  counting, `NextIndex` by the code's walk.
* `SlotDeletesItsReplica`: a new slot takes away the replica it names and no other.
* `ScaleOutKeepsReplicas`: more replicas with the same slots keep all that were
  there. Slots that were ignored before (as many as replicas, normalizer.go 521)
  are excepted: they come into effect and replace replicas.
* `ClaimedReplicasAreKept`: an installation with claims loses no shard and no replica by any edit
  of its counts that the webhook lets through, written or left out (0 stands for one,
  or for as many as there are listed). Its mutant is a webhook that does not look at
  counts.
* `ListedReplicasCount`: listed and generated replicas together are as many as asked.
* `NormalizationEnds`, under `WF(Normalize)`: the normalizer is a loop in one
  goroutine that waits for nothing. The listed replicas are the first ones of
  the shard; with only replica 1 listed the loop of the code does not end.

Properties of `Provisioning`:

* `TypeOK`: a pass only deals with volumes that exist and replicas that there can be.
* `ConfigMapsComeFirst`: no StatefulSet without all three ConfigMaps its pods mount.
* `UsersAreSecured`: every user of users.xml has a profile, a quota and a network restriction, and
  none a password beside its digest, however documents and templates spell the paths. A
  value above a path hides what is below it in XML; such users are excepted. Its mutant
  completes the users before their paths are normalized.
* `OwnDataIsMounted`: a document with a data claim of its own gets it as the data directory of
  every replica, over what templates name; excepted are pod templates that mount the
  directory themselves, replicas that the document lists (they get nothing), and
  a replica whose update failed and was only logged.
* `ShardSettingsCount`: a setting of the shard counts over that of the cluster in the ConfigMap of
  a replica, although the levels are merged by spelling and normalized afterwards. Which
  of two spellings within one level counts is decided by the order of a map: either is
  accepted.
* `NamespacesAreKept`: nothing of a template of another namespace gets into a specification that
  does not name that namespace. Excepted is a use that names nothing, when the catalogue has an
  entry without a name: without this exception the property does not hold (section 4).
* `ConfigMapsAreOfOneSpec`: at rest all ConfigMaps are of the specification applied last and of
  the configuration that is loaded.
* `VolumesAreBigEnough`: at rest, with its pods up, no volume is smaller than its claim, also one
  that was created in the old size while or after the pass looked for volumes. The pod's start
  changes the status of the StatefulSet and so makes the installation come back.
* `TemplatesStayTheSame`: a template that is known stays as it is until it is taken out or the
  process restarts, for all installations, also when it is fetched and appended anew.
  (Of entries taken out, the first one is found, and it need not stay the same.)
* `VolumesAreSafe`: the refinement of `Storage`, with the claims of the StatefulSets for its
  `claims`: a StatefulSet keeps its claims, no volume goes, none gets smaller.
* `EventuallyProvisioned`: the last document gets applied, unless its claims are refused or the
  process cannot start. Its mutant does not queue a failed pass again.

Properties of `Schemer`:

* `TypeOK`; its mutant is a list that is tried once too often.
* `SyncedHasShardTables`: a replica that is Sync has all that each of its Normal
  peers had when the copy began, if the peer has served since and the lists were read to their
  ends. Its mutant returns the error of the last statement instead of any statement's.
* `SyncedHasDistributedTables`: and the distributed tables of the cluster with the
  tables behind them, unless a query for them failed, an error the code drops, or was not
  read to its end.
* `SyncIsComplete`: both without the exceptions, which is what `Sync` is documented to say.
  The code does not keep it: run `lists_cut_short`.
* `UndisturbedCopySucceeds`: a copy during which nothing else happens ends with
  `Sync`, in whatever order the tables come; with a try less it does not.
* `EventuallySynced`: the replica becomes Sync at last, also one whose name
  ZooKeeper still knows because its drop failed.

Bounds of `MemberManager`. `MaxEdits` bounds the user's writes and `MaxFaults` the failed calls,
restarts and lost pods together. Two edits are the least that take a change back
in the middle of the pass that carries out the first, which is what every
interleaving found here needs; a third only adds another change to a state that two
have reached. One fault at any of the calls is enough to leave any half-done
work, and the passes after it are fault-free, as the properties about rest
need. Two replicas make a layout shrink, grow and be replaced at the same size;
the third replica in a second shard makes the loop over shards matter.

Bounds of `Layout`. Three ordinals and two slots have every relation of a slot to the
ordinals in use and to the other slot: below, above, adjacent, apart, equal to the
last one. Two slots against counts from 0 to 3 pass the comparison that ignores
them on both sides. Two shards are the least at which a count, a listed shard and the
shard that is visited can differ. The edits are not bounded.

Bounds of `Provisioning`. The installation is created as `Wide`, two replicas that have everything
from a template. One edit then takes it to any of the other documents, changes or deletes
a template, or changes what a restart finds: every property relates the state before to
one that follows, and a second edit adds nothing to what a document, a template or a
configuration can be. One fault at any call, or a crash, meets it in every order. The
documents are made to differ where the code merges: a claim of the same name in another
size, another name for the data, settings on two levels in two spellings, users in two
spellings with a password and a digest, a listed replica, a use of another namespace, a
use without one, a pod template with mounts of its own. The volumes left behind by an earlier
installation make one larger than the claim. Two orders suffice for two spellings.

Bounds of `Schemer`. The tables have the three kinds of dependency: on the database, on
a source, and behind a distributed table. Their dependencies are two levels deep,
and a try gets at least one level through, so 2 tries stand to them as
`defaultMaxTries`, 10, to ten levels. One host of each kind is enough: a property
is about one peer at a time, and the answers are unions. Two faults make a
failure inside a call, and another in the one after it, or a removal with a failing
drop. The number of calls is not bounded.

Fairness of `Schemer`: `WF(Call)`, the worker that makes the calls and comes back
to a replica that is not Sync, and `WF(PodReady(r))`. Nothing is assumed of the
order of queries and statements, of users and of faults.

Fairness of `MemberManager` (`Fairness`): `WF(Pass)`, since the worker is a goroutine that always
makes its next call and takes queued work; `WF` of each informer, since watches
deliver; `WF(PodReady(r))`, the cluster has room for the pods; `WF(CollectGarbage)`.
Nothing is assumed of the user, of pods being replaced or of faults. The retry
delay of controller-runtime only delays `Pass`.

Fairness of `Provisioning`: `WorkerGoesOn`, which is `WF(Work)` with `Busy` in the place of
`ENABLED`: the worker is a goroutine that always makes its next call; `WF(Start)`, since
Kubernetes restarts the operator's pod, which succeeds when the file it is told of
is there; `WF(Kubernetes)`, for volumes and pods. Nothing is assumed of edits, faults,
other installations or the template controller.

Deadlock is checked in every run but `provisioning`. The one state in which `MemberManager`
may stop is `Settled`, where `Rest` stutters; `Schemer` may stop when the replica is Sync.
`Provisioning` may stop for good: at rest, and with the process down and its file missing.

## 4. Disagreements between the code and what is said of it

1. `tables_lost`. `CreateStatefulSet` builds a `NotSync` entry and throws it away
   with the requeue error. If the pod is ready before a pass gets through, the
   next pass finds no entry, takes the last branch of `syncRepliaStatus`, counts
   the replica as Normal and never copies its tables. The test "scale out,
   eventually replica's state change to Sync" passes because it runs a whole pass
   before the pod is ready.
2. `orphan_replica`. Extra replicas are found in `PrevSpec`, which is written
   only when a pass got through every replica. Taking a scale-out back before
   that leaves its StatefulSet running. The same lookup compares sizes first:
   replacing a replica by another one leaves the old one, and a shard that is
   dropped is only logged (dmm 566).
3. `half_deleted`. After a fault that follows the deletion of the StatefulSet,
   `deleteReplica` returns at its first line for ever after.
4. `slot_of_another_shard`. A slot is assigned to a shard by `strings.Contains`, and
   the name of shard 1 is contained in that of shard 10: deleting replica 0 of
   shard 10 deletes replica 0 of shard 1 too.
5. `counts_only`. `syncReplica` passes the installation as the user wrote it, and the
   Schemer asks the replicas that its layout lists. With `shardsCount` and
   `replicasCount` it lists none: nothing is fetched or created, and the replica becomes
   `Sync`, which is to say that it "has synced distributed views and tables". The
   tests fill in the layout first.
6. `lists_cut_short`. The rows of a list that could be read count as the list: one that cannot be
   scanned is logged, an answer that ends early is not told from one that is complete, and
   a failed query for distributed objects counts as one without rows. The replica
   becomes `Sync` without tables of peers that have served all the time, and nothing copies them later.

Seen while modelling, and written into the model as the code has it, without a run of
their own:

* `spec.paused` is looked at in `syncStatefulSet` alone (dmm 709): a scale-in of a paused installation
  deletes StatefulSets and volumes, while daisyinstallation_types.go 61 says that it "will not be processed
  by the controller".
* `unlistDaisyTemplate` "removes template from templates catalog" by blanking its name: its
  body can still get into an installation of any namespace, through a use that names nothing
  (`useTemplates` with an empty entry; nothing refuses or completes one).
* The comment at normalizer.go 86 has the installation's own specification go over the
  templates. It does for names, claims and clusters; of settings and users the earlier one stays
  (`MergeSettings`), so there a template counts over the installation.
* A specification whose claims are new or smaller than those of an existing StatefulSet
  passes the webhook, which compares the claims with themselves, and is refused in every
  pass until it is edited (`RefuseClaims`).
* A template that is missing is skipped: the pods come up without a volume.
* The webhook looks at counts only for a specification with claims; shards that are no
  longer listed, and a renamed cluster, pass it in any case.
* A ZooKeeper node without a port is compared before it gets the default one, so it can
  appear twice.
* A number of an invalid slot name is 0 and not the -1 that util.go 316 promises; every
  negative fraction in a setting is cut off (`Truncated`).

## 5. Proofs

Every invariant and every action property that a passing run checks is also a theorem, for every
value of the constants; only liveness is left to TLC. The theorems rest on the named assumptions
about the constants (`ReplicasAssumption`, `LayoutAssumption`, `SwitchAssumption`,
`SchemerConstants`, `LayoutConstants`, `ProvisioningConstants`), and some on a hypothesis that is
stated in the theorem because the code does not keep the promise without it:

| hypothesis | in | why |
|---|---|---|
| no cache lag | `WantedGoFirst`, `ExtraAreDeleted`, `DeletedAreClean`, `DeletionLeaves` | a StatefulSet that the cache does not show is taken for one that is gone |
| a user who waits for `Completed` | `ExtraAreDeleted`, `DeletedAreClean`, `DeletionLeaves` | `PrevSpec` has room for one specification: run `orphan_replica`; before the first `Completed` the finalizer may not be stored |
| no call fails | `DeletedAreClean`, `DeletionLeaves` | `deleteReplica` is not taken up again in its middle: run `half_deleted` |
| layouts that grow and shrink each shard at one end, of the same shards | `ExtraAreDeleted`, `DeletionLeaves` | replicas are only deleted in shards that are still wanted, and only while others are not replaced |
| all replicas are listed in the spec (`AllListed`) | `SyncedIsComplete`, `SyncedIsDistributed` | others are not asked: run `counts_only` |
| `CopyCanSucceed` | `UndisturbedSucceeds` | see there |
| claims and volumes give sizes, marks of templates are those of their namespaces | `VolumesBigEnough`, `NamespacesKept` | Kubernetes makes no volume of no size; the mark is a setting that a document could write itself |
| shards have numbers of one digit | `SlotDeletesOne` | names are compared by `strings.Contains`: run `slot_of_another_shard` |

Every inductive invariant was checked by TLC, on the instances of the runs, before it was proved.
The hypotheses about lag, layouts and the user were dropped one at a time on variants of the
instance of `patient`, up to three edits and one fault; TLC found a replica left behind each time.

### MemberManager

`MemberManagerProofs`, for any sets of replicas, shards, layouts and templates, any bounds,
with and without lag:

* `TypeCorrect`: `Spec => []TypeOK`;
* `StatusIsCurrent`: `Spec => StatusWritesAreCurrent`;
* `WantedSurvive`: `Spec => WantedReplicasSurvive`;
* `CompletedEarned`: `Spec => []CompletedIsEarned`.

`TypeInv` adds to `TypeOK` that a replica is being visited wherever the pass needs
one. `CurrentInv` relates cache and pass to the store: a cache that is not stale
equals it (`CacheInv`), and a fresh pass works on the stored spec up to the
finalizer it added (`FreshInv`); `StatusIsCurrent` follows, since a status is
written only when fresh. `LoopInv` says what the loops may still visit: the pass
of a living installation syncs wanted replicas and deletes only extra ones, those
of `PrevSpec` that the spec it read does not have; `WantedSurvive` follows with
`FreshInv`. `BuildInv` is the argument behind `IsReady`: the replicas of `snap.want`
are split into those still to visit (`Left`) and those done (`Done`), and
`mem.ready` is at most the number of done replicas whose entry counts
(`CountInv`); when nothing is left and the counters are equal, every entry counts
(`EarnedInv`, by the cardinality of a subset). `CompletedIsEarned` alone is not
inductive: the entry of a replica can be overwritten while `Completed` is
stored, and the value of the counter only means something together with the
loop's position.

`ReplicaProofs`:

* `StoredReadySynced`: `Spec => []StoredReadyIsSynced`;
* `SyncHasTables`: `Spec => SyncFollowsTables`;
* `WantedGoFirst`: without lag, `Spec => WantedGoBeforeFinalizer`.

`ReadyInv`: an entry that is Ready and not Sync is in no status, stored or cached, and in memory
only for the current replica at the two calls before its tables are copied. `SyncInv`: an entry
`Sync` in the memory of a fresh pass was stored, or there are tables on the replica's volume, or
its StatefulSet is about to be deleted. `TornDownInv`: a pass over a deleted installation has
still to come to every replica that has a StatefulSet (`Remaining`); with `FinishedInv`, no shard
is left at the end, and with `LagInv`, the cache is the store, none of the replicas that the spec names is
left (`NoneLeft`).

`SettledProofs`:

* `SettledCarriedOut`: `Spec => []SettledIsCarriedOut`.

It needs no hypothesis. A pass is quiet as long as nothing is queued and the installation has
not been written (`Quiet`); every event and every write of others ends that. `QuietInv` says what a
quiet pass has seen: the replicas it has looked at have their ConfigMap and Service, and if it
updated nothing, a StatefulSet of the present template whose readiness the entry repeats
(`LookedAt`). `ExactInv` is the other half of the counting argument: `mem.ready` is no less than
the number of replicas looked at that are ready, so the pass says `Completed` when all are. A pass
that ends without queueing another one has written a status that was there already, so it has
updated nothing (`IdleInv`, `RestInv`).

`ScaleInProofs`:

* `ExtraAreDeleted`: with a user who waits, no lag and layouts that are nested in each shard
  and of the same shards, `Spec => []ExtraReplicasAreDeleted`, whatever fails;
* `DeletedAreClean`: with a user who waits, no lag and no failing call, for any layouts,
  `Spec => []DeletedReplicasAreCleanedUp`;
* `DeletionLeaves`: under all these hypotheses, `Spec => DeletionLeavesNothing`.

`PlanInv`: a pass works on the stored spec, or an edit has overtaken it; then it works on `PrevSpec`
itself and changes nothing (`Overtaken`, with `ThereInv`: what is `Completed` is all there).
`OldInv`: whatever has a StatefulSet is in the spec or in `PrevSpec`. `OutsideInv`: a fresh pass has still
to come to every StatefulSet that there should not be (`ToDelete`), so none is left when the status
moves `PrevSpec` on. `CleanInv`: what has no StatefulSet and is not wanted has nothing else
either, or is the replica whose parts are being deleted, in their order (`BeingCleaned`).
For a deletion these two give what the spec does not name. For what it names, `ClusterInv` says that the
status of an installation that was ever `Completed` has the entry that the removal writes to,
so no removal panics; `FinalizerInv` that the finalizer is stored before `Completed` is, so that the
installation goes by `RemoveFinalizer` only, where `NoneLeft` applies; and `GoneInv` that a replica
without a StatefulSet has no volume, or is the one whose volumes the next call deletes.

### Schemer

`SchemerProofs`, for any replicas, tables, dependencies and numbers of tries and faults:

* `SchemerTypeCorrect`: `Spec => []TypeOK`;
* `SyncedIsComplete`: `Spec => [](AllListed => SyncedHasShardTables)`;
* `SyncedIsDistributed`: `Spec => [](AllListed => SyncedHasDistributedTables)`;
* `UndisturbedSucceeds`: if `CopyCanSucceed`, `Spec => UndisturbedCopySucceeds`.

`SeenInv`: what was seen on a peer is still
there, and no database without a table; so a later query finds it. `TryInv`: in a try
without an error so far, every statement before the current one is blank; so at the
end of such a try the whole list is. `ShardInv` and `DistributedInv` follow what
is due through the call: `Planned` is what the replica has or its list still will
create, a query adds what is due to it, a statement only moves an object from
the list to the replica (`ExecKeepsPlan`), and when a try ends without an error what
was planned is there (`PlanIsDone`). A list that came with rows missing is in `lost`, and nothing is
promised of what it should have brought. `CopyInv` is their conjunction.

`CopyCanSucceed` says what `UndisturbedSucceeds` takes: the spec lists the new replica, so that there
is one to send queries to; views over a table are nested less deep than a list is tried
(`ViewsAreShallow`: the database can return a view before what it reads from, and each try gets at
least one level further); and no view is behind a distributed table (`NoDistributedViews`), because
`getCreateDistributedObjects` lists the tables behind distributed ones and not what
these read from, so that such a view could not be created on the first replica of a new shard,
however often it is tried. The proof is about single statements, without an
induction over levels: `Depth` gives every table the try by which it is there, and `InTime` says that
a table that is still on the list is deeper than the tries that have passed it. A
statement that fails by itself lacks something it needs, which is on the list too
(`NeedsPlanned`), not a database (`DatabasesFirst`), hence a source that is not late either,
hence less deep (`FailureWaits`). After the last try nothing can be left, as no table is that deep.

### Layout

`LayoutProofs`, for any shards, listed replicas, counts and slots:

* `LayoutTypeCorrect`: `Spec => []TypeOK`;
* `LowestOrdinals`: `Spec => []LayoutIsLowestOrdinals`;
* `SlotDeletesOne`: with shards of one digit, `Spec => []SlotDeletesItsReplica`;
* `ListedCount`: `Spec => []ListedReplicasCount`;
* `ScaleOutKeeps`: `Spec => []ScaleOutKeepsReplicas`;
* `ClaimedAreKept`: `Spec => []ClaimedReplicasAreKept`.

The first part is about `getNextIndex`, whatever calls it. A finite set of numbers can be listed in
ascending order (`CanBeSorted`, `ListSorts`); the loop's recursion has a closed
form (`LoopAddsUp`, `InUseIs`); and the ordinal it returns for `i` is the one that is not skipped and
has `i` others in use below it (`NextIndexIs`), so the indexes below `n` give the `n` lowest
ordinals in use (`NextIndexesAreLowest`). Induction is by the least counterexample
(`LeastNumber`), since the library's induction rules take an operator. One slot more takes away
one ordinal and gives none in its place when the count goes down with it (`LowestWithout`, `OneLess`).

The second part is about the walk. While a loop runs, what is there is what
was listed and the names with the indexes from the number of listed ones up to the
present size (`ShardsInv`, `FilledInv`): an iteration that adds nothing leaves the size as
it is, and the loop spins. So a shard that is finished has the names of all indexes up to
its count (`WalkInv`, `IsLayoutOf`), and two results with the same slots in effect and counts that do
not go down contain each other (`MoreReplicas`, `MoreShards`). `PrevInv` keeps the result
before together with its specification, and what the webhook demands of the edit between the two
(`ClaimedCounts`); `SlotsInv` that a new slot is the only difference between the two;
`BoundsInv` the bounds of the counts.

### Provisioning

`ProvisioningProofs`, for any documents, templates, surroundings, replicas, orders of
maps and numbers of edits and faults:

* `MapsComeFirst`: `Spec => []ConfigMapsComeFirst`;
* `MapsOfOneSpec`: `Spec => []ConfigMapsAreOfOneSpec`;
* `VolumesSafe`: `Spec => VolumesAreSafe`, which is `StorageOf!Spec`;
* `ProvisioningTypeCorrect`: `Spec => []TypeOK`.

What the operators of `Settings`, `Merge`, `Configuration` and `OperatorConfig` compute does not matter
for these: they rest on what is written when. `WorkerInv` gives the pass the shape of its
record. `MapsInv` says which ConfigMaps are there at which step, and that those of a replica
are there from `BeginReplica` until its StatefulSet is gone. `VolumesInv` says that the
volumes a pass has found are among those claimed and among those there; with it a
resize maps to `Grow` (only what is smaller is resized), `ProvideVolume` to `Provide`,
`CreateStatefulSet` to `Create`, `RemoveReplica` to `Remove` and everything else to a
stutter. `OneSpecInv` follows the two rounds: a replica that is not left has its
ConfigMap of the normalized form of the pass, a removal does not touch a wanted one, and
what ends a pass early leaves it queued, so `AtRest` is only reached through `Finish`
(`PassEnds`). `PassInv` and `WorldInv` are about types; the first keeps the cluster of what is
merged in (`MergeKeepsCluster`), since replicas come from there.

`PassProofs` is about what they compute:

* `TemplatesStay`: `Spec => TemplatesStayTheSame`;
* `UsersSecured`: `Spec => []UsersAreSecured`;
* `OwnDataMounted`: `Spec => []OwnDataIsMounted`;
* `ShardSettingsWin`: `Spec => []ShardSettingsCount`;
* `NamespacesKept`: if `TemplatesAreMarked`, `Spec => []NamespacesAreKept`;
* `VolumesBigEnough`: if `SizesAreGiven`, `Spec => []VolumesAreBigEnough`.

`TemplatesInv` and `MergedInv` say where things come from: what is fetched and in the catalogue is
some template (no two entries of the catalogue having one name), what is merged so far fits the document (`Fits`), and what a pass goes by is the
normalized form of the document over something that fits it (`IsNormOf`). Then each theorem is about
operators: every user of the file went through `CompleteUsers` (`WrittenUsersInv`); a path that a
shard sets, in any spelling, is the one normalized path that the cluster's and the
installation's settings are overridden at (`PathsNormalized`); a mark in the result is one of a template
that was merged. `DoneInv` follows a pass through the replicas: a replica that it is through with has
the volumes and mounts of the specification (`PassedInv`, `HasVolumes`, `HasMounts`), a pod that is up has all volumes of its
StatefulSet, so that the pass finds them (`PodsHaveVolumes`, `ResizeInv`), and every pod that comes up
and every edit brings another pass (`SourceIsLast`), so that at rest all is done for the document
there is (`RestInv`). `SizesInv` keeps sizes sizes. For the proofs, normalizing a path and
applying templates to volumes are closed forms in `Settings` and `Volumes` (what survives,
instead of a fold that builds it).

### Only model-checked

Liveness: `EventuallySettled`, `DeletionCompletes`, `NormalizationEnds`, `EventuallySynced`,
`EventuallyProvisioned`. Fairness and `ENABLED` are out of the prover's reach.

## 6. Plan

Left to prove: that what `MemberManager` takes as one call is what `Schemer` does (its calls as an
abstract specification of the copy, implemented by `Schemer`'s steps); that the layouts
`MemberManager` takes as constants are those of `Layout`, with `DeleteSlots` in common; idempotence of
the operators of `Settings` and `Merge`.

### Not modelled

* The connection pool and its connections (`pkg/daisy`): one worker uses them, under a
  lock, and a connection that is taken from it connects again by itself. What a query or a
  statement can end in is in `Schemer`.
* Names, labels and macros: string formatting of what is a model value here. Where the code
  takes names apart again (delete slots, sections of files, full names of templates), the
  modules do too.
* In `MemberManager`: the update branch of `syncService`, the phase and health of a shard, the
  `sync-state` label of a pod, several clusters.
* The time that `Retry` sleeps in the only worker: time is not modelled.
* Credentials, timeouts and logging of the operator's configuration; flags and
  registration in `main.go`.
* Generated code, manifests, and the end-to-end tests under `tests/`, which are read for
  what they expect.
