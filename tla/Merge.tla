-------------------------------- MODULE Merge --------------------------------
(***************************************************************************)
(* What templates and the installation itself make of a specification: the *)
(* merges of api/v1/type_installation.go and what a cluster, a shard and a *)
(* replica inherit (controllers/daisymanager/normalizer.go). Pure          *)
(* operators; one cluster with one shard, whose replicas are numbers.      *)
(***************************************************************************)
EXTENDS Settings

NoName == ""    \* a reference to a template that is not given
NoSize == 0     \* a claim that requests no storage
NoPort == 0     \* a ZooKeeper node without a port
ZooKeeperPort == 2181

NoNames == [pod |-> NoName, data |-> NoName, log |-> NoName]

(* A level of the tree under clusters: the cluster, the shard, a replica.  *)
NoLevel == [settings |-> NoSettings, files |-> NoSettings]

(* An empty specification: claims and pods by name, the defaults' template *)
(* names, and the cluster with the replicas that are listed in it.         *)
NewSpec ==
  [paused |-> FALSE, uses |-> <<>>, claims |-> <<>>, pods |-> <<>>, names |-> NoNames,
   users |-> NoSettings, settings |-> NoSettings, files |-> NoSettings,
   zooKeeper |-> <<>>,
   cluster |-> [zooKeeper |-> <<>>, level |-> NoLevel, shard |-> NoLevel,
                shards |-> 0, replicas |-> 0, listed |-> <<>>]]

IsList(list) == list \in Seq(Range(list))
IsContainer(c) == DOMAIN c = {"name", "mounts"} /\ IsList(c.mounts)

(* What the Go types say of a specification, as far as it matters here.    *)
IsSpecification(spec) ==
  /\ DOMAIN spec = DOMAIN NewSpec
  /\ IsList(spec.uses) /\ DOMAIN spec.names = DOMAIN NoNames
  /\ \A c \in DOMAIN spec.claims : spec.claims[c] \in Nat
  /\ \A p \in DOMAIN spec.pods :
       IsList(spec.pods[p]) /\ \A c \in Range(spec.pods[p]) : IsContainer(c)
  /\ IsSettings(spec.settings)
  /\ IsSettings(spec.cluster.level.settings) /\ IsSettings(spec.cluster.shard.settings)

----------------------------------------------------------------------------
(* MergeFrom *)

(* Claims of the same name are merged field by field (mergo WithOverride): *)
(* a size that is given replaces the one that is there.                    *)
MergeClaims(to, from) ==
  [name \in DOMAIN to \cup DOMAIN from |->
     IF name \in DOMAIN from /\ (from[name] # NoSize \/ name \notin DOMAIN to)
     THEN from[name] ELSE to[name]]

(* Pods of the same name, too: the containers that are given replace those *)
(* that are there, and without any these stay.                             *)
MergePods(to, from) ==
  [name \in DOMAIN to \cup DOMAIN from |->
     IF name \in DOMAIN from /\ (from[name] # <<>> \/ name \notin DOMAIN to)
     THEN from[name] ELSE to[name]]

(* Mutant: a name that is there stays. *)
KeepNames(to, from) ==
  [n \in DOMAIN to |-> IF to[n] = NoName THEN from[n] ELSE to[n]]

(* MergeTypeOverrideByNonEmptyValues: the names that are given replace.    *)
OverrideNames(to, from) ==
  [n \in DOMAIN to |-> IF from[n] # NoName THEN from[n] ELSE to[n]]

(* MergeTypeFillEmptyValues: a name that is missing is filled in.          *)
FillNames(to, from) ==
  [n \in DOMAIN to |-> IF to[n] = NoName THEN from[n] ELSE to[n]]

(* Nodes that are not there yet are appended; the same host with another   *)
(* port, also with none, is another node.                                  *)
MergeZooKeeper(to, from) ==
  to \o SelectSeq(from, LAMBDA node : node \notin Range(to))

(***************************************************************************)
(* DaisyInstallationSpec.MergeFrom. Claims, pods and names of the later    *)
(* one win, settings of the earlier one; the clusters are those of the     *)
(* last one, so a template's clusters never count.                         *)
(***************************************************************************)
MergeSpec(to, from) ==
  [to EXCEPT !.paused = from.paused, !.uses = @ \o from.uses,
             !.claims = MergeClaims(@, from.claims), !.pods = MergePods(@, from.pods),
             !.names = OverrideNames(@, from.names),
             !.zooKeeper = MergeZooKeeper(@, from.zooKeeper),
             !.users = MergeSettings(@, from.users),
             !.settings = MergeSettings(@, from.settings),
             !.files = MergeSettings(@, from.files),
             !.cluster = from.cluster]

----------------------------------------------------------------------------
(* Inheritance *)

(* normalizeConfigurationZookeeper: a node without a port gets the default *)
(* one, after the merge has compared nodes.                                *)
WithPorts(nodes) ==
  [i \in DOMAIN nodes |->
     IF nodes[i].port = NoPort THEN [nodes[i] EXCEPT !.port = ZooKeeperPort] ELSE nodes[i]]

(* InheritZookeeperFrom: all of it or nothing. *)
InheritZooKeeper(own, from) == IF own = <<>> THEN from ELSE own

(* InheritFilesFrom: files of the HOST section, over the cluster's own.    *)
InheritHostFiles(own, from) ==
  MergeAccepted(own, from, {p \in DOMAIN from : SectionOfPath(p) = "HOST"})

NormalLevel(level, order) ==
  [settings |-> NormalizePaths(level.settings, order),
   files |-> NormalizePaths(level.files, order)]

(* InheritSettingsFrom and InheritFilesFrom of a shard or a replica.       *)
InheritLevel(own, from) ==
  [settings |-> MergeSettings(own.settings, from.settings),
   files |-> MergeSettings(own.files, from.files)]

ClusterLevel(spec, order) ==
  NormalLevel([settings |-> spec.cluster.level.settings,
               files |-> InheritHostFiles(spec.cluster.level.files,
                                          NormalizePaths(spec.files, order))], order)

ShardLevel(spec, order) ==
  NormalLevel(InheritLevel(spec.cluster.shard, ClusterLevel(spec, order)), order)

(* A replica the normalizer adds: it is new, and inherits everything.      *)
GeneratedReplica(spec, order) ==
  [level |-> NormalLevel(InheritLevel(NoLevel, ShardLevel(spec, order)), order),
   names |-> FillNames(NoNames, spec.names)]

(* A replica that the spec lists stays as it is written. *)
ListedReplica(spec, r) == spec.cluster.listed[r]

OneIfNone(count) == IF count = 0 THEN 1 ELSE count

(* The replicas of the shard (normalizeReplicas without delete slots;      *)
(* listed ones are the first ones).                                        *)
KeptReplicas(cluster) ==
  LET listed == DOMAIN cluster.listed
      count == OneIfNone(cluster.replicas)
  IN IF Cardinality(listed) > count THEN listed \cap 0..(count - 1)
     ELSE listed \cup Cardinality(listed)..(count - 1)

(* What they have of settings, files and template names.                   *)
ReplicasOf(spec, order) ==
  [r \in KeptReplicas(spec.cluster) |->
     IF r \in DOMAIN spec.cluster.listed THEN ListedReplica(spec, r)
     ELSE GeneratedReplica(spec, order)]
=============================================================================
