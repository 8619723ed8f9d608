---------------------------- MODULE Configuration ----------------------------
(***************************************************************************)
(* From a merged specification to the files that ClickHouse reads: the     *)
(* users that the normalizer completes, and the ConfigMaps of the          *)
(* installation and of a replica (config_sections.go, config_generator.go, *)
(* pkg/util/xml). Pure operators. A ConfigMap is its generated sections,   *)
(* each the settings that get into its XML, and its files.                 *)
(***************************************************************************)
EXTENDS Merge

DefaultUser == "default"
Removed == "_removed_"

(* An oracle for the digest: distinct passwords have distinct ones.        *)
Sha256(password) == "sha256 of " \o password

SettingString(setting) ==
  FoldLeft(LAMBDA text, part : IF text = "" THEN part ELSE text \o "," \o part,
           "", setting.value)

----------------------------------------------------------------------------
(* Users *)

(* The first part of every path of at least two, and the default user.     *)
UserNames(users) ==
  {p[1] : p \in {q \in DOMAIN users : Len(q) >= 2}} \cup {DefaultUser}

Profile(u) == <<u, "profile">>
Quota(u) == <<u, "quota">>
NetworksIP(u) == <<u, "networks", "ip">>
NetworksHost(u) == <<u, "networks", "host_regexp">>
Password(u) == <<u, "password">>
PasswordSha256(u) == <<u, "password_sha256_hex">>

(* What every user gets that does not have it. The host_regexp matches the *)
(* pods of the installation.                                               *)
UserDefaults(users, config) ==
  [p \in UNION {{Profile(u), Quota(u), NetworksIP(u), NetworksHost(u)} :
                   u \in UserNames(users)} |->
     CASE p = Profile(p[1]) -> Scalar(config.profile)
       [] p = Quota(p[1]) -> Scalar(config.quota)
       [] p = NetworksIP(p[1]) -> Vector(config.networksIP)
       [] p = NetworksHost(p[1]) -> Scalar("pods of the installation")]

(* The password to make a digest of: the default user needs none, another  *)
(* one gets the operator's.                                                *)
PasswordToHash(users, u, config) ==
  IF Password(u) \in DOMAIN users THEN SettingString(users[Password(u)])
  ELSE IF u # DefaultUser THEN config.password ELSE ""

(* The users whose password ends up as a digest. *)
Hashed(users, config) ==
  {u \in UserNames(users) :
     PasswordSha256(u) \in DOMAIN users \/ PasswordToHash(users, u, config) # ""}

Digests(users, config) ==
  [p \in {PasswordSha256(u) : u \in Hashed(users, config)} |->
     IF p \in DOMAIN users THEN users[p]
     ELSE Scalar(Sha256(PasswordToHash(users, p[1], config)))]

(* ClickHouse does not start with both a password and its digest: the      *)
(* password goes, and that of the default user, which the image's own      *)
(* users.xml has, is marked as removed.                                    *)
CompleteUsers(users, config) ==
  LET hashed == Hashed(users, config)
      gone == {Password(u) : u \in hashed}
      marked == [p \in {Password(DefaultUser)} |-> Scalar(Removed)]
      kept == [p \in DOMAIN users \ gone |-> users[p]]
  IN Over(IF DefaultUser \in hashed THEN Over(marked, kept) ELSE kept,
          Over(Digests(users, config), UserDefaults(users, config)))

(* Mutant: users are completed before their paths are normalized. *)
NormalizeUsersLast(users, config, order) ==
  NormalizePaths(CompleteUsers(users, config), order)

NormalizeUsers(users, config, order) ==
  CompleteUsers(NormalizePaths(users, order), config)

----------------------------------------------------------------------------
(* The normalized specification *)

(* normalizeInstallation: all that a pass takes from it. The claims and    *)
(* pods are looked up by name, the last of two with one name counts.       *)
NormalizeSpec(spec, config, order) ==
  [paused |-> spec.paused,
   claims |-> spec.claims, pods |-> spec.pods,
   users |-> NormalizeUsers(spec.users, config, order),
   settings |-> NormalizePaths(spec.settings, order),
   files |-> NormalizePaths(spec.files, order),
   zooKeeper |-> WithPorts(InheritZooKeeper(spec.cluster.zooKeeper, WithPorts(spec.zooKeeper))),
   replicas |-> ReplicasOf(spec, order)]

----------------------------------------------------------------------------
(* ConfigMaps *)

(* GenerateXML: a node that has a value is written without its children.   *)
InXML(settings) ==
  LET Above(p) == {SubSeq(p, 1, n) : n \in 1..(Len(p) - 1)}
      shown == {p \in DOMAIN settings : Above(p) \cap DOMAIN settings = {}}
  IN [p \in shown |-> settings[p]]

GeneratedFilename(section) == "daisy-generated-" \o section \o ".xml"

(* The sections that are not empty, then the files of the specification,   *)
(* then those of the operator, over what has the same name.                *)
ConfigMap(sections, files, operatorFiles) ==
  LET all == Over(operatorFiles, files)
      shown == {s \in DOMAIN sections :
                  DOMAIN sections[s] # {} /\ GeneratedFilename(s) \notin DOMAIN all}
  IN [sections |-> [s \in shown |-> sections[s]], files |-> all]

(* GetRemoteServers: the replicas of the shard, and whether they replicate *)
(* among themselves (normalizeShardInternalReplication). The two clusters  *)
(* that are generated beside it have the same replicas.                    *)
RemoteServers(norm) ==
  [p \in {<<"replica", ToString(r)>> : r \in DOMAIN norm.replicas} |->
     Scalar(IF Cardinality(DOMAIN norm.replicas) > 1 THEN "true" ELSE "false")]

(* CreateConfigsCommon *)
CreateConfigsCommon(norm, config, order) ==
  ConfigMap([remote_servers |-> RemoteServers(norm), settings |-> InXML(norm.settings)],
            SectionFiles(norm.files, "COMMON", TRUE, order), config.commonFiles)

(* CreateConfigsUsers; quotas and profiles are settings like any other.    *)
CreateConfigsUsers(norm, config, order) ==
  ConfigMap([users |-> InXML(norm.users)],
            SectionFiles(norm.files, "USERS", FALSE, order), config.userFiles)

(* GetHostMacros *)
HostMacros(r) ==
  [p \in {<<"macros", "shard">>, <<"macros", "replica">>} |->
     Scalar(IF p[2] = "shard" THEN "0" ELSE ToString(r))]

(* GetHostZookeeper *)
HostZooKeeper(nodes) ==
  [p \in {<<"node", ToString(i)>> : i \in DOMAIN nodes} |->
     LET node == CHOOSE i \in DOMAIN nodes : p = <<"node", ToString(i)>> IN
     Vector(<<nodes[node].host, ToString(nodes[node].port)>>)]

(* CreateConfigsHost *)
CreateConfigsHost(norm, r, config, order) ==
  LET level == norm.replicas[r].level IN
  ConfigMap([macros |-> HostMacros(r), zookeeper |-> HostZooKeeper(norm.zooKeeper),
             settings |-> InXML(level.settings)],
            SectionFiles(level.files, "HOST", TRUE, order), config.hostFiles)
=============================================================================
