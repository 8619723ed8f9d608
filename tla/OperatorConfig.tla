--------------------------- MODULE OperatorConfig ---------------------------
(***************************************************************************)
(* The operator's own configuration (controllers/daisymanager/             *)
(* config_manager.go, api/v1/type_config.go) and the catalogue of          *)
(* templates that is part of it. It is built once, when the process        *)
(* starts. Pure operators. What the process finds is its surroundings: the *)
(* configuration files by the place they are in, the directories with      *)
(* their files, the environment and the configuration objects.             *)
(***************************************************************************)
EXTENDS Naturals, SequencesExt, Maps

NotGiven == ""
NotGivenList == <<>>
Lists == {"networksIP", "namespaces"}

Given(config, f) ==
  IF f \in Lists THEN config[f] # NotGivenList ELSE config[f] # NotGiven

(* A configuration in which nothing is given. *)
EmptyConfig ==
  [profile |-> NotGiven, quota |-> NotGiven, networksIP |-> NotGivenList,
   password |-> NotGiven, namespaces |-> NotGivenList,
   commonDir |-> NotGiven, hostDir |-> NotGiven, userDir |-> NotGiven,
   templateDir |-> NotGiven]

(* The values of what is not given, and the default directories. *)
Defaults ==
  [profile |-> "default", quota |-> "default", networksIP |-> <<"::/0">>,
   password |-> "default", namespaces |-> NotGivenList,
   commonDir |-> "config.d", hostDir |-> "conf.d", userDir |-> "users.d",
   templateDir |-> "templates.d"]

----------------------------------------------------------------------------
(* Reading *)

(* The places a file is looked for in when none is named.                  *)
SearchPath == <<"home", "etc">>

(* The file that is named, by flag or else by the environment.             *)
NamedFile(surroundings) ==
  IF surroundings.flag # NotGiven THEN surroundings.flag ELSE surroundings.variable

(* A file that is named has to be there and be right: main exits without   *)
(* it. (surroundings.files has the files that can be read and parsed.)     *)
CanStart(surroundings) ==
  NamedFile(surroundings) \in DOMAIN surroundings.files \cup {NotGiven}

(* getFileBasedConfig: without a name, the first that is right counts.     *)
FileConfig(surroundings) ==
  LET named == NamedFile(surroundings)
      found == SelectSeq(SearchPath, LAMBDA p : p \in DOMAIN surroundings.files)
  IN IF named # NotGiven THEN surroundings.files[named]
     ELSE IF found # <<>> THEN surroundings.files[found[1]]
     ELSE EmptyConfig

(* MergeFrom with override: what is given replaces. *)
MergeConfig(to, from) ==
  [f \in DOMAIN to |-> IF Given(from, f) THEN from[f] ELSE to[f]]

(* getCRBasedConfigs: the configuration objects of all namespaces in the   *)
(* order of their names. The cache they are listed from starts after the   *)
(* configuration was built: the list then fails, and no object counts.     *)
ObjectConfigs(surroundings) ==
  IF surroundings.cacheStarted THEN surroundings.objects ELSE <<>>

(* buildUnifiedConfig *)
Unified(base, objects) == FoldLeft(MergeConfig, base, objects)

----------------------------------------------------------------------------
(* Post-processing *)

(* PreparePath: a directory that is not there is no directory. *)
PreparedPath(path, default, directories) ==
  LET wanted == IF path = NotGiven THEN default ELSE path IN
  IF wanted \in DOMAIN directories THEN wanted ELSE NotGiven

(* normalize *)
Normalized(config, directories) ==
  LET Paths == {"commonDir", "hostDir", "userDir", "templateDir"} IN
  [f \in DOMAIN config |->
     IF f \in Paths THEN PreparedPath(config[f], Defaults[f], directories)
     ELSE IF Given(config, f) THEN config[f] ELSE Defaults[f]]

(* ReadFilesIntoMap: the files with the right extension that are not empty *)
(* (content is a sequence of at most one).                                 *)
FilesIn(directory, directories, extensions) ==
  IF directory = NotGiven THEN <<>>
  ELSE LET files == directories[directory]
           ours == {f \in DOMAIN files : files[f].extension \in extensions
                                           /\ files[f].content # <<>>}
       IN [f \in ours |-> files[f].content[1]]

ConfigExtensions == {".xml"}
TemplateExtensions == {".yaml", ".json"}

(* applyEnvVarParams: the list of namespaces over the single one.          *)
FromEnvironment(namespaces, environment) ==
  IF environment.watchNamespaces # NotGivenList
  THEN environment.watchNamespaces
  ELSE IF environment.watchNamespace # NotGiven THEN <<environment.watchNamespace>>
  ELSE namespaces

(* applyDefaultWatchNamespace: its own namespace, all of them when that is *)
(* kube-system. Only the log shows the result.                             *)
WatchedNamespaces(namespaces, environment) ==
  IF namespaces # NotGivenList \/ environment.podNamespace = "kube-system"
  THEN namespaces ELSE <<environment.podNamespace>>

----------------------------------------------------------------------------
(* The catalogue: a list of entries, each a full name and the body it has. *)
(* Entries are appended and searched from the front: the first one of a    *)
(* name is found. Those behind it never are, and are not kept here.        *)

EmptyCatalogue == <<>>
FullName(namespace, name) == <<namespace, name>>
Entry(fullName, body) == [name |-> fullName, body |-> body]

(* The name of an entry that was taken out, or never had one.              *)
Unlisted == FullName("", "")

Places(catalogue, fullName) ==
  {i \in DOMAIN catalogue : catalogue[i].name = fullName}

(* Mutant: the last one counts. *)
EnlistReplacing(catalogue, fullName, body) ==
  Append(SelectSeq(catalogue, LAMBDA e : e.name # fullName), Entry(fullName, body))

(* EnlistDaisyTemplate *)
Enlist(catalogue, fullName, body) ==
  IF Places(catalogue, fullName) = {} THEN Append(catalogue, Entry(fullName, body))
  ELSE catalogue

(* unlistDaisyTemplate: the entry stays in its place with its body and     *)
(* loses its name. Of two without one the first is the one found.          *)
Unlist(catalogue, fullName) ==
  LET blanked == [i \in DOMAIN catalogue |->
                    IF catalogue[i].name = fullName
                    THEN Entry(Unlisted, catalogue[i].body) ELSE catalogue[i]]
      nameless == Places(blanked, Unlisted)
      behind == {j \in nameless : \E i \in nameless : i < j}
  IN IF behind = {} THEN blanked ELSE RemoveAt(blanked, CHOOSE j \in behind : TRUE)

(* Mutant: the name alone has to match. *)
InCatalogueByName(catalogue, use) ==
  {i \in DOMAIN catalogue : catalogue[i].name[2] = use.name}

(* FindTemplate: the full name has to match. A use without a namespace     *)
(* finds only entries that have none, one that names nothing those that    *)
(* were taken out.                                                         *)
InCatalogue(catalogue, use) == Places(catalogue, FullName(use.namespace, use.name))

(* readCHITemplates: the templates of the operator's directory, in the     *)
(* order in which Go goes through the map of its files. Of files with the  *)
(* same full name any can be the first.                                    *)
CataloguesOfFiles(files) ==
  {catalogue \in SeqOf(Range(files), Cardinality(DOMAIN files)) :
     /\ \A i, j \in DOMAIN catalogue : catalogue[i].name = catalogue[j].name => i = j
     /\ \A entry \in Range(files) : Places(catalogue, entry.name) # {}}

----------------------------------------------------------------------------
(* Everything that is read, before its directories are. *)
BuiltConfig(surroundings) ==
  Normalized(Unified(FileConfig(surroundings), ObjectConfigs(surroundings)),
             surroundings.directories)

(* Init and Postprocess: what the process goes by until it ends. *)
LoadConfig(surroundings) ==
  LET built == BuiltConfig(surroundings)
      Files(directory) == FilesIn(directory, surroundings.directories, ConfigExtensions)
      named == FromEnvironment(built.namespaces, surroundings.environment)
  IN [profile |-> built.profile, quota |-> built.quota,
      networksIP |-> built.networksIP, password |-> built.password,
      commonFiles |-> Files(built.commonDir), hostFiles |-> Files(built.hostDir),
      userFiles |-> Files(built.userDir),
      namespaces |-> WatchedNamespaces(named, surroundings.environment)]

(* The files that templates are read from. *)
TemplateFiles(surroundings) ==
  FilesIn(BuiltConfig(surroundings).templateDir, surroundings.directories,
          TemplateExtensions)

LoadCatalogues(surroundings) == CataloguesOfFiles(TemplateFiles(surroundings))
=============================================================================
