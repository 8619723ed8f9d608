--------------------------- MODULE MCProvisioning ---------------------------
(***************************************************************************)
(* An instance of Provisioning for TLC: documents, templates and           *)
(* surroundings that bring out how they act upon each other.               *)
(***************************************************************************)
EXTENDS Provisioning

Use(namespace, name) == [namespace |-> namespace, name |-> name]
Names(data, log) == [pod |-> NoName, data |-> data, log |-> log]
Setting(path, value) == Unmarshal(path :> RawText(value))
Limits(path, thousandths) == Unmarshal(path :> RawNumber(thousandths))
Networks(path, address) == Unmarshal(path :> RawList(<<RawText(address), RawOther>>))
Claim(name, size) == name :> size

(* Own namespace, in two versions, and another namespace. *)
OwnTemplate ==
  [NewSpec EXCEPT !.claims = Claim("data", 1024), !.names = Names("data", NoName),
                  !.settings = Setting(Mark, "own"),
                  !.users = Setting(<<"", "admin", "password">>, "template")]

OwnTemplateGrown ==
  [OwnTemplate EXCEPT
     !.claims = Claim("data", 2048), !.names = [Names("data", NoName) EXCEPT !.pod = "pod"],
     !.pods = ("pod" :> <<Container("clickhouse", <<Mount("data", DataPath)>>)>>)]

ForeignTemplate ==
  [NewSpec EXCEPT !.claims = Claim("foreign", 1024), !.names = Names("foreign", NoName),
                  !.settings = Setting(Mark, "other")]

FirstOwnAndForeign ==
  (<<"own", "storage">> :> OwnTemplate) @@ (<<"other", "storage">> :> ForeignTemplate)

TwoVersions ==
  (<<"own", "storage">> :> {OwnTemplate, OwnTemplateGrown})
    @@ (<<"other", "storage">> :> {ForeignTemplate})

(* Everything from the template. *)
Plain ==
  [NewSpec EXCEPT !.uses = <<Use("", "storage")>>, !.cluster.replicas = 1,
                  !.users = Setting(<<"admin", "password">>, "own")]

(* A claim of its own, a second replica, settings on two levels.           *)
Grown ==
  [NewSpec EXCEPT !.uses = <<Use("own", "storage"), Use("", "house")>>,
                  !.claims = Claim("data", 2048), !.names = Names("data", NoName),
                  !.cluster.replicas = 2,
                  !.cluster.level.settings = Setting(<<"x">>, "cluster") @@ Limits(<<"y">>, 2500),
                  !.cluster.shard.settings = Setting(<<"", "x">>, "shard"),
                  !.users = Setting(<<"admin", "", "password_sha256_hex">>, "digest")
                              @@ Networks(<<"guest", "networks">>, "any")]

(* Data under another name, and a volume for the log.                      *)
Logged ==
  [NewSpec EXCEPT !.uses = <<Use("other", "storage")>>,
                  !.claims = Claim("own data", 1024) @@ Claim("log", 100),
                  !.names = Names("own data", "log"), !.cluster.replicas = 2]

Listed ==
  [Plain EXCEPT !.cluster.listed =
     (0 :> [level |-> NoLevel, names |-> NoNames])]

PausedPlain == [Plain EXCEPT !.paused = TRUE]

(* Two replicas that a later edit takes back to one; a first use that      *)
(* names nothing.                                                          *)
Wide ==
  [Plain EXCEPT !.cluster.replicas = 2, !.uses = <<Use("", ""), Use("", "storage")>>]

CreatedDocuments == {Wide}
AllDocuments == {Plain, Wide, Grown, Logged, Listed, PausedPlain}

NoneOrLarge ==
  {[r \in {0, 1} |-> <<>>], [r \in {0, 1} |-> IF r = 0 THEN Claim("data", 2048) ELSE <<>>]}

(* The file that is named, with another password in it, and missing.       *)
File(text) == [extension |-> ".xml", content |-> <<text>>]
HouseTemplate(text) ==
  [extension |-> ".yaml",
   content |-> <<Entry(<<"", "house">>,
                       [NewSpec EXCEPT !.files = Setting(<<"config.d", "a.xml">>, text)])>>]

(* The operator's template, with another password in two files.            *)
HouseFiles(password) ==
  IF password = NotGiven THEN "house.yaml" :> HouseTemplate("house")
  ELSE ("house.yaml" :> HouseTemplate("house")) @@ ("second.yaml" :> HouseTemplate("second"))

Found(password) ==
  [flag |-> "config.yaml", variable |-> NotGiven,
   files |-> ("config.yaml" :> [EmptyConfig EXCEPT !.password = password]),
   cacheStarted |-> FALSE, objects |-> <<>>,
   directories |-> ("config.d" :> ("a.xml" :> File("operator"))) @@
                   ("templates.d" :> HouseFiles(password)),
   environment |-> [watchNamespaces |-> NotGivenList, watchNamespace |-> NotGiven,
                    podNamespace |-> "kube-system"]]

AtFirst == Found(NotGiven)
FileMissing == [Found(NotGiven) EXCEPT !.files = <<>>]
ThreeSurroundings == {AtFirst, Found("secret"), FileMissing}
=============================================================================
