------------------------------- MODULE Settings -------------------------------
(***************************************************************************)
(* The settings of a specification (api/v1/type_settings.go): a map from a *)
(* path such as admin/networks/ip to a scalar or a list. A path is the     *)
(* sequence of the parts between its slashes; a doubled, leading or        *)
(* trailing slash makes an empty part. Pure operators only.                *)
(***************************************************************************)
EXTENDS Naturals, Integers, FiniteSets, SequencesExt, Maps

NoSettings == <<>>

(* Settings as a Go map has them: finitely many, by paths of texts. *)
IsSettings(settings) ==
  IsFiniteSet(DOMAIN settings) /\ \A p \in DOMAIN settings : p \in Seq(STRING)

Scalar(value) == [scalar |-> TRUE, value |-> <<value>>]
Vector(values) == [scalar |-> FALSE, value |-> values]

----------------------------------------------------------------------------
(* From the document *)

(* What a user can write behind a path: a text, a number in thousandths, a *)
(* list, or something that is neither (null, an object).                   *)
RawText(text) == [kind |-> "text", of |-> text]
RawNumber(thousandths) == [kind |-> "number", of |-> thousandths]
RawList(raws) == [kind |-> "list", of |-> raws]
RawOther == [kind |-> "other", of |-> <<>>]

(* Thousandths that are ignored: a fraction up to this is cut off, and so  *)
(* is every negative one, since Modf keeps the sign.                       *)
IgnoreThreshold == 1

(* The number without its fraction, towards zero. *)
Truncated(n) == IF n >= 0 THEN n - (n % 1000) ELSE n + ((-n) % 1000)

IsRawScalar(raw) == raw.kind \in {"text", "number"}

UnmarshalScalar(raw) ==
  CASE raw.kind = "text" -> raw.of
    [] raw.kind = "number" ->
         ToString(IF raw.of > 0 /\ raw.of % 1000 > IgnoreThreshold
                  THEN raw.of ELSE Truncated(raw.of))

(* Entries of a list that are no scalars are left out. *)
UnmarshalVector(raw) ==
  LET scalars == SelectSeq(raw.of, IsRawScalar) IN
  [i \in DOMAIN scalars |-> UnmarshalScalar(scalars[i])]

(* What is neither a scalar nor a list with something in it is dropped.    *)
Unmarshal(raw) ==
  LET Vectors == {p \in DOMAIN raw :
                    raw[p].kind = "list" /\ UnmarshalVector(raw[p]) # <<>>}
      Scalars == {p \in DOMAIN raw : IsRawScalar(raw[p])}
  IN [p \in Scalars \cup Vectors |->
        IF p \in Scalars THEN Scalar(UnmarshalScalar(raw[p]))
        ELSE Vector(UnmarshalVector(raw[p]))]

----------------------------------------------------------------------------
(* Merging *)

(* Only keys that the receiver does not have: the first one wins.          *)
MergeSettings(to, from) == Over(to, from)

(* MergeFromCB: the keys that are accepted, over what the receiver has.    *)
MergeAccepted(to, from, accepted) ==
  Over([p \in accepted \cap DOMAIN from |-> from[p]], to)

----------------------------------------------------------------------------
(* Paths *)

(* The parts that are not empty, in their order. *)
NormalPath(path) ==
  LET parts == {i \in DOMAIN path : path[i] # ""}
      Nth(k) == CHOOSE i \in parts : Cardinality({j \in parts : j <= i}) = k
  IN [k \in 1..Cardinality(parts) |-> path[Nth(k)]]

IsNormal(path) == NormalPath(path) = path

(* The spellings of a path that normalization replaces. *)
Spellings(settings, path) ==
  {p \in DOMAIN settings : ~IsNormal(p) /\ NormalPath(p) = path}

(* The entry whose value a path keeps: a spelling that is not normal is    *)
(* copied over the normal one, and the last of several stays. The loop     *)
(* runs over a map, so which one is last depends on its order.             *)
Kept(settings, path, order) ==
  LET spellings == SetToSeq(Spellings(settings, path)) IN
  IF spellings = <<>> THEN path ELSE spellings[(order % Len(spellings)) + 1]

(* Mutant: the normal spelling stays when there is one. *)
NormalizePathsKeepingNormal(settings, order) ==
  [path \in {NormalPath(p) : p \in DOMAIN settings} |->
     IF path \in DOMAIN settings THEN settings[path]
     ELSE settings[Kept(settings, path, order)]]

NormalizePaths(settings, order) ==
  [path \in {NormalPath(p) : p \in DOMAIN settings} |->
     settings[Kept(settings, path, order)]]

----------------------------------------------------------------------------
(* Files: a path in a section *)

NoSection == "none"
UnknownSection == "unknown"

(* The sections by the names they can be given (string2Section).           *)
SectionOf(name) ==
  CASE name \in {"COMMON", "common", "config.d"} -> "COMMON"
    [] name \in {"USERS", "users", "users.d"} -> "USERS"
    [] name \in {"HOST", "host", "conf.d"} -> "HOST"
    [] OTHER -> UnknownSection

(* A path of one part has no section, and one of an unknown section is in  *)
(* no ConfigMap.                                                           *)
SectionOfPath(path) == IF Len(path) < 2 THEN NoSection ELSE SectionOf(path[1])

Filename(path) == IF path = <<>> THEN "" ELSE Last(path)

InSection(path, section, includeUnspecified) ==
  \/ SectionOfPath(path) = section
  \/ includeUnspecified /\ SectionOfPath(path) = NoSection

(* GetSectionStringMap: the files of a section by name. Files with the     *)
(* same name overwrite each other in the order of the map.                 *)
SectionFiles(files, section, includeUnspecified, order) ==
  LET Selected == {p \in DOMAIN files :
                     /\ InSection(p, section, includeUnspecified)
                     /\ Filename(p) # "" /\ files[p].scalar}
      Named(name) == SetToSeq({p \in Selected : Filename(p) = name})
  IN [name \in {Filename(p) : p \in Selected} |->
        files[Named(name)[(order % Len(Named(name))) + 1]].value[1]]
=============================================================================
