------------------------------ MODULE PassProofs ------------------------------
(***************************************************************************)
(* Proofs about Provisioning: what a pass makes of a document and of the   *)
(* templates it finds, in the ConfigMaps, the StatefulSets and the         *)
(* volumes. For any documents, templates, surroundings and orders, and any *)
(* number of edits and faults.                                             *)
(***************************************************************************)
EXTENDS ProvisioningProofs, FiniteSetTheorems, SequenceTheorems, WellFoundedInduction

----------------------------------------------------------------------------
(* Sets of numbers and sequences *)

(* A set of natural numbers has a least one. *)
LEMMA LeastNatural ==
  ASSUME NEW T \in SUBSET Nat, T # {}
  PROVE  \E x \in T : \A y \in T : x <= y
<1> DEFINE R == OpToRel(<, Nat)
<1>1. IsWellFoundedOn(R, Nat)
  BY NatLessThanWellFounded
<1>2. \A x, y \in Nat : <<x, y>> \in R <=> x < y
  BY DEF OpToRel
<1> HIDE DEF R
<1>3. PICK x \in T : \A y \in T : <<y, x>> \notin R
  BY <1>1, WFMin
<1>4. x \in Nat /\ \A y \in T : y \in Nat /\ ~(y < x)
  BY <1>2, <1>3
<1> QED BY <1>4

(* A finite set of numbers has a k-th one for every k up to its size. *)
LEMMA RankExists ==
  ASSUME NEW S \in SUBSET Nat, IsFiniteSet(S), NEW k \in 1..Cardinality(S)
  PROVE  \E i \in S : Cardinality({j \in S : j <= i}) = k
<1> DEFINE Up(i) == {j \in S : j <= i}
           Bad == {n \in 1..Cardinality(S) : \A i \in S : Cardinality(Up(i)) # n}
<1>1. /\ Cardinality(S) \in Nat /\ Bad \in SUBSET Nat
      /\ \A i \in S : i \in Nat
  BY FS_CardinalityType
<1>2. \A i \in S : IsFiniteSet(Up(i)) /\ Up(i) \in SUBSET S
  BY FS_Subset
<1>3. ASSUME Bad # {} PROVE FALSE
  <2>1. PICK n \in Bad : \A m \in Bad : n <= m
    BY <1>1, <1>3, LeastNatural
  <2>2. n \in 1..Cardinality(S)
    OBVIOUS
  <2>3. CASE n = 1
    <3>1. S # {}
      BY <1>1, <2>2, FS_EmptySet
    <3>2. PICK i \in S : \A j \in S : i <= j
      BY <3>1, LeastNatural
    <3>3. Up(i) = {i}
      <4>1. \A j \in S : j <= i <=> j = i
        BY <1>1, <3>2
      <4> QED BY <4>1
    <3> QED BY <2>1, <2>3, <3>3, FS_Singleton
  <2>4. CASE n # 1
    <3>1. n - 1 \in 1..Cardinality(S) /\ n - 1 \notin Bad
      BY <1>1, <2>1, <2>2, <2>4
    <3>2. PICK i \in S : Cardinality(Up(i)) = n - 1
      BY <3>1
    <3> DEFINE T == {j \in S : i < j}
    <3>3. T # {}
      <4>1. ASSUME T = {} PROVE FALSE
        <5>1. \A j \in S : j <= i
          BY <1>1, <4>1
        <5>2. S = Up(i)
          BY <5>1
        <5> QED BY <1>1, <2>2, <3>2, <5>2
      <4> QED BY <4>1
    <3>4. PICK x \in T : \A y \in T : x <= y
      BY <3>3, LeastNatural
    <3>5. Up(x) = Up(i) \cup {x} /\ x \notin Up(i)
      <4>1. \A j \in S : j <= x <=> j <= i \/ j = x
        BY <1>1, <3>4
      <4>2. ~(x <= i)
        BY <1>1
      <4> QED BY <4>1, <4>2
    <3>6. Cardinality(Up(i) \cup {x}) = Cardinality(Up(i)) + 1
      <4> HIDE DEF Up, T
      <4> QED BY <1>2, <3>5, FS_AddElement
    <3>7. Cardinality(Up(x)) = n
      <4> HIDE DEF Up, T
      <4> QED BY <1>1, <2>2, <3>2, <3>5, <3>6
    <3> QED BY <2>1, <3>7
  <2> QED BY <2>3, <2>4
<1> QED BY <1>3

(* There are n numbers from 1 to n. *)
LEMMA CountUpTo ==
  ASSUME NEW n \in Nat
  PROVE  IsFiniteSet(1..n) /\ Cardinality(1..n) = n
BY FS_Interval

(* The numbers from 1 to n up to one of them.                              *)
LEMMA UpTo ==
  ASSUME NEW n \in Nat, NEW k \in 1..n
  PROVE  k \in Nat /\ {j \in 1..n : j <= k} = 1..k
<1>1. k \in Nat /\ k <= n
  OBVIOUS
<1>2. \A j \in 1..n : j <= k <=> j \in 1..k
  BY <1>1
<1>3. \A j \in 1..k : j \in 1..n
  BY <1>1
<1> QED BY <1>1, <1>2, <1>3

(* SetToSeq goes through a finite set. *)
LEMMA SetToSeqElements ==
  ASSUME NEW S, IsFiniteSet(S)
  PROVE  /\ Cardinality(S) \in Nat /\ Len(SetToSeq(S)) = Cardinality(S)
         /\ \A i \in 1..Cardinality(S) : SetToSeq(S)[i] \in S
         /\ SetToSeq(S) = <<>> <=> S = {}
<1>1. PICK f : f \in Bijection(1..Cardinality(S), S)
  BY FS_CardinalityType DEF ExistsBijection
<1>2. f \in [1..Cardinality(S) -> S] /\ IsInjective(f)
  BY <1>1 DEF Bijection, Injection
<1>3. SetToSeq(S) \in [1..Cardinality(S) -> S]
  BY <1>2 DEF SetToSeq
<1>4. Cardinality(S) \in Nat /\ (Cardinality(S) = 0 <=> S = {})
  BY FS_CardinalityType, FS_EmptySet
<1> QED BY <1>3, <1>4

----------------------------------------------------------------------------
(* Settings *)

(* A part of a path after normalization is one from before, and not empty. *)
LEMMA NormalParts ==
  ASSUME NEW path \in Seq(STRING)
  PROVE  /\ NormalPath(path) \in Seq(STRING)
         /\ \A i \in DOMAIN NormalPath(path) : NormalPath(path)[i] # ""
<1> DEFINE parts == {i \in DOMAIN path : path[i] # ""}
           Nth(k) == CHOOSE i \in parts : Cardinality({j \in parts : j <= i}) = k
<1>1. parts \in SUBSET Nat /\ IsFiniteSet(parts) /\ Cardinality(parts) \in Nat
  <2>1. DOMAIN path = 1..Len(path) /\ Len(path) \in Nat
    BY LenProperties
  <2>2. IsFiniteSet(1..Len(path))
    BY <2>1, CountUpTo
  <2>3. parts \in SUBSET (1..Len(path))
    BY <2>1
  <2>4. IsFiniteSet(parts)
    BY <2>2, <2>3, FS_Subset
  <2>5. Cardinality(parts) \in Nat
    BY <2>4, FS_CardinalityType
  <2>6. parts \in SUBSET Nat
    <3>1. (1..Len(path)) \in SUBSET Nat
      BY <2>1
    <3> QED BY <2>1, <3>1
  <2> QED BY <2>4, <2>5, <2>6
<1>2. \A k \in 1..Cardinality(parts) : Nth(k) \in parts
  BY <1>1, RankExists
<1>3. \A i \in parts : path[i] \in STRING
  BY LenProperties
<1> DEFINE N == [k \in 1..Cardinality(parts) |-> path[Nth(k)]]
<1>4. N \in [1..Cardinality(parts) -> STRING] /\ \A k \in 1..Cardinality(parts) : N[k] # ""
  BY <1>2, <1>3
<1>5. NormalPath(path) = N
  BY DEF NormalPath
<1> HIDE DEF N, parts
<1> DEFINE n == Cardinality(parts)
<1>6. N \in Seq(STRING)
  <2>1. n \in Nat /\ N \in [1..n -> STRING]
    BY <1>1, <1>4
  <2> HIDE DEF n
  <2> QED BY <2>1
<1> QED BY <1>4, <1>5, <1>6

(* A path without empty parts stays as it is. *)
LEMMA NormalIsNormal ==
  ASSUME NEW path \in Seq(STRING), \A i \in DOMAIN path : path[i] # ""
  PROVE  NormalPath(path) = path
<1> DEFINE parts == {i \in DOMAIN path : path[i] # ""}
           Nth(k) == CHOOSE i \in parts : Cardinality({j \in parts : j <= i}) = k
           n == Len(path)
<1>1. n \in Nat /\ parts = 1..n /\ path \in [1..n -> STRING]
  BY LenProperties
<1>2. \A k \in Nat : Cardinality(1..k) = k
  BY CountUpTo
<1>3. \A k \in 1..n : {j \in 1..n : j <= k} = 1..k /\ k \in Nat
  <2> HIDE DEF n
  <2> QED BY <1>1, UpTo
<1>4. \A k \in 1..n : Nth(k) = k
  <2> SUFFICES ASSUME NEW k \in 1..n PROVE Nth(k) = k
    OBVIOUS
  <2>1. \A i \in parts : Cardinality({j \in parts : j <= i}) = i
    BY <1>1, <1>2, <1>3
  <2> QED BY <1>1, <2>1
<1> HIDE DEF n, parts, Nth
<1>5. NormalPath(path) = [k \in 1..n |-> path[Nth(k)]]
  BY <1>1, <1>2 DEF NormalPath, n, parts, Nth
<1>6. [k \in 1..n |-> path[Nth(k)]] = path
  BY <1>1, <1>4
<1> QED BY <1>5, <1>6

----------------------------------------------------------------------------
(* Users *)

(* Paths of users, and what is above them. *)
LEMMA AboveUserPaths ==
  ASSUME NEW u, NEW a, NEW b
  PROVE  /\ <<u, a>> = SubSeq(<<u, a, b>>, 1, 2) /\ <<u>> = SubSeq(<<u, a, b>>, 1, 1)
         /\ <<u>> = SubSeq(<<u, a>>, 1, 1)
<1>1. <<u, a, b>> \in Seq({u, a, b}) /\ Len(<<u, a, b>>) = 3
  OBVIOUS
<1>2. <<u, a>> \in Seq({u, a}) /\ Len(<<u, a>>) = 2
  OBVIOUS
<1>3. \A S : \A s \in Seq(S) : \A n \in 1..Len(s) :
        /\ SubSeq(s, 1, n) \in Seq(S) /\ Len(SubSeq(s, 1, n)) = n
        /\ \A i \in 1..n : SubSeq(s, 1, n)[i] = s[i]
  <2> SUFFICES ASSUME NEW S, NEW s \in Seq(S), NEW n \in 1..Len(s)
               PROVE  /\ SubSeq(s, 1, n) \in Seq(S) /\ Len(SubSeq(s, 1, n)) = n
                      /\ \A i \in 1..n : SubSeq(s, 1, n)[i] = s[i]
    OBVIOUS
  <2>1. n \in Int /\ n >= 1 /\ \A i \in 1..n : s[i] \in S
    BY LenProperties
  <2> QED BY <2>1, SubSeqProperties
<1>4. PICK t : t = SubSeq(<<u, a, b>>, 1, 2)
  OBVIOUS
<1>5. t \in Seq({u, a, b}) /\ Len(t) = 2 /\ t[1] = u /\ t[2] = a
  BY <1>1, <1>3, <1>4
<1>6. t = <<u, a>>
  BY <1>5
<1>7. PICK s : s = SubSeq(<<u, a, b>>, 1, 1)
  OBVIOUS
<1>8. s \in Seq({u, a, b}) /\ Len(s) = 1 /\ s[1] = u
  BY <1>1, <1>3, <1>7
<1>9. s = <<u>>
  BY <1>8
<1>10. PICK v : v = SubSeq(<<u, a>>, 1, 1)
  OBVIOUS
<1>11. v \in Seq({u, a}) /\ Len(v) = 1 /\ v[1] = u
  BY <1>2, <1>3, <1>10
<1>12. v = <<u>>
  BY <1>11
<1> QED BY <1>4, <1>6, <1>7, <1>9, <1>10, <1>12

(* A setting is written, or what is above it is. *)
LEMMA ShownOrHidden ==
  ASSUME NEW settings, NEW u, NEW a, NEW b,
         NEW p \in {<<u, a>>, <<u, a, b>>}, p \in DOMAIN settings
  PROVE  p \in DOMAIN InXML(settings) \/ IsHidden(InXML(settings), p)
<1> DEFINE Above(q) == {SubSeq(q, 1, n) : n \in 1..(Len(q) - 1)}
           shown == {q \in DOMAIN settings : Above(q) \cap DOMAIN settings = {}}
<1>1. DOMAIN InXML(settings) = shown
  BY DEF InXML
<1>2. Above(<<u>>) = {}
  OBVIOUS
<1>3. Above(<<u, a>>) = {<<u>>}
  <2>1. \A n \in 1..(Len(<<u, a>>) - 1) : n = 1
    OBVIOUS
  <2>2. 1 \in 1..(Len(<<u, a>>) - 1)
    OBVIOUS
  <2> QED BY <2>1, <2>2, AboveUserPaths
<1>4. Above(<<u, a, b>>) = {<<u>>, <<u, a>>}
  <2>1. \A n \in 1..(Len(<<u, a, b>>) - 1) : n = 1 \/ n = 2
    OBVIOUS
  <2>2. 1 \in 1..(Len(<<u, a, b>>) - 1) /\ 2 \in 1..(Len(<<u, a, b>>) - 1)
    OBVIOUS
  <2> QED BY <2>1, <2>2, AboveUserPaths
<1>5. \A q : IsHidden(InXML(settings), q) <=> Above(q) \cap shown # {}
  BY <1>1 DEF IsHidden
<1> HIDE DEF Above
<1> QED BY <1>1, <1>2, <1>3, <1>4, <1>5

(* Whoever is named in the completed users is named in what they are       *)
(* completed from.                                                         *)
LEMMA UsersStay ==
  ASSUME NEW users, NEW by, NEW u \in UserNames(CompleteUsers(users, by))
  PROVE  u \in UserNames(users)
<1> DEFINE names == UserNames(users)
<1>1. \A p \in DOMAIN CompleteUsers(users, by) :
        \/ p \in DOMAIN users
        \/ \E v \in names : p \in {Profile(v), Quota(v), NetworksIP(v), NetworksHost(v),
                                   PasswordSha256(v)}
        \/ p = Password(DefaultUser)
  BY DEF CompleteUsers, Over, Digests, UserDefaults, Hashed
<1>2. \A p \in DOMAIN users : Len(p) >= 2 => p[1] \in names
  BY DEF UserNames
<1>3. DefaultUser \in names
  BY DEF UserNames
<1>4. \A p \in DOMAIN CompleteUsers(users, by) : Len(p) >= 2 => p[1] \in names
  <2> HIDE DEF names
  <2> QED BY <1>1, <1>2, <1>3
          DEF Profile, Quota, NetworksIP, NetworksHost, PasswordSha256, Password
<1> QED BY <1>3, <1>4 DEF UserNames

(* A user is completed with all that secures it. *)
LEMMA UsersAreCompleted ==
  ASSUME NEW users, NEW by, NEW u \in UserNames(users)
  PROVE  /\ {Profile(u), Quota(u), NetworksIP(u), NetworksHost(u)}
              \subseteq DOMAIN CompleteUsers(users, by)
         /\ {Password(u), PasswordSha256(u)} \subseteq DOMAIN CompleteUsers(users, by) =>
              CompleteUsers(users, by)[Password(u)].value = <<Removed>>
<1> DEFINE names == UserNames(users)
           hashed == Hashed(users, by)
           all == CompleteUsers(users, by)
<1>1. {Profile(u), Quota(u), NetworksIP(u), NetworksHost(u)} \subseteq DOMAIN all
  BY DEF CompleteUsers, Over, UserDefaults
<1>2. ASSUME PasswordSha256(u) \in DOMAIN all PROVE u \in hashed
  <2>1. CASE PasswordSha256(u) \in DOMAIN users
    BY <2>1 DEF Hashed
  <2>2. CASE PasswordSha256(u) \notin DOMAIN users
    <3>1. \/ \E v \in hashed : PasswordSha256(u) = PasswordSha256(v)
          \/ \E v : PasswordSha256(u) \in {Profile(v), Quota(v), NetworksIP(v),
                                           NetworksHost(v), Password(v)}
      BY <1>2, <2>2 DEF CompleteUsers, Over, Digests, UserDefaults
    <3> HIDE DEF hashed
    <3> QED BY <3>1 DEF PasswordSha256, Profile, Quota, NetworksIP, NetworksHost, Password
  <2> QED BY <2>1, <2>2
<1>3. ASSUME u \in hashed, Password(u) \in DOMAIN all
      PROVE  u = DefaultUser /\ all[Password(u)] = Scalar(Removed)
  <2>1. \A v : Password(u) \notin {Profile(v), Quota(v), NetworksIP(v), NetworksHost(v),
                                   PasswordSha256(v)}
    BY DEF PasswordSha256, Profile, Quota, NetworksIP, NetworksHost, Password
  <2>2. Password(u) = Password(DefaultUser) => u = DefaultUser
    BY DEF Password
  <2>3. Password(u) \notin DOMAIN Digests(users, by)
        /\ Password(u) \notin DOMAIN UserDefaults(users, by)
    BY <2>1 DEF Digests, UserDefaults
  <2> DEFINE gone == {Password(v) : v \in hashed}
             marked == [p \in {Password(DefaultUser)} |-> Scalar(Removed)]
             kept == [p \in DOMAIN users \ gone |-> users[p]]
             rest == Over(Digests(users, by), UserDefaults(users, by))
  <2>4. Password(u) \notin DOMAIN rest /\ Password(u) \notin DOMAIN kept
    BY <1>3, <2>3 DEF Over
  <2>5. all = Over(IF DefaultUser \in hashed THEN Over(marked, kept) ELSE kept, rest)
    BY DEF CompleteUsers
  <2> HIDE DEF hashed, all, kept, rest
  <2>6. DefaultUser \in hashed /\ u = DefaultUser
    BY <1>3, <2>2, <2>4, <2>5 DEF Over
  <2> QED BY <2>5, <2>6 DEF Over
<1> QED BY <1>1, <1>2, <1>3 DEF Scalar

(* So all users are secured in what is written of them.                    *)
LEMMA WrittenUsersAreSecured ==
  ASSUME NEW users, NEW by, NEW u \in UserNames(InXML(CompleteUsers(users, by)))
  PROVE  IsSecured(InXML(CompleteUsers(users, by)), u)
<1> DEFINE all == CompleteUsers(users, by)
<1>1. /\ DOMAIN InXML(all) \subseteq DOMAIN all
      /\ \A p \in DOMAIN InXML(all) : InXML(all)[p] = all[p]
  BY DEF InXML
<1>2. u \in UserNames(all)
  BY <1>1 DEF UserNames
<1>3. u \in UserNames(users)
  BY <1>2, UsersStay
<1>4. \A path \in {Profile(u), Quota(u), NetworksIP(u), NetworksHost(u)} :
        path \in DOMAIN InXML(all) \/ IsHidden(InXML(all), path)
  <2> HIDE DEF all
  <2>1. {Profile(u), Quota(u), NetworksIP(u), NetworksHost(u)} \subseteq DOMAIN all
    BY <1>3, UsersAreCompleted DEF all
  <2> QED BY <2>1, ShownOrHidden DEF Profile, Quota, NetworksIP, NetworksHost
<1>5. {Password(u), PasswordSha256(u)} \subseteq DOMAIN InXML(all) =>
        InXML(all)[Password(u)].value = <<Removed>>
  BY <1>1, <1>3, UsersAreCompleted
<1> QED BY <1>4, <1>5 DEF IsSecured


----------------------------------------------------------------------------
(* What a pass is made of *)

(* The sizes of claims and of volumes are there, and are not zero.         *)
Sized(claims) == \A c \in DOMAIN claims : claims[c] \in Nat \ {NoSize}

(* Kubernetes makes no volume for a claim that requests no storage.        *)
SizesAreGiven ==
  /\ \A d \in Documents : Sized(d.claims)
  /\ \A t \in AllTemplates : Sized(t.body.claims)
  /\ \A v \in FirstVolumes : \A r \in Replicas : Sized(v[r])

(* What settings have under the path of the mark, in any spelling.         *)
Marks(settings) ==
  {settings[p].value[1] : p \in {q \in DOMAIN settings : NormalPath(q) = Mark}}

(* Every template has the mark of its namespace, or none; no document has. *)
TemplatesAreMarked ==
  /\ \A d \in Documents : Marks(d.settings) = {}
  /\ \A t \in AllTemplates : Marks(t.body.settings) \subseteq {t.name[1]}

(* The namespaces a document may take templates from.                      *)
NamedBy(d) == {OwnNamespace} \cup {d.uses[i].namespace : i \in DOMAIN d.uses}

MayHave(d, settings) ==
  TemplatesAreMarked => Marks(settings) \subseteq NamedBy(d) \/ FindsUnlisted(d)

(* A specification merged from templates for a document.                   *)
Fits(m, d) ==
  /\ IsSpecification(m)
  /\ SizesAreGiven => Sized(m.claims)
  /\ MayHave(d, m.settings)

IsNormOf(norm, d) ==
  \E m : \E o \in Orders :
    Fits(m, d) /\ norm = NormalizeSpec(MergeSpec(m, d), config, o)

(* What the catalogue can have: templates, and their bodies without names. *)
Entries == AllTemplates \cup {Entry(Unlisted, t.body) : t \in AllTemplates}

NamesDiffer(c) == \A i, j \in DOMAIN c : c[i].name = c[j].name => i = j

(* Whatever the catalogue holds and a pass fetches is a template; what it  *)
(* merges fits the document, and so does what it goes by from then on.     *)
TemplatesInv ==
  /\ catalogue \in Seq(Entries) /\ NamesDiffer(catalogue)
  /\ \A n \in DOMAIN templates : Entry(n, templates[n]) \in AllTemplates
  /\ At("enlist") =>
       Entry(FullName(OwnNamespace, use.name), worker.fetched) \in AllTemplates

MergedInv ==
  /\ worker.step \in {"merge", "enlist"} =>
       Fits(worker.merged, worker.source) /\ worker.uses \in Seq(Range(worker.source.uses))
  /\ At("enlist") => worker.uses # <<>>
  /\ worker.step \in Replicating \cup Updating => IsNormOf(worker.norm, worker.source)
  /\ worker.step \notin Replicating \cup Updating => worker.norm = <<>>

----------------------------------------------------------------------------
(* The catalogue *)

(* What is in a sequence from which one element is taken. *)
LEMMA OneRemoved ==
  ASSUME NEW S, NEW c \in Seq(S), NEW k \in 1..Len(c)
  PROVE  /\ RemoveAt(c, k) \in Seq(S) /\ Len(RemoveAt(c, k)) = Len(c) - 1
         /\ \A j \in 1..(Len(c) - 1) :
              RemoveAt(c, k)[j] = IF j < k THEN c[j] ELSE c[j + 1]
<1> DEFINE a == SubSeq(c, 1, k - 1)
           b == SubSeq(c, k + 1, Len(c))
<1>1. /\ a \in Seq(S) /\ Len(a) = k - 1 /\ \A j \in 1..(k - 1) : a[j] = c[j]
  OBVIOUS
<1>2. /\ b \in Seq(S) /\ Len(b) = Len(c) - k
      /\ \A j \in 1..(Len(c) - k) : b[j] = c[j + k]
  OBVIOUS
<1> HIDE DEF a, b
<1>3. RemoveAt(c, k) = a \o b
  BY DEF RemoveAt, a, b
<1>4. a \o b \in Seq(S) /\ Len(a \o b) = Len(c) - 1
  BY <1>1, <1>2
<1>5. \A j \in 1..(Len(c) - 1) : (a \o b)[j] = IF j < k THEN c[j] ELSE c[j + 1]
  BY <1>1, <1>2
<1> QED BY <1>3, <1>4, <1>5

(* What is there stays when a template is enlisted: the first one counts.  *)
LEMMA CatalogueGrows ==
  ASSUME NEW S, NEW c \in Seq(S), NamesDiffer(c), NEW n, NEW body, Entry(n, body) \in S
  PROVE  /\ Enlist(c, n, body) \in Seq(S) /\ NamesDiffer(Enlist(c, n, body))
         /\ \A i \in DOMAIN c :
              i \in DOMAIN Enlist(c, n, body) /\ Enlist(c, n, body)[i] = c[i]
<1> DEFINE d == Append(c, Entry(n, body))
<1>1. CASE Places(c, n) # {}
  BY <1>1 DEF Enlist
<1>2. CASE Places(c, n) = {}
  <2>1. /\ d \in Seq(S) /\ DOMAIN c = 1..Len(c) /\ DOMAIN d = 1..(Len(c) + 1)
        /\ Len(c) \in Nat /\ d[Len(c) + 1] = Entry(n, body)
        /\ \A i \in 1..Len(c) : d[i] = c[i]
    OBVIOUS
  <2>2. \A i \in 1..Len(c) : c[i].name # Entry(n, body).name
    BY <1>2, <2>1 DEF Places, Entry
  <2> HIDE DEF d
  <2>3. NamesDiffer(d)
    BY <2>1, <2>2 DEF NamesDiffer
  <2>4. Enlist(c, n, body) = d
    BY <1>2 DEF Enlist, d
  <2> QED BY <2>1, <2>3, <2>4
<1> QED BY <1>1, <1>2

(* What keeps its name when one is taken out is as it was; what has lost   *)
(* it stays findable.                                                      *)
LEMMA CatalogueShrinks ==
  ASSUME NEW S, NEW c \in Seq(S), NamesDiffer(c), NEW n,
         \A e \in S : Entry(Unlisted, e.body) \in S
  PROVE  /\ Unlist(c, n) \in Seq(S) /\ NamesDiffer(Unlist(c, n))
         /\ \A j \in DOMAIN Unlist(c, n) :
              Unlist(c, n)[j].name # Unlisted => \E i \in DOMAIN c : c[i] = Unlist(c, n)[j]
         /\ Places(c, Unlisted) # {} => Places(Unlist(c, n), Unlisted) # {}
<1> DEFINE d == [i \in DOMAIN c |->
                   IF c[i].name = n THEN Entry(Unlisted, c[i].body) ELSE c[i]]
           nameless == Places(d, Unlisted)
           behind == {j \in nameless : \E i \in nameless : i < j}
<1>1. DOMAIN c = 1..Len(c) /\ Len(c) \in Nat /\ \A i \in 1..Len(c) : c[i] \in S
  OBVIOUS
<1>2. /\ DOMAIN d = 1..Len(c)
      /\ \A i \in 1..Len(c) : d[i] \in S /\ (d[i] = c[i] \/ d[i].name = Unlisted)
  BY <1>1 DEF Entry
<1>3. d \in Seq(S) /\ Len(d) = Len(c)
  BY <1>1, <1>2
<1>4. \A i, j \in 1..Len(c) : d[i].name = d[j].name => i = j \/ d[i].name = Unlisted
  BY <1>1, <1>2 DEF NamesDiffer
<1>5. \A i \in 1..Len(c) : c[i].name = Unlisted => d[i].name = Unlisted
  BY <1>1 DEF Entry
<1>6. /\ nameless = {i \in 1..Len(c) : d[i].name = Unlisted}
      /\ Unlist(c, n) = IF behind = {} THEN d ELSE RemoveAt(d, CHOOSE j \in behind : TRUE)
  BY <1>2 DEF Unlist, Places
<1>7. CASE behind = {}
  <2>1. NamesDiffer(d)
    <3>1. \A i, j \in nameless : ~(i < j)
      BY <1>7
    <3>3. \A i, j \in nameless : i = j
      BY <1>1, <1>6, <3>1
    <3> QED BY <1>2, <1>4, <1>6, <3>3 DEF NamesDiffer
  <2>2. Places(c, Unlisted) # {} => Places(d, Unlisted) # {}
    BY <1>1, <1>2, <1>5 DEF Places
  <2> QED BY <1>1, <1>2, <1>3, <1>6, <1>7, <2>1, <2>2
<1>8. CASE behind # {}
  <2> DEFINE k == CHOOSE j \in behind : TRUE
             e == RemoveAt(d, k)
  <2>1. k \in behind
    BY <1>8
  <2>2. PICK i0 \in nameless : i0 < k
    BY <2>1
  <2>3. k \in 1..Len(c) /\ k \in nameless /\ i0 \in 1..Len(c)
    BY <1>6, <2>1, <2>2
  <2> HIDE DEF k, d
  <2>4. /\ e \in Seq(S) /\ Len(e) = Len(c) - 1
        /\ \A j \in 1..(Len(c) - 1) : e[j] = IF j < k THEN d[j] ELSE d[j + 1]
    BY <1>3, <2>3, OneRemoved
  <2>5. DOMAIN e = 1..(Len(c) - 1)
    BY <2>4
  <2> HIDE DEF e
  (* Two of the old catalogue's are nameless at most: unlisted and of the  *)
  (* name taken out.                                                       *)
  <2>6. \A i \in nameless : i = i0 \/ i = k
    <3>1. \A i \in nameless : c[i].name = n \/ c[i].name = Unlisted
      BY <1>1, <1>6 DEF d
    <3>2. i0 \in nameless /\ k \in nameless /\ i0 # k /\ nameless \subseteq 1..Len(c)
      BY <1>1, <1>6, <2>2, <2>3
    <3> QED BY <1>1, <3>1, <3>2 DEF NamesDiffer
  <2>7. NamesDiffer(e)
    <3> SUFFICES ASSUME NEW i \in 1..(Len(c) - 1), NEW j \in 1..(Len(c) - 1),
                        e[i].name = e[j].name
                 PROVE  i = j
      BY <2>5 DEF NamesDiffer
    <3>1. PICK x \in 1..Len(c) : x = (IF i < k THEN i ELSE i + 1) /\ e[i] = d[x]
      BY <1>1, <2>3, <2>4
    <3>2. PICK y \in 1..Len(c) : y = (IF j < k THEN j ELSE j + 1) /\ e[j] = d[y]
      BY <1>1, <2>3, <2>4
    <3>3. x # k /\ y # k
      BY <2>3, <3>1, <3>2
    <3>4. x = y
      <4>1. CASE d[x].name = Unlisted
        <5>1. x \in nameless /\ y \in nameless
          BY <1>6, <3>1, <3>2, <4>1
        <5> QED BY <2>6, <3>3, <5>1
      <4>2. CASE d[x].name # Unlisted
        BY <1>4, <3>1, <3>2, <4>2
      <4> QED BY <4>1, <4>2
    <3> QED BY <2>3, <3>1, <3>2, <3>4
  <2>8. \A j \in DOMAIN e : e[j].name # Unlisted => \E i \in DOMAIN c : c[i] = e[j]
    <3> SUFFICES ASSUME NEW j \in 1..(Len(c) - 1), e[j].name # Unlisted
                 PROVE  \E i \in 1..Len(c) : c[i] = e[j]
      BY <1>1, <2>5
    <3>1. PICK x \in 1..Len(c) : e[j] = d[x]
      BY <1>1, <2>3, <2>4
    <3> QED BY <1>2, <3>1
  <2>9. Places(e, Unlisted) # {}
    <3>1. i0 \in 1..(Len(c) - 1) /\ e[i0] = d[i0]
      BY <1>1, <2>2, <2>3, <2>4
    <3>2. d[i0].name = Unlisted
      BY <1>6
    <3> QED BY <2>5, <3>1, <3>2 DEF Places
  <2>10. Unlist(c, n) = e
    BY <1>6, <1>8 DEF e, k
  <2> QED BY <2>4, <2>7, <2>8, <2>9, <2>10
<1> QED BY <1>7, <1>8

----------------------------------------------------------------------------
(* Merging *)

(* Lists keep being lists when one is appended to another. *)
LEMMA ListsAppended ==
  ASSUME NEW a, NEW b, IsList(a), IsList(b)
  PROVE  /\ IsList(a \o b) /\ Len(a \o b) = Len(a) + Len(b)
         /\ \A i \in DOMAIN a : i \in DOMAIN (a \o b) /\ (a \o b)[i] = a[i]
<1>1. a \in Seq(Range(a)) /\ b \in Seq(Range(b))
  BY DEF IsList
<1> DEFINE S == Range(a) \cup Range(b)
<1>2. a \in Seq(S) /\ b \in Seq(S)
  <2>1. \A A, B : Seq(A) \subseteq Seq(A \cup B) /\ Seq(B) \subseteq Seq(A \cup B)
    OBVIOUS
  <2> QED BY <1>1, <2>1
<1> HIDE DEF S
<1>3. /\ a \o b \in Seq(S) /\ Len(a \o b) = Len(a) + Len(b)
      /\ \A i \in 1..Len(a) : (a \o b)[i] = a[i]
      /\ DOMAIN a = 1..Len(a) /\ DOMAIN (a \o b) = 1..Len(a \o b)
      /\ Len(a) \in Nat /\ Len(b) \in Nat
  BY <1>2
<1>4. \A s \in Seq(S) : s \in Seq(Range(s))
  <2> SUFFICES ASSUME NEW s \in Seq(S) PROVE s \in Seq(Range(s))
    OBVIOUS
  <2>1. Len(s) \in Nat /\ s \in [1..Len(s) -> S]
    BY LenProperties
  <2>2. s \in [1..Len(s) -> Range(s)]
    BY <2>1 DEF Range
  <2> QED BY <2>1, <2>2
<1>5. IsList(a \o b)
  BY <1>3, <1>4, Zenon DEF IsList
<1>6. \A i \in DOMAIN a : i \in DOMAIN (a \o b)
  BY <1>3
<1> QED BY <1>3, <1>5, <1>6, Zenon

(* Settings laid over others are settings. *)
LEMMA SettingsMerged ==
  ASSUME NEW a, NEW b, IsSettings(a), IsSettings(b)
  PROVE  IsSettings(MergeSettings(a, b))
<1>1. DOMAIN MergeSettings(a, b) = DOMAIN a \cup DOMAIN b
  BY DEF MergeSettings, Over
<1>2. IsFiniteSet(DOMAIN a \cup DOMAIN b)
  BY FS_Union DEF IsSettings
<1> QED BY <1>1, <1>2 DEF IsSettings

(* A merge of two specifications is one. *)
LEMMA SpecificationsMerged ==
  ASSUME NEW to, NEW from, IsSpecification(to), IsSpecification(from)
  PROVE  IsSpecification(MergeSpec(to, from))
<1> DEFINE m == MergeSpec(to, from)
<1>1. DOMAIN to = DOMAIN NewSpec /\ DOMAIN from = DOMAIN NewSpec
  BY DEF IsSpecification
<1>2. /\ DOMAIN m = DOMAIN NewSpec
      /\ m.uses = to.uses \o from.uses
      /\ m.claims = MergeClaims(to.claims, from.claims)
      /\ m.pods = MergePods(to.pods, from.pods)
      /\ m.settings = MergeSettings(to.settings, from.settings)
      /\ m.cluster = from.cluster
  BY <1>1 DEF MergeSpec, NewSpec
<1> HIDE DEF m
<1>3. IsList(m.uses)
  BY <1>2, ListsAppended DEF IsSpecification
<1>8. DOMAIN m.names = DOMAIN NoNames
  <2>1. m.names = OverrideNames(to.names, from.names)
    BY <1>1 DEF m, MergeSpec, NewSpec
  <2> QED BY <2>1 DEF IsSpecification, OverrideNames
<1>4. \A c \in DOMAIN m.claims : m.claims[c] \in Nat
  BY <1>2 DEF IsSpecification, MergeClaims
<1>5. \A p \in DOMAIN m.pods :
        IsList(m.pods[p]) /\ \A c \in Range(m.pods[p]) : IsContainer(c)
  BY <1>2 DEF IsSpecification, MergePods
<1>6. IsSettings(m.settings)
  BY <1>2, SettingsMerged DEF IsSpecification
<1>7. IsSettings(m.cluster.level.settings) /\ IsSettings(m.cluster.shard.settings)
  BY <1>2 DEF IsSpecification
<1> QED BY <1>2, <1>3, <1>4, <1>5, <1>6, <1>7, <1>8 DEF IsSpecification, m

(* A merge of claims that give sizes gives sizes.                          *)
LEMMA ClaimsMerged ==
  ASSUME NEW a, NEW b, Sized(a), Sized(b)
  PROVE  Sized(MergeClaims(a, b))
BY DEF Sized, MergeClaims

(* A merge has no other marks than what is merged. *)
LEMMA MarksMerged ==
  ASSUME NEW a, NEW b
  PROVE  Marks(MergeSettings(a, b)) \subseteq Marks(a) \cup Marks(b)
BY DEF Marks, MergeSettings, Over

(* What fits a document still does with a body that may go into it.        *)
LEMMA BodiesMerged ==
  ASSUME NEW m, NEW d, NEW body, Fits(m, d), IsSpecification(body),
         SizesAreGiven => Sized(body.claims),
         MayHave(d, body.settings)
  PROVE  Fits(MergeSpec(m, body), d)
<1>1. IsSpecification(MergeSpec(m, body))
  BY SpecificationsMerged DEF Fits
<1>2. DOMAIN m = DOMAIN NewSpec
  BY DEF Fits, IsSpecification
<1>3. /\ MergeSpec(m, body).claims = MergeClaims(m.claims, body.claims)
      /\ MergeSpec(m, body).settings = MergeSettings(m.settings, body.settings)
  BY <1>2 DEF MergeSpec, NewSpec
<1>4. SizesAreGiven => Sized(MergeSpec(m, body).claims)
  BY <1>3, ClaimsMerged DEF Fits
<1>5. MayHave(d, MergeSpec(m, body).settings)
  BY <1>3, MarksMerged DEF Fits, MayHave
<1> QED BY <1>1, <1>4, <1>5 DEF Fits

(* The empty specification is one, with no claims and no marks. *)
LEMMA NothingMerged ==
  IsSpecification(NewSpec) /\ Sized(NewSpec.claims) /\ Marks(NewSpec.settings) = {}
<1>1. DOMAIN <<>> = {} /\ Range(<<>>) = {} /\ IsFiniteSet({})
  BY FS_EmptySet DEF Range
<1>2. IsSettings(<<>>)
  BY <1>1 DEF IsSettings
<1>3. IsList(<<>>)
  BY <1>1 DEF IsList
<1>4. /\ NewSpec.uses = <<>> /\ NewSpec.claims = <<>> /\ NewSpec.pods = <<>>
      /\ NewSpec.settings = <<>> /\ NewSpec.cluster.level.settings = <<>>
      /\ NewSpec.cluster.shard.settings = <<>> /\ NewSpec.names = NoNames
  BY DEF NewSpec, NoSettings, NoLevel
<1>5. IsSpecification(NewSpec)
  BY <1>1, <1>2, <1>3, <1>4 DEF IsSpecification
<1>6. Sized(NewSpec.claims)
  BY <1>1, <1>4 DEF Sized
<1>7. Marks(NewSpec.settings) = {}
  BY <1>1, <1>4 DEF Marks
<1> QED BY <1>5, <1>6, <1>7

(* Where templates come from, and that Entries has all of them. *)
LEMMA TemplatesKnown ==
  /\ \A s \in AllSurroundings : CanStart(s) =>
       \A c \in LoadCatalogues(s) : c \in Seq(Entries) /\ NamesDiffer(c)
  /\ \A k \in FullNames : \A b \in Bodies[k] : Entry(k, b) \in AllTemplates
  /\ AllTemplates \subseteq Entries
  /\ \A e \in Entries : Entry(Unlisted, e.body) \in Entries
<1> DEFINE Edited(k) == {Entry(k, b) : b \in Bodies[k]}
<1>1. ASSUME NEW s \in AllSurroundings, CanStart(s), NEW c \in LoadCatalogues(s)
      PROVE  c \in Seq(Entries) /\ NamesDiffer(c)
  <2> DEFINE files == TemplateFiles(s)
  <2>1. c \in SeqOf(Range(files), Cardinality(DOMAIN files)) /\ NamesDiffer(c)
    BY DEF LoadCatalogues, CataloguesOfFiles, NamesDiffer
  <2>2. Cardinality(DOMAIN files) \in Nat
    BY <1>1, ProvisioningConstants, FS_CardinalityType
  <2> HIDE DEF files
  <2>3. PICK m \in Nat : c \in [1..m -> Range(files)]
    BY <2>1, <2>2 DEF SeqOf
  <2>4. Range(c) \subseteq AllTemplates
    <3>1. Range(c) \subseteq Loadable(s)
      BY DEF Loadable
    <3>2. Loadable(s) \subseteq AllTemplates
      BY <1>1 DEF AllTemplates
    <3> QED BY <3>1, <3>2
  <2>5. c \in [1..m -> Entries]
    BY <2>3, <2>4 DEF Range, Entries
  <2> QED BY <2>1, <2>3, <2>5
<1>2. \A k \in FullNames : Edited(k) \subseteq AllTemplates
  BY DEF AllTemplates
<1>3. \A e \in Entries : Entry(Unlisted, e.body) \in Entries
  BY DEF Entries, Entry
<1> QED BY <1>1, <1>2, <1>3 DEF Entries

(* What templates there are can be loaded, or are there from the start, or *)
(* have been edited.                                                       *)
LEMMA TemplatesInvStep ==
  ASSUME WorkerInv, WorldInv, TemplatesInv, Next PROVE TemplatesInv'
<1> USE DEF At
<1>1. CASE Start
  <2>1. surroundings \in AllSurroundings /\ CanStart(surroundings)
        /\ catalogue' \in LoadCatalogues(surroundings) /\ UNCHANGED templates
        /\ worker' = Idle
    BY <1>1, Zenon DEF Start, WorldInv, written
  <2>2. catalogue' \in Seq(Entries) /\ NamesDiffer(catalogue')
    BY <2>1, TemplatesKnown
  <2> QED BY <2>1, <2>2 DEF TemplatesInv, Idle
<1>2. CASE FetchTemplate
  <2>1. /\ worker' = [worker EXCEPT !.step = "enlist",
                        !.fetched = templates[FullName(OwnNamespace, use.name)]]
        /\ FullName(OwnNamespace, use.name) \in DOMAIN templates
        /\ UNCHANGED <<catalogue, templates>>
    BY <1>2, Zenon DEF FetchTemplate, written, operator
  <2>2. use' = use /\ worker'.fetched = templates[FullName(OwnNamespace, use.name)]
    BY <2>1 DEF use, WorkerInv
  <2> QED BY <2>1, <2>2 DEF TemplatesInv
<1>3. CASE EnlistTemplate
  <2>1. /\ worker'.step = "merge" /\ UNCHANGED templates
        /\ catalogue' = Enlist(catalogue, FullName(OwnNamespace, use.name), worker.fetched)
        /\ worker.step = "enlist"
    BY <1>3 DEF EnlistTemplate, Merged, written, WorkerInv
  <2>2. Entry(FullName(OwnNamespace, use.name), worker.fetched) \in Entries
    BY <2>1, TemplatesKnown DEF TemplatesInv
  <2> QED BY <2>1, <2>2, CatalogueGrows DEF TemplatesInv
<1>4. CASE \E n \in Namespaces, t \in TemplateNames : ReconcileOther(n, t)
  <2>1. PICK n : /\ n \in DOMAIN templates /\ UNCHANGED <<worker, templates>>
                 /\ catalogue' = Enlist(catalogue, n, templates[n])
    BY <1>4, Zenon DEF ReconcileOther, written
  <2>2. Entry(n, templates[n]) \in Entries
    BY <2>1, TemplatesKnown DEF TemplatesInv
  <2> QED BY <2>1, <2>2, CatalogueGrows DEF TemplatesInv, use
<1>5. CASE \E k \in FullNames : ReconcileTemplate(k)
  <2>1. UNCHANGED <<worker, templates>> /\ \E k : catalogue' = Unlist(catalogue, k)
    BY <1>5, Zenon DEF ReconcileTemplate, written
  <2>2. catalogue' \in Seq(Entries) /\ NamesDiffer(catalogue')
    BY <2>1, CatalogueShrinks, TemplatesKnown DEF TemplatesInv
  <2> QED BY <2>1, <2>2 DEF TemplatesInv, use
<1>6. CASE \E k \in FullNames : \E b \in Bodies[k] : EditTemplate(k, b)
  <2>1. PICK k \in FullNames : \E b \in Bodies[k] : EditTemplate(k, b)
    BY <1>6
  <2>4. PICK b \in Bodies[k] : EditTemplate(k, b)
    BY <2>1
  <2>2. /\ templates' = [templates EXCEPT ![k] = b] /\ UNCHANGED <<worker, catalogue>>
    BY <2>4, Zenon DEF EditTemplate, operator
  <2>3. Entry(k, b) \in AllTemplates
    BY TemplatesKnown
  <2> QED BY <2>2, <2>3 DEF TemplatesInv, use
<1>7. CASE \E k \in FullNames : DeleteTemplate(k) \/ EndFinalizer(k)
  <2>1. /\ UNCHANGED <<worker, catalogue>>
        /\ UNCHANGED templates \/ \E S : templates' = Restrict(templates, DOMAIN templates \ S)
    BY <1>7, Zenon DEF DeleteTemplate, EndFinalizer, operator
  <2> QED BY <2>1 DEF TemplatesInv, Restrict, use
<1>8. CASE ReadInstallation \/ FindTemplate \/ SkipTemplate \/ Normalize
  BY <1>8 DEF ReadInstallation, FindTemplate, SkipTemplate, Normalize, Merged, written,
              operator, TemplatesInv, WorkerInv, Idle
<1>9. CASE Work /\ ~Merging
  <2>1. UNCHANGED <<catalogue, templates>>
    BY <1>9, Zenon
    DEF Work, SyncReplica, CreateCommon, CreateUsers, BeginReplica, SkipPaused,
        CreateStatefulSet, RefuseClaims, FindVolumes, UpdateSet, ResizeVolume, EndReplicas,
        SkipRemoved, RemoveReplica, RemoveHostMap, EndExtra, UpdateCommon, UpdateUsers, Finish,
        operator, written
  <2>2. worker'.step # "enlist"
    <3>1. CASE CreateCommon \/ CreateUsers \/ UpdateCommon \/ UpdateUsers \/ EndExtra
      BY <3>1
        DEF CreateCommon, CreateUsers, UpdateCommon, UpdateUsers, EndExtra, Goto, WorkerInv
    <3>2. CASE \/ \E r \in Replicas : BeginReplica(r) \/ SkipRemoved(r) \/ RemoveReplica(r)
               \/ RemoveHostMap \/ EndReplicas
      BY <3>2
        DEF BeginReplica, SkipRemoved, RemoveReplica, RemoveHostMap, EndReplicas, Goto,
            WorkerInv
    <3>3. CASE \/ SkipPaused \/ FindVolumes \/ UpdateSet
               \/ At("resize") /\ \E c \in worker.found : ResizeVolume(c)
      BY <3>3 DEF SkipPaused, FindVolumes, UpdateSet, ResizeVolume, Goto, WorkerInv
    <3>4. CASE CreateStatefulSet \/ RefuseClaims \/ Finish
      BY <3>4 DEF CreateStatefulSet, RefuseClaims, Finish, Idle
    <3> QED BY <1>9, <3>1, <3>2, <3>3, <3>4 DEF Work, SyncReplica
  <2> QED BY <2>1, <2>2 DEF TemplatesInv
<1>10. CASE Trouble
  <2>1. UNCHANGED <<catalogue, templates>>
    BY <1>10, Zenon DEF Trouble, FailUpdate, FailCall, Crash, operator, written
  <2>2. Idle.step = "idle" /\ Down.step = "down"
    BY DEF Idle, Down
  <2>3. worker'.step # "enlist"
    BY <1>10, <2>2 DEF Trouble, FailUpdate, FailCall, Crash, WorkerInv
  <2> QED BY <2>1, <2>3 DEF TemplatesInv
<1>11. CASE (\E d \in Documents : Edit(d)) \/ (\E s \in AllSurroundings : EditSurroundings(s))
            \/ Kubernetes
  <2>1. UNCHANGED <<worker, catalogue, templates>>
    BY <1>11, Zenon DEF Edit, EditSurroundings, Kubernetes, ProvideVolume, StartPod, operator,
                        written
  <2> QED BY <2>1 DEF TemplatesInv, use
<1> QED
  BY <1>1, <1>2, <1>3, <1>4, <1>5, <1>6, <1>7, <1>8, <1>9, <1>10, <1>11
  DEF Next, Work, Merging, Others, Editing

(* What was taken out of the catalogue stays findable until the process    *)
(* starts again.                                                           *)
LEMMA UnlistedStays ==
  ASSUME TemplatesInv, TemplatesInv', Next
  PROVE  Start \/ (Places(catalogue, Unlisted) # {} => Places(catalogue', Unlisted) # {})
<1>1. CASE UNCHANGED catalogue
  BY <1>1
<1>2. CASE EnlistTemplate \/ \E n \in Namespaces, t \in TemplateNames : ReconcileOther(n, t)
  <2>1. \E n, body : /\ catalogue' = Enlist(catalogue, n, body)
                     /\ Entry(n, body) \in AllTemplates
    BY <1>2, Zenon DEF EnlistTemplate, ReconcileOther, TemplatesInv
  <2>2. \A i \in DOMAIN catalogue : i \in DOMAIN catalogue' /\ catalogue'[i] = catalogue[i]
    BY <2>1, CatalogueGrows, TemplatesKnown DEF TemplatesInv
  <2> QED BY <2>2 DEF Places
<1>3. CASE \E k \in FullNames : ReconcileTemplate(k)
  <2>1. \E k : catalogue' = Unlist(catalogue, k)
    BY <1>3, Zenon DEF ReconcileTemplate
  <2> QED BY <2>1, CatalogueShrinks, TemplatesKnown DEF TemplatesInv
<1>4. CASE Work /\ ~EnlistTemplate
  BY <1>1, <1>4, Zenon
  DEF Work, Merging, SyncReplica, ReadInstallation, FindTemplate, FetchTemplate,
      SkipTemplate, Normalize, CreateCommon, CreateUsers, BeginReplica, SkipPaused,
      CreateStatefulSet, RefuseClaims, FindVolumes, UpdateSet, ResizeVolume, EndReplicas,
      SkipRemoved, RemoveReplica, RemoveHostMap, EndExtra, UpdateCommon, UpdateUsers, Finish,
      operator
<1>5. CASE Trouble \/ Editing \/ Kubernetes
  BY <1>1, <1>5, Zenon
  DEF Trouble, FailUpdate, FailCall, Crash, Editing, Edit, EditTemplate,
      DeleteTemplate, EndFinalizer, EditSurroundings, Kubernetes, ProvideVolume,
      StartPod, operator
<1> QED BY <1>2, <1>3, <1>4, <1>5 DEF Next, Others

(* What a pass merges fits its document, and so it goes on by the form     *)
(* normalized from it.                                                     *)
LEMMA MergedInvStep ==
  ASSUME WorkerInv, WorldInv, PassInv, TemplatesInv, TemplatesInv', MergedInv, Next
  PROVE  MergedInv'
<1> USE DEF At, WorkerInv, Replicating, Updating
<1> DEFINE Stays == Places(catalogue, Unlisted) # {} => Places(catalogue', Unlisted) # {}
<1>13. Start \/ Stays
  BY UnlistedStays
<1>1. CASE ReadInstallation
  <2>1. /\ worker'.step = "merge" /\ worker'.source = spec /\ worker'.merged = NewSpec
        /\ worker'.uses = spec.uses /\ worker'.norm = <<>>
    BY <1>1 DEF ReadInstallation, Idle
  <2>2. spec.uses \in Seq(Range(spec.uses))
    BY ProvisioningTypes DEF WorldInv, IsSpecification, IsList
  <2> QED BY <2>1, <2>2, NothingMerged DEF MergedInv, Fits, MayHave
<1>2. CASE FindTemplate \/ EnlistTemplate
  <2>1. PICK t \in AllTemplates :
          /\ Merged(t.body)
          /\ \/ t.name[1] \in {OwnNamespace, use.namespace}
             \/ FullName(use.namespace, use.name) = Unlisted /\ Places(catalogue, Unlisted) # {}
    <3>1. CASE FindTemplate
      <4>1. PICK i \in DOMAIN catalogue :
              /\ catalogue[i].name = FullName(use.namespace, use.name)
              /\ Merged(catalogue[i].body)
        BY <3>1 DEF FindTemplate, InCatalogue, Places
      <4>2. catalogue[i] \in Entries
        BY DEF TemplatesInv
      <4>3. CASE catalogue[i] \in AllTemplates
        BY <4>1, <4>3 DEF FullName
      <4>4. CASE \E t \in AllTemplates : catalogue[i] = Entry(Unlisted, t.body)
        <5>1. PICK t \in AllTemplates : catalogue[i] = Entry(Unlisted, t.body)
          BY <4>4
        <5>2. catalogue[i].name = Unlisted /\ catalogue[i].body = t.body
          BY <5>1 DEF Entry
        <5>3. i \in Places(catalogue, Unlisted)
          BY <5>2 DEF Places
        <5> QED BY <4>1, <5>2, <5>3
      <4> QED BY <4>2, <4>3, <4>4 DEF Entries
    <3>2. CASE EnlistTemplate
      <4> DEFINE e == Entry(FullName(OwnNamespace, use.name), worker.fetched)
      <4>1. e \in AllTemplates /\ Merged(worker.fetched)
        BY <3>2 DEF EnlistTemplate, TemplatesInv
      <4>2. e.body = worker.fetched /\ e.name[1] = OwnNamespace
        BY DEF Entry, FullName
      <4> QED BY <4>1, <4>2, Zenon
    <3> QED BY <1>2, <3>1, <3>2
  <2> DEFINE body == t.body
  <2>2. /\ worker.step \in {"merge", "enlist"} /\ worker.uses # <<>>
    BY <1>2 DEF FindTemplate, EnlistTemplate, MergedInv
  <2>3. /\ worker'.step = "merge" /\ worker'.merged = MergeSpec(worker.merged, body)
        /\ worker'.uses = Tail(worker.uses)
        /\ worker'.source = worker.source /\ worker'.norm = worker.norm
    BY <2>1 DEF Merged
  <2> DEFINE S == Range(worker.source.uses)
  <2>4. worker.uses \in Seq(S)
    BY <2>2 DEF MergedInv
  <2>5. Tail(worker.uses) \in Seq(S) /\ use \in S
    <3> HIDE DEF S
    <3> QED BY <2>2, <2>4 DEF use
  <2>6. t.name[1] \in NamedBy(worker.source) \/ FindsUnlisted(worker.source)
    BY <2>1, <2>5 DEF NamedBy, Range, FindsUnlisted
  <2>7. IsSpecification(body)
    BY <2>1, ProvisioningTypes
  <2>8. SizesAreGiven => Sized(body.claims)
    BY <2>1 DEF SizesAreGiven
  <2>9. MayHave(worker.source, body.settings)
    BY <2>1, <2>6 DEF TemplatesAreMarked, MayHave
  <2>10. Fits(MergeSpec(worker.merged, body), worker.source)
    BY <2>2, <2>7, <2>8, <2>9, BodiesMerged DEF MergedInv
  <2>11. Stays
    BY <1>13, <2>2 DEF Start
  <2>12. (Fits(worker.merged, worker.source))'
    BY <2>3, <2>10, <2>11 DEF Fits, MayHave, FindsUnlisted
  <2> QED BY <2>2, <2>3, <2>5, <2>12 DEF MergedInv
<1>3. CASE FetchTemplate
  <2>1. UNCHANGED catalogue
    BY <1>3 DEF FetchTemplate, operator
  <2>2. /\ worker.step = "merge" /\ worker.uses # <<>> /\ worker'.step = "enlist"
        /\ worker'.merged = worker.merged /\ worker'.uses = worker.uses
        /\ worker'.source = worker.source /\ worker'.norm = worker.norm
    BY <1>3 DEF FetchTemplate
  <2> QED BY <2>1, <2>2 DEF MergedInv, Fits, MayHave, FindsUnlisted
<1>4. CASE SkipTemplate
  <2>1. /\ worker.step = "merge" /\ worker.uses # <<>> /\ worker'.step = "merge"
        /\ worker'.merged = worker.merged /\ worker'.uses = Tail(worker.uses)
        /\ worker'.source = worker.source /\ worker'.norm = worker.norm
    BY <1>4 DEF SkipTemplate
  <2>4. UNCHANGED catalogue
    BY <1>4 DEF SkipTemplate, operator
  <2> DEFINE S == Range(worker.source.uses)
  <2>2. worker.uses \in Seq(S)
    BY <2>1 DEF MergedInv
  <2>3. Tail(worker.uses) \in Seq(S)
    <3> HIDE DEF S
    <3> QED BY <2>1, <2>2
  <2> QED BY <2>1, <2>3, <2>4 DEF MergedInv, Fits, MayHave, FindsUnlisted
<1>5. CASE Normalize
  <2>1. PICK o \in Orders :
          /\ worker'.norm = NormalizeSpec(MergeSpec(worker.merged, worker.source), config, o)
          /\ worker'.step = "common" /\ worker'.source = worker.source
          /\ worker.step = "merge" /\ UNCHANGED <<config, catalogue>>
    BY <1>5 DEF Normalize, operator
  <2>2. Fits(worker.merged, worker.source)
    BY <2>1 DEF MergedInv
  <2>3. IsNormOf(worker.norm, worker.source)'
    BY <2>1, <2>2 DEF IsNormOf, Fits, MayHave, FindsUnlisted
  <2> QED BY <2>1, <2>3 DEF MergedInv
<1>14. ASSUME Stays, UNCHANGED config,
              worker'.norm = worker.norm /\ worker'.source = worker.source,
              IsNormOf(worker.norm, worker.source)
       PROVE  IsNormOf(worker.norm, worker.source)'
  BY <1>14 DEF IsNormOf, Fits, MayHave, FindsUnlisted
<1>6. CASE /\ worker'.step \in Replicating \cup Updating
           /\ worker.step \in Replicating \cup Updating
           /\ UNCHANGED config
           /\ worker'.norm = worker.norm /\ worker'.source = worker.source
  <2>1. Stays
    BY <1>6, <1>13 DEF Start
  <2> QED BY <1>6, <1>14, <2>1 DEF MergedInv
<1>7. CASE worker' \in {Idle, Down}
  <2>1. /\ Idle.step = "idle" /\ Idle.norm = <<>>
        /\ Down.step = "down" /\ Down.norm = <<>>
    BY DEF Idle, Down
  <2> QED BY <1>7, <2>1 DEF MergedInv
<1>8. CASE UNCHANGED <<worker, config>>
  <2>1. CASE Start
    <3>1. worker' = Idle
      BY <2>1 DEF Start
    <3> QED BY <1>7, <3>1
  <2>2. CASE Stays
    <3>1. Fits(worker.merged, worker.source) => Fits(worker.merged, worker.source)'
      BY <1>8, <2>2 DEF Fits, MayHave, FindsUnlisted
    <3> QED BY <1>8, <1>14, <2>2, <3>1 DEF MergedInv
  <2> QED BY <1>13, <2>1, <2>2
<1>9. CASE Work /\ ~Merging
  <2>1. CASE \E c \in worker.found : ResizeVolume(c)
    BY <1>8, <2>1 DEF ResizeVolume, operator
  <2>2. CASE CreateStatefulSet \/ RefuseClaims \/ Finish
    BY <1>7, <2>2, Zenon DEF CreateStatefulSet, RefuseClaims, Finish
  <2>3. CASE CreateCommon \/ CreateUsers \/ UpdateCommon \/ UpdateUsers \/ EndExtra
    BY <1>6, <2>3
    DEF CreateCommon, CreateUsers, UpdateCommon, UpdateUsers, EndExtra, Goto, operator
  <2>4. CASE \/ \E r \in Replicas : BeginReplica(r)
             \/ SkipPaused \/ FindVolumes \/ UpdateSet \/ EndReplicas
    BY <1>6, <2>4
    DEF BeginReplica, SkipPaused, FindVolumes, UpdateSet, EndReplicas, Goto, operator
  <2>5. CASE (\E r \in Replicas : SkipRemoved(r) \/ RemoveReplica(r)) \/ RemoveHostMap
    BY <1>6, <2>5 DEF SkipRemoved, RemoveReplica, RemoveHostMap, Goto, operator
  <2> QED BY <1>9, <2>1, <2>2, <2>3, <2>4, <2>5 DEF Work, SyncReplica
<1>10. CASE Start \/ FailCall \/ Crash
  BY <1>7, <1>10, Zenon DEF Start, FailCall, Crash
<1>11. CASE FailUpdate
  BY <1>6, <1>11 DEF FailUpdate, operator
<1>12. CASE Others \/ Editing \/ Kubernetes
  BY <1>8, <1>12, Zenon
  DEF Others, ReconcileOther, ReconcileTemplate, Editing, Edit, EditTemplate, DeleteTemplate,
      EndFinalizer, EditSurroundings, Kubernetes, ProvideVolume, StartPod, operator
<1> QED
  BY <1>1, <1>2, <1>3, <1>4, <1>5, <1>9, <1>10, <1>11, <1>12 DEF Next, Work, Merging, Trouble

(* Both hold all along. *)
LEMMA MergedInvHolds == Spec => [](TemplatesInv /\ MergedInv)
<1>1. Init => TemplatesInv /\ MergedInv
  <2>1. EmptyCatalogue \in Seq(Entries) /\ NamesDiffer(EmptyCatalogue)
    BY DEF EmptyCatalogue, NamesDiffer
  <2>2. Down.step = "down" /\ Down.norm = <<>>
    BY DEF Down, Idle
  <2>3. ASSUME Init
        PROVE  templates = FirstTemplates /\ catalogue = EmptyCatalogue /\ worker = Down
    BY <2>3 DEF Init
  <2>4. \A n \in DOMAIN FirstTemplates : Entry(n, FirstTemplates[n]) \in AllTemplates
    BY DEF AllTemplates
  <2> QED BY <2>1, <2>2, <2>3, <2>4 DEF TemplatesInv, MergedInv, At, Replicating, Updating
<1>2. ASSUME TemplatesInv /\ MergedInv, UNCHANGED vars PROVE (TemplatesInv /\ MergedInv)'
  <2>1. UNCHANGED <<templates, catalogue, worker, config>>
    BY <1>2 DEF vars, written, operator
  <2>2. TemplatesInv'
    BY <1>2, <2>1 DEF TemplatesInv, At, use
  <2>3. MergedInv'
    BY <1>2, <2>1 DEF MergedInv, At, IsNormOf, Fits, MayHave, FindsUnlisted
  <2> QED BY <2>2, <2>3
<1>3. WorkerInv /\ WorldInv /\ PassInv /\ TemplatesInv /\ MergedInv /\ [Next]_vars =>
        (TemplatesInv /\ MergedInv)'
  BY <1>2, TemplatesInvStep, MergedInvStep
<1> QED BY <1>1, <1>3, WorkerInvHolds, WorldAndPassHold, PTL DEF Spec

(***************************************************************************)
(* A template in the catalogue stays as it is until it is taken out or the *)
(* process starts again.                                                   *)
(***************************************************************************)
THEOREM TemplatesStay == Spec => TemplatesStayTheSame
<1> DEFINE Same ==
      \A i \in DOMAIN catalogue, j \in DOMAIN catalogue' :
        catalogue[i].name = catalogue'[j].name /\ catalogue[i].name # Unlisted =>
          catalogue'[j].body = catalogue[i].body
<1>1. ASSUME TemplatesInv, TemplatesInv', Next PROVE ~At("down") => Same
  <2> USE DEF NamesDiffer
  <2>1. CASE UNCHANGED catalogue
    BY <1>1, <2>1 DEF TemplatesInv
  <2>2. CASE EnlistTemplate \/ \E n \in Namespaces, t \in TemplateNames : ReconcileOther(n, t)
    <3>1. \E n, body : /\ catalogue' = Enlist(catalogue, n, body)
                       /\ Entry(n, body) \in AllTemplates
      BY <1>1, <2>2, Zenon DEF EnlistTemplate, ReconcileOther, TemplatesInv
    <3>2. \A i \in DOMAIN catalogue : i \in DOMAIN catalogue' /\ catalogue'[i] = catalogue[i]
      BY <1>1, <3>1, CatalogueGrows, TemplatesKnown DEF TemplatesInv
    <3> QED BY <1>1, <3>2 DEF TemplatesInv
  <2>3. CASE \E k \in FullNames : ReconcileTemplate(k)
    <3>1. \E k : catalogue' = Unlist(catalogue, k)
      BY <2>3, Zenon DEF ReconcileTemplate
    <3>2. \A j \in DOMAIN catalogue' :
            catalogue'[j].name # Unlisted =>
              \E k \in DOMAIN catalogue : catalogue[k] = catalogue'[j]
      <4>1. catalogue \in Seq(Entries) /\ NamesDiffer(catalogue)
        BY <1>1 DEF TemplatesInv
      <4> QED BY <3>1, <4>1, CatalogueShrinks, TemplatesKnown
    <3> SUFFICES ASSUME NEW i \in DOMAIN catalogue, NEW j \in DOMAIN catalogue',
                        catalogue[i].name = catalogue'[j].name, catalogue[i].name # Unlisted
                 PROVE  catalogue'[j].body = catalogue[i].body
      OBVIOUS
    <3>3. PICK k \in DOMAIN catalogue : catalogue[k] = catalogue'[j]
      BY <3>2
    <3>4. k = i
      BY <1>1, <3>3 DEF TemplatesInv
    <3> QED BY <3>3, <3>4
  <2>4. CASE Start
    BY <2>4 DEF Start
  <2>5. CASE Work /\ ~EnlistTemplate
    BY <2>1, <2>5, Zenon
    DEF Work, Merging, SyncReplica, ReadInstallation, FindTemplate, FetchTemplate,
        SkipTemplate, Normalize, CreateCommon, CreateUsers, BeginReplica, SkipPaused,
        CreateStatefulSet, RefuseClaims, FindVolumes, UpdateSet, ResizeVolume, EndReplicas,
        SkipRemoved, RemoveReplica, RemoveHostMap, EndExtra, UpdateCommon, UpdateUsers,
        Finish, operator
  <2>6. CASE Trouble \/ Editing \/ Kubernetes
    BY <2>1, <2>6, Zenon
    DEF Trouble, FailUpdate, FailCall, Crash, Editing, Edit, EditTemplate,
        DeleteTemplate, EndFinalizer, EditSurroundings, Kubernetes, ProvideVolume,
        StartPod, operator
  <2> QED BY <1>1, <2>2, <2>3, <2>4, <2>5, <2>6 DEF Next, Others
<1>2. TemplatesInv /\ TemplatesInv' /\ [Next]_vars => [~At("down") => Same]_vars
  BY <1>1
<1>3. Spec => [][~At("down") => Same]_vars
  BY <1>2, MergedInvHolds, PTL DEF Spec
<1> QED BY <1>3 DEF TemplatesStayTheSame

----------------------------------------------------------------------------
(* Users that are secured *)

(* What is written of users is written of completed ones, by whatever      *)
(* configuration the pass had that wrote it.                               *)
WrittenUsersInv ==
  "users" \in DOMAIN configMaps =>
    \E users, by, files, operatorFiles :
      configMaps["users"] =
        ConfigMap([users |-> InXML(CompleteUsers(users, by))], files, operatorFiles)

(* The specification of a pass has completed users.                        *)
LEMMA NormalUsers ==
  ASSUME NEW norm, NEW d, IsNormOf(norm, d)
  PROVE  \E users, by : norm.users = CompleteUsers(users, by)
<1>1. PICK m : \E o \in Orders : norm = NormalizeSpec(MergeSpec(m, d), config, o)
  BY DEF IsNormOf
<1>2. PICK o \in Orders : norm = NormalizeSpec(MergeSpec(m, d), config, o)
  BY <1>1
<1>3. norm.users = NormalizeUsers(MergeSpec(m, d).users, config, o)
  BY <1>2 DEF NormalizeSpec
<1> QED BY <1>3, Zenon DEF NormalizeUsers

(* Every step keeps that. *)
LEMMA WrittenUsersInvStep ==
  ASSUME WorkerInv, MergedInv, WrittenUsersInv, Next PROVE WrittenUsersInv'
<1>1. CASE UNCHANGED configMaps
  BY <1>1 DEF WrittenUsersInv
<1>2. CASE CreateCommon \/ UpdateCommon
  <2>1. UNCHANGED configMaps \/ \E content : configMaps' = Put(configMaps, "common", content)
    BY <1>2, Zenon DEF CreateCommon, UpdateCommon, SyncConfigMap
  <2> QED BY <2>1 DEF Put, WrittenUsersInv
<1>3. CASE CreateUsers \/ UpdateUsers
  <2>1. /\ worker.step \in {"users", "update users"}
        /\ \/ UNCHANGED configMaps
           \/ \E o \in Orders : configMaps' = Put(configMaps, "users", ContentOf("users", o))
    BY <1>3, Zenon DEF CreateUsers, UpdateUsers, SyncConfigMap, At
  <2>2. CASE UNCHANGED configMaps
    BY <1>1, <2>2
  <2>3. CASE \E o \in Orders : configMaps' = Put(configMaps, "users", ContentOf("users", o))
    <3>1. PICK o \in Orders : configMaps' = Put(configMaps, "users", ContentOf("users", o))
      BY <2>3
    <3>2. configMaps'["users"] = CreateConfigsUsers(worker.norm, config, o)
      BY <3>1 DEF Put, ContentOf
    <3>3. IsNormOf(worker.norm, worker.source)
      BY <2>1 DEF MergedInv, Replicating, Updating
    <3>4. PICK users, by : worker.norm.users = CompleteUsers(users, by)
      BY <3>3, NormalUsers
    <3>5. \E files, operatorFiles :
            configMaps'["users"] =
              ConfigMap([users |-> InXML(CompleteUsers(users, by))], files, operatorFiles)
      BY <3>2, <3>4, Zenon DEF CreateConfigsUsers
    <3> QED BY <3>5, Zenon DEF WrittenUsersInv
  <2> QED BY <2>1, <2>2, <2>3
<1>4. CASE Work /\ ~(CreateCommon \/ CreateUsers \/ UpdateCommon \/ UpdateUsers)
  BY <1>1, <1>4, Zenon
  DEF Work, Merging, SyncReplica, ReadInstallation, FindTemplate, FetchTemplate,
      EnlistTemplate, SkipTemplate, Normalize, BeginReplica, SkipPaused, CreateStatefulSet,
      RefuseClaims, FindVolumes, UpdateSet, ResizeVolume, EndReplicas, SkipRemoved,
      RemoveReplica, RemoveHostMap, EndExtra, Finish, objects
<1>5. CASE Start \/ Trouble \/ Others \/ Editing \/ Kubernetes
  BY <1>1, <1>5, Zenon
  DEF Start, Trouble, FailUpdate, FailCall, Crash, Others, ReconcileOther, ReconcileTemplate,
      Editing, Edit, EditTemplate, DeleteTemplate, EndFinalizer, EditSurroundings, Kubernetes,
      ProvideVolume, StartPod, objects
<1> QED BY <1>2, <1>3, <1>4, <1>5 DEF Next

(* Whatever is written of users that are completed is secure.              *)
LEMMA WrittenIsSecured ==
  ASSUME WrittenUsersInv PROVE UsersAreSecured
<1> DEFINE map == configMaps["users"]
<1> SUFFICES ASSUME "users" \in DOMAIN configMaps,
                    GeneratedFilename("users") \notin DOMAIN map.files
             PROVE  /\ "users" \in DOMAIN map.sections
                    /\ \A u \in UserNames(map.sections["users"]) :
                         IsSecured(map.sections["users"], u)
  BY DEF UsersAreSecured
<1>1. PICK users, by, files, operatorFiles :
        map = ConfigMap([users |-> InXML(CompleteUsers(users, by))], files, operatorFiles)
  BY DEF WrittenUsersInv
<1> DEFINE xml == InXML(CompleteUsers(users, by))
<1>2. \A u \in UserNames(xml) : IsSecured(xml, u)
  BY WrittenUsersAreSecured
<1>3. DOMAIN xml # {}
  <2> DEFINE u == DefaultUser
             all == CompleteUsers(users, by)
  <2>1. Profile(u) \in DOMAIN all
    BY UsersAreCompleted DEF UserNames
  <2>2. Profile(u) \in DOMAIN xml \/ IsHidden(xml, Profile(u))
    <3> HIDE DEF all, u
    <3>1. Profile(u) \in DOMAIN InXML(all) \/ IsHidden(InXML(all), Profile(u))
      BY <2>1, ShownOrHidden DEF Profile
    <3> QED BY <3>1 DEF all
  <2> HIDE DEF xml
  <2> QED BY <2>2 DEF IsHidden
<1> HIDE DEF xml
<1>4. map = ConfigMap([users |-> xml], files, operatorFiles)
  BY <1>1 DEF xml
<1>5. "users" \in DOMAIN map.sections /\ map.sections["users"] = xml
  BY <1>3, <1>4 DEF ConfigMap
<1> QED BY <1>2, <1>5

(***************************************************************************)
(* Every user of the users.xml that is written is restricted as the        *)
(* operator says, and has no password beside a digest: for any documents   *)
(* and templates, in whatever spelling, and any configuration.             *)
(***************************************************************************)
THEOREM UsersSecured == Spec => []UsersAreSecured
<1>1. Init => WrittenUsersInv
  BY DEF Init, WrittenUsersInv
<1>2. ASSUME WrittenUsersInv, UNCHANGED vars PROVE WrittenUsersInv'
  <2>1. UNCHANGED configMaps
    BY <1>2, Zenon DEF vars, objects
  <2> QED BY <1>2, <2>1 DEF WrittenUsersInv
<1>3. WorkerInv /\ MergedInv /\ WrittenUsersInv /\ [Next]_vars => WrittenUsersInv'
  BY <1>2, WrittenUsersInvStep
<1> QED BY <1>1, <1>3, WrittenIsSecured, WorkerInvHolds, MergedInvHolds, PTL DEF Spec

----------------------------------------------------------------------------
(* Settings that count *)

(* The entry a path keeps is one of its spellings, or its own.             *)
LEMMA KeptIsOne ==
  ASSUME NEW settings, IsSettings(settings), NEW order \in Nat,
         NEW p \in DOMAIN settings
  PROVE  LET path == NormalPath(p)
             kept == Kept(settings, path, order)
         IN /\ kept \in DOMAIN settings /\ NormalPath(kept) = path
            /\ Spellings(settings, path) = {} => kept = path
            /\ Spellings(settings, path) # {} => kept \in Spellings(settings, path)
<1> DEFINE path == NormalPath(p)
           spellings == Spellings(settings, path)
           list == SetToSeq(spellings)
           kept == Kept(settings, path, order)
<1>1. spellings \in SUBSET DOMAIN settings /\ IsFiniteSet(spellings)
  BY FS_Subset DEF IsSettings, Spellings
<1>2. /\ Cardinality(spellings) \in Nat /\ Len(list) = Cardinality(spellings)
      /\ \A i \in 1..Cardinality(spellings) : list[i] \in spellings
      /\ list = <<>> <=> spellings = {}
      /\ Cardinality(spellings) = 0 <=> spellings = {}
  <2> HIDE DEF spellings
  <2> QED BY <1>1, SetToSeqElements, FS_EmptySet
<1>3. kept = IF list = <<>> THEN path ELSE list[(order % Len(list)) + 1]
  BY DEF Kept
<1>4. CASE spellings = {}
  <2>1. p = path
    BY <1>4 DEF Spellings, IsNormal
  <2> QED BY <1>2, <1>3, <1>4, <2>1
<1>5. CASE spellings # {}
  <2>1. kept \in spellings
    <3> DEFINE n == Cardinality(spellings)
    <3>1. n \in Nat /\ n # 0 /\ Len(list) = n
      BY <1>2, <1>5
    <3>2. (order % n) + 1 \in 1..n
      <4> HIDE DEF n
      <4> QED BY <3>1
    <3>3. kept = list[(order % n) + 1]
      BY <1>2, <1>3, <1>5
    <3> QED BY <1>2, <3>2, <3>3
  <2> QED BY <1>5, <2>1 DEF Spellings
<1> QED BY <1>4, <1>5

(* Normalization leaves normal paths only, each with a value of one of its *)
(* spellings; and it does nothing to paths that are normal.                *)
LEMMA PathsNormalized ==
  ASSUME NEW settings, IsSettings(settings), NEW order \in Nat
  PROVE  LET new == NormalizePaths(settings, order) IN
         /\ IsSettings(new) /\ \A q \in DOMAIN new : IsNormal(q)
         /\ \A q \in DOMAIN new : \E p \in DOMAIN settings :
              NormalPath(p) = q /\ new[q] = settings[p]
         /\ (\A p \in DOMAIN settings : IsNormal(p)) =>
              DOMAIN new = DOMAIN settings /\ \A q \in DOMAIN new : new[q] = settings[q]
<1> DEFINE new == NormalizePaths(settings, order)
           D == DOMAIN settings
           N == {NormalPath(p) : p \in D}
<1>1. DOMAIN new = N
  BY DEF NormalizePaths
<1>2. \A q \in N : new[q] = settings[Kept(settings, q, order)]
  BY DEF NormalizePaths
<1>3. \A p \in D : p \in Seq(STRING)
  BY DEF IsSettings
<1>4. \A q \in N : q \in Seq(STRING) /\ IsNormal(q)
  BY <1>3, NormalParts, NormalIsNormal DEF IsNormal
<1>5. IsFiniteSet(N)
  <2> DEFINE f == [p \in D |-> NormalPath(p)]
  <2>1. f \in Surjection(D, N)
    BY DEF Surjection
  <2> HIDE DEF f, D, N
  <2> QED BY <2>1, FS_Surjection DEF IsSettings, D
<1>6. IsSettings(new)
  <2> HIDE DEF new, N
  <2> QED BY <1>1, <1>4, <1>5 DEF IsSettings
<1>7. \A q \in N : \E p \in D : NormalPath(p) = q /\ new[q] = settings[p]
  BY <1>2, KeptIsOne
<1>8. ASSUME \A p \in D : IsNormal(p)
      PROVE  DOMAIN new = D /\ \A q \in DOMAIN new : new[q] = settings[q]
  <2>1. N = D
    BY <1>8 DEF IsNormal
  <2>2. \A q \in D : NormalPath(q) = q /\ Spellings(settings, q) = {}
    BY <1>8 DEF IsNormal, Spellings
  <2>3. \A q \in D : Kept(settings, q, order) = q
    BY <2>2, KeptIsOne
  <2> QED BY <1>1, <1>2, <2>1, <2>3
<1> QED BY <1>1, <1>4, <1>6, <1>7, <1>8

(* Nothing of a namespace gets into the form of a document that does not   *)
(* name it, but by a use that names nothing.                               *)
LEMMA NormHasNamedMarks ==
  ASSUME TemplatesAreMarked, NEW d \in Documents, NEW norm, IsNormOf(norm, d),
         Mark \in DOMAIN norm.settings
  PROVE  norm.settings[Mark].value[1] \in NamedBy(d) \/ FindsUnlisted(d)
<1>1. PICK m : \E o \in Orders : Fits(m, d) /\ norm = NormalizeSpec(MergeSpec(m, d), config, o)
  BY DEF IsNormOf
<1>2. PICK o \in Orders : Fits(m, d) /\ norm = NormalizeSpec(MergeSpec(m, d), config, o)
  BY <1>1
<1> DEFINE all == MergeSettings(m.settings, d.settings)
<1>3. norm.settings = NormalizePaths(all, o)
  BY <1>2 DEF NormalizeSpec, MergeSpec, Fits, IsSpecification, NewSpec
<1>4. IsSettings(all) /\ o \in Nat
  <2>1. IsSettings(m.settings) /\ IsSettings(d.settings)
    BY <1>2, ProvisioningTypes DEF Fits, IsSpecification
  <2> QED BY <2>1, SettingsMerged, ProvisioningConstants
<1>5. Marks(all) \subseteq NamedBy(d) \/ FindsUnlisted(d)
  <2>1. /\ Marks(d.settings) = {}
        /\ Marks(m.settings) \subseteq NamedBy(d) \/ FindsUnlisted(d)
    BY <1>2 DEF TemplatesAreMarked, Fits, MayHave
  <2> QED BY <2>1, MarksMerged
<1> HIDE DEF all
<1>6. \E p \in DOMAIN all : NormalPath(p) = Mark /\ norm.settings[Mark] = all[p]
  BY <1>3, <1>4, PathsNormalized
<1> QED BY <1>5, <1>6 DEF Marks

(***************************************************************************)
(* Nothing of a namespace gets into a specification that neither lives     *)
(* there nor names it, with whatever is in the catalogue they share: if    *)
(* the marks of templates are those of their namespaces, and unless a use  *)
(* of the specification names nothing and finds what was taken out.        *)
(***************************************************************************)
THEOREM NamespacesKept ==
  ASSUME TemplatesAreMarked
  PROVE  Spec => []NamespacesAreKept
<1>1. WorkerInv /\ PassInv /\ MergedInv => NamespacesAreKept
  <2> SUFFICES ASSUME PassInv, MergedInv, worker.norm # <<>>,
                      Mark \in DOMAIN worker.norm.settings
               PROVE  \/ worker.norm.settings[Mark].value[1] \in
                           {OwnNamespace} \cup {worker.source.uses[i].namespace :
                                                  i \in DOMAIN worker.source.uses}
                      \/ FindsUnlisted(worker.source)
    BY DEF NamespacesAreKept
  <2>1. worker.step \in Replicating \cup Updating
    BY DEF MergedInv
  <2>2. worker.source \in Documents /\ IsNormOf(worker.norm, worker.source)
    BY <2>1 DEF MergedInv, PassInv, Replicating, Updating
  <2> QED BY <2>2, NormHasNamedMarks DEF NamedBy
<1> QED BY <1>1, WorkerInvHolds, WorldAndPassHold, MergedInvHolds, PTL

(* What a shard has in any spelling is what its replicas get under the     *)
(* path, whatever the cluster has there.                                   *)
LEMMA ShardCounts ==
  ASSUME NEW own, IsSettings(own), NEW below, IsSettings(below),
         \A p \in DOMAIN below : IsNormal(p),
         NEW order \in Nat, NEW p \in DOMAIN own
  PROVE  LET shard == NormalizePaths(MergeSettings(own, below), order) IN
         /\ NormalPath(p) \in DOMAIN shard
         /\ \E q \in DOMAIN own : NormalPath(q) = NormalPath(p)
                                  /\ shard[NormalPath(p)] = own[q]
<1> DEFINE all == MergeSettings(own, below)
           path == NormalPath(p)
           kept == Kept(all, path, order)
           shard == NormalizePaths(all, order)
<1>1. /\ DOMAIN all = DOMAIN own \cup DOMAIN below
      /\ \A q \in DOMAIN own : all[q] = own[q]
  BY DEF MergeSettings, Over
<1>2. IsSettings(all)
  BY SettingsMerged
<1>3. path \in DOMAIN shard /\ shard[path] = all[kept]
  BY <1>1 DEF NormalizePaths
<1> HIDE DEF all
<1>4. /\ NormalPath(kept) = path
      /\ Spellings(all, path) = {} => kept = path
      /\ Spellings(all, path) # {} => kept \in Spellings(all, path)
  BY <1>1, <1>2, KeptIsOne
<1>5. kept \in DOMAIN own
  <2>1. CASE Spellings(all, path) = {}
    <3>1. p = path
      BY <1>1, <2>1 DEF Spellings, IsNormal
    <3> QED BY <1>4, <2>1, <3>1
  <2>2. CASE Spellings(all, path) # {}
    BY <1>1, <1>4, <2>2 DEF Spellings
  <2> QED BY <2>1, <2>2
<1> QED BY <1>1, <1>3, <1>4, <1>5 DEF all

(* A replica that the normalizer adds has what the shard has.              *)
LEMMA GeneratedHaveShard ==
  ASSUME NEW s, IsSpecification(s), NEW order \in Nat,
         NEW p \in DOMAIN s.cluster.shard.settings,
         NormalPath(p) \in DOMAIN GeneratedReplica(s, order).level.settings
  PROVE  \E q \in DOMAIN s.cluster.shard.settings :
           /\ NormalPath(q) = NormalPath(p)
           /\ GeneratedReplica(s, order).level.settings[NormalPath(p)] =
                s.cluster.shard.settings[q]
<1> DEFINE own == s.cluster.shard.settings
           below == NormalizePaths(s.cluster.level.settings, order)
           shard == NormalizePaths(MergeSettings(own, below), order)
           inherited == MergeSettings(NoSettings, shard)
           level == GeneratedReplica(s, order).level
<1>1. level.settings = NormalizePaths(inherited, order)
  BY DEF GeneratedReplica, NormalLevel, InheritLevel, ShardLevel, ClusterLevel, NoLevel
<1>2. IsSettings(own) /\ IsSettings(s.cluster.level.settings)
  BY DEF IsSpecification
<1>3. IsSettings(below) /\ \A q \in DOMAIN below : IsNormal(q)
  BY <1>2, PathsNormalized
<1> HIDE DEF below
<1>4. IsSettings(MergeSettings(own, below))
  BY <1>2, <1>3, SettingsMerged
<1>5. IsSettings(shard) /\ \A q \in DOMAIN shard : IsNormal(q)
  BY <1>4, PathsNormalized
<1>6. \E q \in DOMAIN own : NormalPath(q) = NormalPath(p) /\ shard[NormalPath(p)] = own[q]
  BY <1>2, <1>3, ShardCounts
<1> HIDE DEF shard
<1>7. DOMAIN inherited = DOMAIN shard /\ \A q \in DOMAIN shard : inherited[q] = shard[q]
  BY DEF MergeSettings, Over, NoSettings
<1>8. IsSettings(inherited)
  BY <1>5, <1>7 DEF IsSettings
<1> HIDE DEF inherited
<1>9. level.settings[NormalPath(p)] = shard[NormalPath(p)]
  BY <1>1, <1>5, <1>7, <1>8, PathsNormalized
<1> QED BY <1>6, <1>9

(***************************************************************************)
(* What a shard sets counts for its replicas over what the cluster sets,   *)
(* in whatever spellings, and in whatever order Go goes through the maps.  *)
(***************************************************************************)
THEOREM ShardSettingsWin == Spec => []ShardSettingsCount
<1>1. WorkerInv /\ PassInv /\ MergedInv /\ OneSpecInv => ShardSettingsCount
  <2> SUFFICES ASSUME PassInv, MergedInv, OneSpecInv, At("finish"),
                      NEW r \in Generated, "settings" \in DOMAIN hostMaps[r].sections,
                      NEW p \in DOMAIN worker.source.cluster.shard.settings,
                      NormalPath(p) \in DOMAIN hostMaps[r].sections["settings"]
               PROVE  \E q \in DOMAIN worker.source.cluster.shard.settings :
                        /\ NormalPath(q) = NormalPath(p)
                        /\ hostMaps[r].sections["settings"][NormalPath(p)] =
                             worker.source.cluster.shard.settings[q]
    BY DEF ShardSettingsCount
  <2> DEFINE norm == worker.norm
             d == worker.source
  <2>1. /\ d \in Documents
        /\ IsNormOf(norm, d)
        /\ HostIs(norm, r)
        /\ r \notin DOMAIN d.cluster.listed
        /\ r \in DOMAIN norm.replicas
    BY DEF PassInv, MergedInv, OneSpecInv, At, Updating, Generated
  <2>2. PICK m : \E o \in Orders :
          Fits(m, d) /\ norm = NormalizeSpec(MergeSpec(m, d), config, o)
    BY <2>1 DEF IsNormOf
  <2>3. PICK o \in Orders : Fits(m, d) /\ norm = NormalizeSpec(MergeSpec(m, d), config, o)
    BY <2>2
  <2> DEFINE s == MergeSpec(m, d)
  <2>4. IsSpecification(s) /\ s.cluster = d.cluster /\ o \in Nat
    <3>1. IsSpecification(m) /\ IsSpecification(d)
      BY <2>1, <2>3, ProvisioningTypes DEF Fits
    <3>2. "cluster" \in DOMAIN m
      BY <3>1 DEF IsSpecification, NewSpec
    <3> QED BY <3>1, <3>2, SpecificationsMerged, MergeKeepsCluster, ProvisioningConstants
  <2> HIDE DEF s
  <2>5. norm.replicas[r] = GeneratedReplica(s, o)
    BY <2>1, <2>3, <2>4 DEF NormalizeSpec, ReplicasOf, s
  <2>6. PICK o2 \in Orders : hostMaps[r] = CreateConfigsHost(norm, r, config, o2)
    BY <2>1 DEF HostIs
  <2> DEFINE settings == GeneratedReplica(s, o).level.settings
  <2>7. hostMaps[r].sections["settings"] = InXML(settings)
    BY <2>5, <2>6 DEF CreateConfigsHost, ConfigMap
  <2>8. /\ NormalPath(p) \in DOMAIN settings
        /\ hostMaps[r].sections["settings"][NormalPath(p)] = settings[NormalPath(p)]
    <3> HIDE DEF settings
    <3> QED BY <2>7 DEF InXML
  <2> QED BY <2>4, <2>8, GeneratedHaveShard
<1> QED BY <1>1, WorkerInvHolds, WorldAndPassHold, MergedInvHolds, OneSpecInvHolds, PTL

----------------------------------------------------------------------------
(* StatefulSets *)

(* What Kubernetes has of claims and volumes gives its size. *)
SizesInv ==
  /\ \A r \in DOMAIN sets : Sized(sets[r].claims)
  /\ \A r \in Replicas : Sized(volumes[r])

(* The claims of a StatefulSet are from the specification. *)
LEMMA ClaimsWanted ==
  ASSUME NEW norm, NEW r
  PROVE  LET wanted == StatefulSetFor(norm, r).claims IN
         /\ DOMAIN wanted \subseteq DOMAIN norm.claims
         /\ \A c \in DOMAIN wanted : wanted[c] = norm.claims[c]
<1> DEFINE names == norm.replicas[r].names
           containers == ApplyVolumeClaimTemplates(Containers(norm, names), norm, names)
<1>1. StatefulSetFor(norm, r).claims = ClaimsMounted(containers, norm)
  BY DEF StatefulSetFor
<1> HIDE DEF containers
<1> QED BY <1>1 DEF ClaimsMounted

(* They give a size if all there is does. *)
LEMMA WantedIsSized ==
  ASSUME SizesAreGiven, NEW d \in Documents, NEW norm, IsNormOf(norm, d), NEW r
  PROVE  Sized(StatefulSetFor(norm, r).claims)
<1>1. PICK m : \E o \in Orders : Fits(m, d) /\ norm = NormalizeSpec(MergeSpec(m, d), config, o)
  BY DEF IsNormOf
<1>2. norm.claims = MergeClaims(m.claims, d.claims)
  BY <1>1 DEF NormalizeSpec, MergeSpec, Fits, IsSpecification, NewSpec
<1>3. Sized(norm.claims)
  BY <1>1, <1>2, ClaimsMerged DEF Fits, SizesAreGiven
<1> QED BY <1>3, ClaimsWanted DEF Sized

(* Every step keeps the sizes that are given. *)
LEMMA SizesInvStep ==
  ASSUME SizesAreGiven, WorkerInv, PassInv, VolumesInv, MergedInv, SizesInv, Next
  PROVE  SizesInv'
<1>1. ASSUME worker.step \in {"statefulset", "resize"} PROVE Sized(Wanted.claims)
  <2>1. worker.source \in Documents /\ IsNormOf(worker.norm, worker.source)
    BY <1>1 DEF PassInv, MergedInv, Replicating, Updating
  <2> QED BY <2>1, WantedIsSized DEF Wanted
<1>2. CASE UNCHANGED <<sets, volumes>>
  BY <1>2 DEF SizesInv
<1>3. CASE CreateStatefulSet
  <2>1. sets' = Put(sets, current, Wanted) /\ UNCHANGED volumes /\ At("statefulset")
    BY <1>3, Zenon DEF CreateStatefulSet
  <2> QED BY <1>1, <2>1 DEF SizesInv, Put, At
<1>4. CASE UpdateSet
  <2>1. sets' = [sets EXCEPT ![current] = Updated(@, Wanted)] /\ UNCHANGED volumes
    BY <1>4, Zenon DEF UpdateSet
  <2> QED BY <2>1 DEF SizesInv, Updated
<1>5. CASE \E r \in Replicas : RemoveReplica(r)
  <2>1. UNCHANGED volumes /\ \E r : sets' = Restrict(sets, DOMAIN sets \ {r})
    BY <1>5, Zenon DEF RemoveReplica
  <2> QED BY <2>1 DEF SizesInv, Restrict
<1>6. CASE \E c \in worker.found : ResizeVolume(c)
  <2>1. PICK c \in worker.found : ResizeVolume(c)
    BY <1>6
  <2>2. /\ volumes' = [volumes EXCEPT ![current][c] = Wanted.claims[c]] /\ UNCHANGED sets
        /\ At("resize") /\ c \in StillToResize
    BY <2>1, Zenon DEF ResizeVolume, objects
  <2>3. c \in DOMAIN Wanted.claims
    BY <2>2 DEF StillToResize, ToResize
  <2>4. Wanted.claims[c] \in Nat \ {NoSize}
    BY <1>1, <2>2, <2>3 DEF At, Sized
  <2> DEFINE size == Wanted.claims[c]
  <2> HIDE DEF size
  <2>5. volumes' = [volumes EXCEPT ![current][c] = size] /\ size \in Nat \ {NoSize}
    BY <2>2, <2>4 DEF size
  <2> QED BY <2>2, <2>5 DEF SizesInv, Sized, VolumesInv
<1>7. CASE Kubernetes
  <2>1. CASE \E r \in Replicas : StartPod(r)
    BY <1>2, <2>1, Zenon DEF StartPod, objects
  <2>2. CASE \E r \in Replicas :
               r \in DOMAIN sets /\ \E c \in DOMAIN sets[r].claims : ProvideVolume(r, c)
    <3>1. PICK r \in Replicas :
            r \in DOMAIN sets /\ \E c \in DOMAIN sets[r].claims : ProvideVolume(r, c)
      BY <2>2
    <3>2. PICK c \in DOMAIN sets[r].claims : ProvideVolume(r, c)
      BY <3>1
    <3>3. /\ volumes' = [volumes EXCEPT ![r] = Put(@, c, sets[r].claims[c])] /\ UNCHANGED sets
      BY <3>2, Zenon DEF ProvideVolume, objects
    <3> QED BY <3>1, <3>2, <3>3 DEF SizesInv, Sized, Put, VolumesInv
  <2> QED BY <1>7, <2>1, <2>2 DEF Kubernetes
<1>8. CASE \/ Merging \/ CreateCommon \/ CreateUsers \/ UpdateCommon \/ UpdateUsers
           \/ (\E r \in Replicas : BeginReplica(r) \/ SkipRemoved(r)) \/ RemoveHostMap
           \/ SkipPaused \/ RefuseClaims \/ FindVolumes \/ EndReplicas \/ EndExtra \/ Finish
  BY <1>2, <1>8, Zenon
  DEF Merging, ReadInstallation, FindTemplate, FetchTemplate, EnlistTemplate, SkipTemplate,
      Normalize, CreateCommon, CreateUsers, UpdateCommon, UpdateUsers, BeginReplica,
      SkipRemoved, RemoveHostMap, SkipPaused, RefuseClaims, FindVolumes, EndReplicas, EndExtra,
      Finish, objects
<1>9. CASE Start \/ Trouble \/ Others \/ Editing
  BY <1>2, <1>9, Zenon
  DEF Start, Trouble, FailUpdate, FailCall, Crash, Others, ReconcileOther, ReconcileTemplate,
      Editing, Edit, EditTemplate, DeleteTemplate, EndFinalizer, EditSurroundings, objects
<1> QED
  BY <1>3, <1>4, <1>5, <1>6, <1>7, <1>8, <1>9 DEF Next, Work, SyncReplica

(* Sizes are given all along. *)
LEMMA SizesInvHolds ==
  ASSUME SizesAreGiven
  PROVE  Spec => []SizesInv
<1>1. Init => SizesInv
  BY DEF Init, SizesInv, SizesAreGiven
<1>2. ASSUME SizesInv, UNCHANGED vars PROVE SizesInv'
  <2>1. UNCHANGED <<sets, volumes>>
    BY <1>2, Zenon DEF vars, objects
  <2> QED BY <1>2, <2>1 DEF SizesInv
<1>3. WorkerInv /\ PassInv /\ VolumesInv /\ MergedInv /\ SizesInv /\ [Next]_vars => SizesInv'
  BY <1>2, SizesInvStep
<1> QED
  BY <1>1, <1>3, WorkerInvHolds, WorldAndPassHold, VolumesInvHolds, MergedInvHolds, PTL
    DEF Spec

----------------------------------------------------------------------------
(* What a pass has done *)

(* The StatefulSet of a replica claims what is wanted, and its volumes are *)
(* big enough, unless its pod is still to come or another pass.            *)
HasVolumes(norm, r) ==
  LET wanted == StatefulSetFor(norm, r).claims IN
  /\ r \in DOMAIN sets /\ DOMAIN wanted \subseteq DOMAIN sets[r].claims
  /\ SizesAreGiven /\ r \in started /\ ~pending =>
       \A c \in DOMAIN wanted : volumes[r][c] >= wanted[c]

HasMounts(norm, r) ==
  r \in worker.missed \/ sets[r].containers = StatefulSetFor(norm, r).containers

Active == worker.step \in Replicating \cup Updating

(* The replicas that the pass is through with, but for those it removes.   *)
Passed ==
  IF worker.step \in Updating THEN DOMAIN worker.norm.replicas
  ELSE (DOMAIN worker.norm.replicas \ worker.left)
         \ (IF At("statefulset") \/ At("resize") THEN {current} ELSE {})

(* A replica whose pod is up has all its volumes, so that a pass finds     *)
(* them; every other one gets another pass when its pod comes up.          *)
PodsHaveVolumes == \A r \in started : DOMAIN sets[r].claims \subseteq DOMAIN volumes[r]

(* A pass is over the document there is, unless another pass follows.      *)
SourceIsLast == worker.step \notin {"idle", "down"} /\ ~pending => worker.source = spec

(* What a pass has done for the replicas so far stays.                     *)
PassedInv ==
  Active /\ ~worker.source.paused =>
    \A r \in Passed : HasVolumes(worker.norm, r) /\ HasMounts(worker.norm, r)

(* At the volumes of a replica, its claims may be changed, and all of its  *)
(* volumes have been found, unless its pod is still to come.               *)
ResizeInv ==
  At("resize") =>
    /\ ~worker.source.paused
    /\ ClaimsCanChange(sets[current].claims, Wanted.claims)
    /\ current \in started /\ ~pending => worker.found = DOMAIN sets[current].claims

(* Until all is done, and then it is for the document there is.            *)
RestInv ==
  AtRest =>
    /\ applied.source = spec
    /\ ~spec.paused => \A r \in DOMAIN applied.norm.replicas : HasVolumes(applied.norm, r)

(* The steps that the worker is not asked about. *)
Beside == Others \/ Editing \/ Kubernetes

(* They leave the pass and the StatefulSets alone, and take no volume from *)
(* a pod; when a pod comes up or the document is edited, another pass      *)
(* follows.                                                                *)
LEMMA BesideChanges ==
  ASSUME WorldInv, VolumesInv, PodsHaveVolumes, Beside
  PROVE  /\ UNCHANGED <<worker, sets, applied>>
         /\ ~At("down") /\ ~pending' => ~pending /\ UNCHANGED <<spec, started>>
         /\ started \subseteq started'
         /\ \A r \in started : volumes'[r] = volumes[r]
         /\ \A r \in Replicas : DOMAIN volumes[r] \subseteq DOMAIN volumes'[r]
         /\ \A r \in started' \ started : DOMAIN sets[r].claims \subseteq DOMAIN volumes[r]
<1> USE DEF At
<1>1. CASE Others \/ (Editing /\ ~\E d \in Documents : Edit(d))
  <2>1. UNCHANGED <<worker, sets, applied, spec, started, pending, volumes>>
    BY <1>1, Zenon
    DEF Others, ReconcileOther, ReconcileTemplate, Editing, EditTemplate, DeleteTemplate,
        EndFinalizer, EditSurroundings, objects, written
  <2> QED BY <2>1
<1>2. CASE \E d \in Documents : Edit(d)
  <2>1. /\ UNCHANGED <<worker, sets, applied, volumes, started>>
        /\ pending' = (pending \/ worker.step # "down")
    BY <1>2, Zenon DEF Edit, objects
  <2>2. ~At("down") => pending'
    BY <2>1
  <2> QED BY <2>1, <2>2
<1>3. CASE \E r \in Replicas : StartPod(r)
  <2>1. PICK r \in Replicas : StartPod(r)
    BY <1>3
  <2>2. /\ UNCHANGED <<worker, sets, applied, volumes>> /\ started' = started \cup {r}
        /\ pending' = (pending \/ worker.step # "down")
        /\ DOMAIN sets[r].claims \subseteq DOMAIN volumes[r]
    BY <2>1, Zenon DEF StartPod, objects
  <2>3. ~At("down") => pending'
    BY <2>2
  <2>4. \A q \in started' \ started : q = r
    BY <2>2
  <2> QED BY <2>2, <2>3, <2>4
<1>4. CASE \E r \in Replicas :
             r \in DOMAIN sets /\ \E c \in DOMAIN sets[r].claims : ProvideVolume(r, c)
  <2>1. PICK r \in Replicas :
          r \in DOMAIN sets /\ \E c \in DOMAIN sets[r].claims : ProvideVolume(r, c)
    BY <1>4
  <2>2. PICK c \in DOMAIN sets[r].claims : ProvideVolume(r, c)
    BY <2>1
  <2>3. /\ UNCHANGED <<worker, sets, applied, spec, started, pending>>
        /\ volumes' = [volumes EXCEPT ![r] = Put(@, c, sets[r].claims[c])]
        /\ c \in DOMAIN sets[r].claims \ DOMAIN volumes[r]
    BY <2>2, Zenon DEF ProvideVolume, objects, written
  <2>4. r \notin started
    BY <2>3 DEF PodsHaveVolumes
  <2>5. \A q \in started : volumes'[q] = volumes[q]
    <3>1. started \subseteq Replicas /\ DOMAIN volumes = Replicas
      BY DEF WorldInv, VolumesInv
    <3> QED BY <2>3, <2>4, <3>1
  <2>6. \A q \in Replicas : DOMAIN volumes[q] \subseteq DOMAIN volumes'[q]
    BY <2>3 DEF VolumesInv, Put
  <2> QED BY <2>3, <2>5, <2>6
<1> QED BY <1>1, <1>2, <1>3, <1>4 DEF Beside, Kubernetes, Editing

(* Pods keep their volumes, and come up with all of them. *)
LEMMA PodsHaveVolumesStep ==
  ASSUME WorkerInv, WorldInv, VolumesInv, PodsHaveVolumes, Next PROVE PodsHaveVolumes'
<1> USE DEF PodsHaveVolumes
<1>1. CASE UNCHANGED <<sets, volumes, started>>
  BY <1>1
<1>2. CASE Beside
  <2>1. started \subseteq Replicas /\ started' \subseteq Replicas
    <3>1. WorldInv'
      BY WorldInvStep
    <3>2. UNCHANGED sets
      BY <1>2, BesideChanges
    <3> QED BY <3>1, <3>2 DEF WorldInv, VolumesInv
  <2> QED BY <1>2, <2>1, BesideChanges
<1>3. CASE CreateStatefulSet
  <2>1. /\ current \notin DOMAIN sets /\ sets' = Put(sets, current, Wanted)
        /\ UNCHANGED <<volumes, started>>
    BY <1>3, Zenon DEF CreateStatefulSet
  <2> QED BY <2>1 DEF Put, WorldInv
<1>4. CASE UpdateSet
  <2>1. /\ sets' = [sets EXCEPT ![current] = Updated(@, Wanted)]
        /\ started' \in {started, started \ {current}} /\ UNCHANGED volumes
    BY <1>4, Zenon DEF UpdateSet
  <2>2. \A r \in DOMAIN sets : sets'[r].claims = sets[r].claims
    BY <2>1 DEF Updated
  <2> QED BY <2>1, <2>2 DEF WorldInv
<1>5. CASE \E r \in Replicas : RemoveReplica(r)
  <2>1. PICK r \in Replicas : RemoveReplica(r)
    BY <1>5
  <2>2. /\ sets' = Restrict(sets, DOMAIN sets \ {r}) /\ started' = started \ {r}
        /\ UNCHANGED volumes
    BY <2>1, Zenon DEF RemoveReplica
  <2> QED BY <2>2 DEF Restrict, WorldInv
<1>6. CASE \E c \in worker.found : ResizeVolume(c)
  <2>1. PICK c \in worker.found : ResizeVolume(c)
    BY <1>6
  <2>2. /\ volumes' = [volumes EXCEPT ![current][c] = Wanted.claims[c]]
        /\ UNCHANGED <<sets, started>>
    BY <2>1, Zenon DEF ResizeVolume, objects
  <2>3. \A r \in DOMAIN volumes : DOMAIN volumes'[r] = DOMAIN volumes[r]
    BY <2>2
  <2> QED BY <2>2, <2>3 DEF VolumesInv, WorldInv
<1>7. CASE \/ Merging \/ CreateCommon \/ CreateUsers \/ UpdateCommon \/ UpdateUsers
           \/ (\E r \in Replicas : BeginReplica(r) \/ SkipRemoved(r)) \/ RemoveHostMap
           \/ SkipPaused \/ RefuseClaims \/ FindVolumes \/ EndReplicas \/ EndExtra \/ Finish
           \/ Start \/ Trouble
  BY <1>1, <1>7, Zenon
  DEF Merging, ReadInstallation, FindTemplate, FetchTemplate, EnlistTemplate, SkipTemplate,
      Normalize, CreateCommon, CreateUsers, UpdateCommon, UpdateUsers, BeginReplica,
      SkipRemoved, RemoveHostMap, SkipPaused, RefuseClaims, FindVolumes, EndReplicas,
      EndExtra, Finish, Start, Trouble,
      FailUpdate, FailCall, Crash, objects
<1> QED
  BY <1>2, <1>3, <1>4, <1>5, <1>6, <1>7 DEF Next, Work, SyncReplica, Beside

(* An edit is followed by another pass. *)
LEMMA SourceIsLastStep ==
  ASSUME WorkerInv, WorldInv, VolumesInv, PodsHaveVolumes, SourceIsLast, Next
  PROVE  SourceIsLast'
<1> USE DEF SourceIsLast, At, WorkerInv, Goto
<1>1. CASE worker' \in {Idle, Down}
  <2>1. Idle.step = "idle" /\ Down.step = "down"
    BY DEF Idle, Down
  <2> QED BY <1>1, <2>1
<1>2. CASE Beside
  BY <1>2, BesideChanges
<1>3. CASE ReadInstallation
  BY <1>3 DEF ReadInstallation, written, Idle
<1>4. CASE /\ UNCHANGED <<spec, pending>> /\ worker'.source = worker.source
           /\ worker.step \notin {"idle", "down"}
  BY <1>4
<1>5. CASE FindTemplate \/ FetchTemplate \/ EnlistTemplate \/ SkipTemplate \/ Normalize
  BY <1>4, <1>5
    DEF FindTemplate, FetchTemplate, EnlistTemplate, SkipTemplate, Normalize, Merged,
                    written
<1>6. CASE CreateCommon \/ CreateUsers \/ UpdateCommon \/ UpdateUsers \/ EndExtra
  BY <1>4, <1>6 DEF CreateCommon, CreateUsers, UpdateCommon, UpdateUsers, EndExtra, written
<1>7. CASE \/ \E r \in Replicas : BeginReplica(r) \/ SkipRemoved(r) \/ RemoveReplica(r)
           \/ RemoveHostMap \/ SkipPaused \/ FindVolumes \/ EndReplicas
  BY <1>4, <1>7
    DEF BeginReplica, SkipRemoved, RemoveReplica, RemoveHostMap, SkipPaused, FindVolumes,
        EndReplicas, written
<1>8. CASE UpdateSet \/ FailUpdate \/ \E c \in worker.found : ResizeVolume(c)
  BY <1>4, <1>8 DEF UpdateSet, FailUpdate, ResizeVolume, written
<1>9. CASE CreateStatefulSet \/ RefuseClaims \/ Finish \/ Start \/ FailCall \/ Crash
  BY <1>1, <1>9, Zenon DEF CreateStatefulSet, RefuseClaims, Finish, Start, FailCall, Crash
<1> QED
  BY <1>2, <1>3, <1>5, <1>6, <1>7, <1>8, <1>9
  DEF Next, Work, Merging, SyncReplica, Trouble, Beside

(* At the volumes of a replica, claims stay as they may be changed.        *)
LEMMA ResizeInvStep ==
  ASSUME WorkerInv, WorldInv, VolumesInv, PodsHaveVolumes, ResizeInv, Next
  PROVE  ResizeInv'
<1> USE DEF ResizeInv, At, WorkerInv, Goto, Wanted, current
<1>1. CASE worker'.step # "resize"
  BY <1>1
<1>2. CASE Beside
  <2>1. /\ UNCHANGED <<worker, sets>>
        /\ ~At("down") /\ ~pending' => ~pending /\ UNCHANGED started
    BY <1>2, BesideChanges
  <2> QED BY <2>1
<1>3. CASE FindVolumes
  <2>1. /\ worker.source.paused = FALSE \/ ~worker.source.paused
        /\ ClaimsCanChange(sets[worker.replica].claims,
                           StatefulSetFor(worker.norm, worker.replica).claims)
        /\ worker' = [worker EXCEPT
             !.step = "resize",
             !.found = DOMAIN volumes[worker.replica] \cap DOMAIN sets[worker.replica].claims]
        /\ ~worker.source.paused /\ UNCHANGED <<sets, started>>
    BY <1>3, Zenon DEF FindVolumes, objects
  <2>2. worker.replica \in started =>
          DOMAIN sets[worker.replica].claims \subseteq DOMAIN volumes[worker.replica]
    BY DEF PodsHaveVolumes
  <2> QED BY <2>1, <2>2
<1>4. CASE \E c \in worker.found : ResizeVolume(c)
  BY <1>4 DEF ResizeVolume, objects
<1>5. CASE Merging
  BY <1>1, <1>5 DEF Merging, ReadInstallation, FindTemplate, FetchTemplate, EnlistTemplate,
                    SkipTemplate, Normalize, Merged, Idle
<1>6. CASE CreateCommon \/ CreateUsers \/ UpdateCommon \/ UpdateUsers \/ EndExtra
  BY <1>1, <1>6 DEF CreateCommon, CreateUsers, UpdateCommon, UpdateUsers, EndExtra
<1>7. CASE \/ \E r \in Replicas : BeginReplica(r) \/ SkipRemoved(r) \/ RemoveReplica(r)
           \/ RemoveHostMap \/ SkipPaused \/ EndReplicas
  BY <1>1, <1>7
    DEF BeginReplica, SkipRemoved, RemoveReplica, RemoveHostMap, SkipPaused, EndReplicas
<1>8. CASE UpdateSet \/ FailUpdate
  BY <1>1, <1>8 DEF UpdateSet, FailUpdate
<1>9. CASE CreateStatefulSet \/ RefuseClaims \/ Finish \/ Start \/ FailCall \/ Crash
  <2>1. Idle.step = "idle" /\ Down.step = "down"
    BY DEF Idle, Down
  <2>2. worker' \in {Idle, Down}
    BY <1>9, Zenon DEF CreateStatefulSet, RefuseClaims, Finish, Start, FailCall, Crash
  <2> QED BY <1>1, <2>1, <2>2
<1> QED
  BY <1>2, <1>3, <1>4, <1>5, <1>6, <1>7, <1>8, <1>9
  DEF Next, Work, SyncReplica, Trouble, Beside

(* What has been done for a replica stays when a step changes neither its  *)
(* StatefulSet nor, under a running pod, its volumes.                      *)
LEMMA PassedStay ==
  ASSUME PassedInv, Active, worker'.norm = worker.norm, worker'.source = worker.source,
         ~worker.source.paused, worker.missed \subseteq worker'.missed,
         NEW r \in Passed,
         r \in DOMAIN sets => r \in DOMAIN sets' /\ sets'[r] = sets[r],
         r \in started' /\ ~pending' =>
           r \in started /\ ~pending /\ volumes'[r] = volumes[r]
  PROVE  HasVolumes(worker.norm, r)' /\ HasMounts(worker.norm, r)'
<1> DEFINE norm == worker.norm
           wanted == StatefulSetFor(norm, r).claims
<1>1. HasVolumes(norm, r) /\ HasMounts(norm, r)
  BY DEF PassedInv
<1> QED BY <1>1 DEF HasVolumes, HasMounts

(* At the end of its volumes, everything has been done for a replica.      *)
LEMMA ReplicaIsDone ==
  ASSUME WorkerInv, WorldInv, PassInv, VolumesInv, MergedInv,
         SizesAreGiven => SizesInv, PodsHaveVolumes, ResizeInv,
         At("resize"), StillToResize = {}
  PROVE  HasVolumes(worker.norm, current)
<1> DEFINE norm == worker.norm
           r == current
           wanted == Wanted.claims
<1>1. r \in DOMAIN sets /\ r \in Replicas
  BY DEF VolumesInv
<1>2. DOMAIN wanted \subseteq DOMAIN sets[r].claims
  BY DEF ResizeInv, ClaimsCanChange
<1>3. ASSUME SizesAreGiven, r \in started, ~pending, NEW c \in DOMAIN wanted
      PROVE  volumes[r][c] >= wanted[c]
  <2>1. worker.found = DOMAIN sets[r].claims /\ c \in worker.found
    BY <1>2, <1>3 DEF ResizeInv
  <2>2. ~Increase(volumes[r][c], wanted[c])
    <3>1. c \notin ToResize(volumes[r], worker.found, sets[r].claims, wanted)
      BY DEF StillToResize
    <3> HIDE DEF r, wanted
    <3> QED BY <1>3, <2>1, <3>1 DEF ToResize
  <2>3. c \in DOMAIN volumes[r]
    BY <1>3, <2>1 DEF PodsHaveVolumes
  <2>4. volumes[r][c] \in Nat \ {NoSize}
    BY <1>1, <1>3, <2>3 DEF SizesInv, Sized
  <2>5. wanted[c] \in Nat \ {NoSize}
    <3>1. worker.source \in Documents /\ IsNormOf(worker.norm, worker.source)
      BY DEF PassInv, MergedInv, Replicating, Updating, At
    <3>2. Sized(StatefulSetFor(worker.norm, current).claims)
      BY <1>3, <3>1, WantedIsSized
    <3> QED BY <1>3, <3>2 DEF Sized, Wanted
  <2> QED BY <2>2, <2>4, <2>5 DEF Increase
<1> QED BY <1>1, <1>2, <1>3 DEF HasVolumes, Wanted

(* Every step keeps what the pass has done so far. *)
LEMMA PassedInvStep ==
  ASSUME WorkerInv, WorldInv, PassInv, VolumesInv, MergedInv, OneSpecInv,
         SizesAreGiven => SizesInv, PodsHaveVolumes, ResizeInv, PassedInv, Next
  PROVE  PassedInv'
<1> USE DEF WorkerInv, At, Goto, current
<1>1. ASSUME worker'.step \notin Replicating \cup Updating PROVE PassedInv'
  BY <1>1 DEF PassedInv, Active
<1>2. ASSUME Active, worker'.norm = worker.norm, worker'.source = worker.source,
             worker.missed \subseteq worker'.missed, Passed' \subseteq Passed,
             \A r \in Passed : r \in DOMAIN sets => r \in DOMAIN sets' /\ sets'[r] = sets[r],
             \A r \in Passed : r \in started' /\ ~pending' =>
               r \in started /\ ~pending /\ volumes'[r] = volumes[r]
      PROVE  PassedInv'
  <2> SUFFICES ASSUME ~worker.source.paused, NEW r \in Passed'
               PROVE  HasVolumes(worker.norm, r)' /\ HasMounts(worker.norm, r)'
    BY <1>2 DEF PassedInv
  <2> QED BY <1>2, PassedStay
<1>3. CASE Beside
  <2>1. UNCHANGED <<worker, sets>>
    BY <1>3, BesideChanges
  <2>2. CASE ~Active
    BY <1>1, <2>1, <2>2 DEF Active
  <2>3. CASE Active
    <3>1. ~At("down")
      BY <2>3 DEF Active, Replicating, Updating
    <3>2. Passed' = Passed
      BY <2>1 DEF Passed
    <3> QED BY <1>2, <1>3, <2>1, <2>3, <3>1, <3>2, BesideChanges
  <2> QED BY <2>2, <2>3
<1>4. CASE Normalize
  <2>1. worker'.step = "common" /\ worker'.left = DOMAIN worker'.norm.replicas
    BY <1>4 DEF Normalize
  <2>2. Passed' = {}
    BY <2>1 DEF Passed, Updating
  <2> QED BY <2>2 DEF PassedInv
<1>5. CASE ReadInstallation \/ FindTemplate \/ FetchTemplate \/ EnlistTemplate \/ SkipTemplate
  <2>1. worker'.step \in {"merge", "enlist"}
    BY <1>5 DEF ReadInstallation, FindTemplate, FetchTemplate, EnlistTemplate, SkipTemplate,
                Merged, Idle
  <2> QED BY <1>1, <2>1 DEF Replicating, Updating
<1>6. CASE CreateCommon \/ CreateUsers \/ UpdateCommon \/ UpdateUsers \/ EndExtra
  <2>1. /\ UNCHANGED <<sets, volumes, started, pending>>
        /\ worker'.norm = worker.norm /\ worker'.source = worker.source
        /\ worker'.missed = worker.missed /\ worker'.left = worker.left
        /\ \/ worker.step \in {"common", "users"} /\ worker'.step \in {"users", "replicas"}
           \/ worker.step \in Updating /\ worker'.step \in Updating
    BY <1>6
      DEF CreateCommon, CreateUsers, UpdateCommon, UpdateUsers, EndExtra, Updating, objects
  <2>2. Active /\ Passed' = Passed
    BY <2>1 DEF Active, Passed, Replicating, Updating
  <2> QED BY <1>2, <2>1, <2>2
<1>7. CASE \E r \in Replicas : BeginReplica(r)
  <2>1. PICK r \in Replicas : BeginReplica(r)
    BY <1>7
  <2>2. /\ UNCHANGED <<sets, volumes, started, pending>>
        /\ worker'.norm = worker.norm /\ worker'.source = worker.source
        /\ worker'.missed = worker.missed /\ worker'.left = worker.left \ {r}
        /\ worker'.replica = r /\ worker.step = "replicas" /\ worker'.step = "statefulset"
    BY <2>1 DEF BeginReplica
  <2>3. Active /\ Passed' \subseteq Passed
    BY <2>2 DEF Active, Passed, Replicating, Updating
  <2> QED BY <1>2, <2>2, <2>3
<1>8. CASE SkipPaused
  BY <1>8 DEF SkipPaused, PassedInv
<1>9. CASE FindVolumes \/ \E c \in worker.found : ResizeVolume(c)
  <2>1. /\ UNCHANGED <<sets, started, pending>>
        /\ worker'.norm = worker.norm /\ worker'.source = worker.source
        /\ worker'.missed = worker.missed /\ worker'.left = worker.left
        /\ worker'.replica = worker.replica
        /\ worker.step \in {"statefulset", "resize"} /\ worker'.step = "resize"
    BY <1>9 DEF FindVolumes, ResizeVolume, objects
  <2>2. \A r \in Replicas : r # worker.replica => volumes'[r] = volumes[r]
    BY <1>9 DEF FindVolumes, ResizeVolume, VolumesInv
  <2>3. Active /\ Passed' = Passed /\ worker.replica \notin Passed
    BY <2>1 DEF Active, Passed, Replicating, Updating
  <2>4. Passed \subseteq Replicas
    BY <2>1 DEF Passed, PassInv, Replicating, Updating
  <2> QED BY <1>2, <2>1, <2>2, <2>3, <2>4
<1>10. CASE UpdateSet \/ FailUpdate
  <2>1. /\ UNCHANGED <<volumes, pending>>
        /\ worker'.norm = worker.norm /\ worker'.source = worker.source
        /\ worker.missed \subseteq worker'.missed /\ worker'.left = worker.left
        /\ worker.step = "resize" /\ worker'.step = "replicas"
        /\ started' \subseteq started /\ StillToResize = {}
        /\ \/ sets' = sets /\ worker'.missed = worker.missed \cup {worker.replica}
           \/ sets' = [sets EXCEPT ![worker.replica] = Updated(@, Wanted)]
    BY <1>10 DEF UpdateSet, FailUpdate, objects
  <2>2. /\ Active
        /\ worker.replica \notin Passed
        /\ Passed' \subseteq Passed \cup {worker.replica}
    BY <2>1 DEF Active, Passed, Replicating, Updating
  <2>3. \A r \in Passed : r \in DOMAIN sets => r \in DOMAIN sets' /\ sets'[r] = sets[r]
    BY <2>1, <2>2
  <2>4. HasVolumes(worker.norm, worker.replica)
    BY <2>1, ReplicaIsDone
  <2>5. HasVolumes(worker.norm, worker.replica)' /\ HasMounts(worker.norm, worker.replica)'
    <3> DEFINE r == worker.replica
               norm == worker.norm
    <3>1. r \in DOMAIN sets
      BY <2>4 DEF HasVolumes
    <3>2. Wanted = StatefulSetFor(norm, r)
      BY DEF Wanted
    <3>3. worker'.replica = r
      BY <1>10 DEF UpdateSet, FailUpdate
    <3>4. /\ r \in DOMAIN sets' /\ sets'[r].claims = sets[r].claims
          /\ r \in worker'.missed \/ sets'[r].containers = StatefulSetFor(norm, r).containers
      <4>1. CASE sets' = sets /\ worker'.missed = worker.missed \cup {worker.replica}
        BY <3>1, <4>1
      <4>2. CASE sets' = [sets EXCEPT ![worker.replica] = Updated(@, Wanted)]
        BY <3>1, <3>2, <4>2 DEF Updated
      <4> QED BY <2>1, <4>1, <4>2
    <3> QED BY <2>1, <2>4, <3>1, <3>3, <3>4 DEF HasVolumes, HasMounts
  <2> SUFFICES ASSUME ~worker.source.paused, NEW r \in Passed'
               PROVE  HasVolumes(worker.norm, r)' /\ HasMounts(worker.norm, r)'
    BY <2>1 DEF PassedInv
  <2>6. CASE r \in Passed
    BY <2>1, <2>2, <2>3, <2>6, PassedStay
  <2>7. CASE r \notin Passed
    <3>1. r = worker.replica
      BY <2>2, <2>7
    <3> QED BY <2>1, <2>5, <3>1, <1>10 DEF UpdateSet, FailUpdate
  <2> QED BY <2>6, <2>7
<1>11. CASE EndReplicas
  <2>1. /\ UNCHANGED <<sets, volumes, started, pending>>
        /\ worker'.norm = worker.norm /\ worker'.source = worker.source
        /\ worker'.missed = worker.missed /\ worker.left = {}
        /\ worker.step = "replicas" /\ worker'.step = "extra"
    BY <1>11 DEF EndReplicas, objects
  <2>2. Active /\ Passed' = Passed
    BY <2>1 DEF Active, Passed, Replicating, Updating
  <2> QED BY <1>2, <2>1, <2>2
<1>12. CASE \E r \in Replicas : RemoveReplica(r)
  <2>1. PICK r \in Replicas : RemoveReplica(r)
    BY <1>12
  <2>2. /\ UNCHANGED <<volumes, pending>> /\ started' \subseteq started
        /\ sets' = Restrict(sets, DOMAIN sets \ {r}) /\ r \in worker.left
        /\ worker'.norm = worker.norm /\ worker'.source = worker.source
        /\ worker'.missed = worker.missed
        /\ worker.step = "extra" /\ worker'.step = "remove map"
    BY <2>1 DEF RemoveReplica
  <2>3. Active /\ Passed' = Passed /\ r \notin Passed
    BY <2>2 DEF Active, Passed, Replicating, Updating, OneSpecInv
  <2>4. \A q \in Passed : q \in DOMAIN sets => q \in DOMAIN sets' /\ sets'[q] = sets[q]
    BY <2>2, <2>3 DEF Restrict
  <2> QED BY <1>2, <2>2, <2>3, <2>4
<1>14. CASE (\E r \in Replicas : SkipRemoved(r)) \/ RemoveHostMap
  <2>1. /\ UNCHANGED <<sets, volumes, started, pending>>
        /\ worker'.norm = worker.norm /\ worker'.source = worker.source
        /\ worker'.missed = worker.missed
        /\ worker.step \in {"extra", "remove map"} /\ worker'.step = "extra"
    BY <1>14 DEF SkipRemoved, RemoveHostMap, objects
  <2>2. Active /\ Passed' = Passed
    BY <2>1 DEF Active, Passed, Replicating, Updating
  <2> QED BY <1>2, <2>1, <2>2
<1>13. CASE CreateStatefulSet \/ RefuseClaims \/ Finish \/ Start \/ FailCall \/ Crash
  <2>1. Idle.step = "idle" /\ Down.step = "down"
    BY DEF Idle, Down
  <2>2. worker' \in {Idle, Down}
    BY <1>13, Zenon DEF CreateStatefulSet, RefuseClaims, Finish, Start, FailCall, Crash
  <2> QED BY <1>1, <2>1, <2>2 DEF Replicating, Updating
<1> QED
  BY <1>3, <1>4, <1>5, <1>6, <1>7, <1>8, <1>9, <1>10, <1>11, <1>12, <1>13, <1>14
  DEF Next, Work, Merging, SyncReplica, Trouble, Beside

(* At rest nothing is taken back of what has been done.                    *)
LEMMA RestInvStep ==
  ASSUME WorkerInv, WorldInv, PassInv, VolumesInv, PodsHaveVolumes, SourceIsLast, PassedInv,
         RestInv, Next
  PROVE  RestInv'
<1> USE DEF WorkerInv, At, Goto, AtRest
<1>1. CASE ~AtRest'
  BY <1>1 DEF RestInv
<1>2. CASE Beside
  <2>1. UNCHANGED <<worker, sets, applied>>
    BY <1>2, BesideChanges
  <2>2. CASE AtRest'
    <3>1. AtRest /\ UNCHANGED <<spec, started>>
      BY <1>2, <2>1, <2>2, BesideChanges
    <3>2. \A r \in started : volumes'[r] = volumes[r]
      BY <1>2, BesideChanges
    <3> QED BY <2>1, <3>1, <3>2 DEF RestInv, HasVolumes
  <2> QED BY <1>1, <2>2
<1>3. CASE Finish
  <2>1. /\ applied' = [source |-> worker.source, norm |-> worker.norm]
        /\ worker.step = "finish"
        /\ UNCHANGED <<spec, sets, volumes, started, pending>>
    BY <1>3, Zenon DEF Finish, written, objects
  <2>2. CASE AtRest'
    <3>1. worker.source = spec /\ ~pending
      BY <2>1, <2>2 DEF SourceIsLast
    <3>2. ~spec.paused => \A r \in DOMAIN worker.norm.replicas : HasVolumes(worker.norm, r)
      BY <2>1, <3>1 DEF PassedInv, Active, Passed, Updating
    <3>3. applied'.source = spec' /\ applied'.norm = worker.norm
      BY <2>1, <3>1
    <3> QED BY <2>1, <3>2, <3>3 DEF RestInv, HasVolumes
  <2> QED BY <1>1, <2>2
<1>4. CASE CreateStatefulSet \/ RefuseClaims \/ FailCall \/ Start
  BY <1>1, <1>4, Zenon DEF CreateStatefulSet, RefuseClaims, FailCall, Start
<1>5. CASE Crash
  <2>1. Down.step = "down"
    BY DEF Idle, Down
  <2> QED BY <1>1, <1>5, <2>1 DEF Crash
<1>6. CASE Merging
  <2>1. worker'.step \in {"merge", "enlist", "common"}
    BY <1>6 DEF Merging, ReadInstallation, FindTemplate, FetchTemplate, EnlistTemplate,
                SkipTemplate, Normalize, Merged, Idle
  <2> QED BY <1>1, <2>1
<1>7. CASE CreateCommon \/ CreateUsers \/ UpdateCommon \/ UpdateUsers \/ EndExtra
  BY <1>1, <1>7 DEF CreateCommon, CreateUsers, UpdateCommon, UpdateUsers, EndExtra
<1>8. CASE \/ \E r \in Replicas : BeginReplica(r) \/ SkipRemoved(r) \/ RemoveReplica(r)
           \/ RemoveHostMap \/ SkipPaused \/ EndReplicas \/ FindVolumes
  BY <1>1, <1>8
    DEF BeginReplica, SkipRemoved, RemoveReplica, RemoveHostMap, SkipPaused, EndReplicas,
        FindVolumes
<1>9. CASE UpdateSet \/ FailUpdate \/ \E c \in worker.found : ResizeVolume(c)
  BY <1>1, <1>9 DEF UpdateSet, FailUpdate, ResizeVolume
<1> QED
  BY <1>2, <1>3, <1>4, <1>5, <1>6, <1>7, <1>8, <1>9
  DEF Next, Work, SyncReplica, Trouble, Beside

(* What passes have done, all together. *)
DoneInv == PodsHaveVolumes /\ SourceIsLast /\ PassedInv /\ ResizeInv /\ RestInv

(* It holds all along, without any assumption on the sizes.                *)
LEMMA DoneInvHolds ==
  Spec => [](VolumesInv /\ (SizesAreGiven => SizesInv) /\ DoneInv)
<1> DEFINE IfSized == SizesAreGiven => SizesInv
           Before == WorkerInv /\ WorldInv /\ PassInv /\ VolumesInv /\ MergedInv /\ OneSpecInv
<1>1. Spec => []IfSized
  <2>1. CASE SizesAreGiven
    <3>1. Spec => []SizesInv
      BY <2>1, SizesInvHolds
    <3>2. SizesInv => IfSized
      OBVIOUS
    <3> QED BY <3>1, <3>2, PTL
  <2>2. CASE ~SizesAreGiven
    <3>1. IfSized
      BY <2>2
    <3> QED BY <3>1, PTL
  <2> QED BY <2>1, <2>2
<1>2. Init => DoneInv
  <2>1. Down.step = "down"
    BY DEF Idle, Down
  <2> QED BY <2>1 DEF Init, DoneInv, PodsHaveVolumes, SourceIsLast, PassedInv, ResizeInv, RestInv,
                      Active, Replicating, Updating, At, AtRest
<1>3. ASSUME Before, IfSized, DoneInv, Next PROVE DoneInv'
  BY <1>3, PodsHaveVolumesStep, SourceIsLastStep, PassedInvStep, ResizeInvStep, RestInvStep
  DEF DoneInv
<1>4. ASSUME DoneInv, UNCHANGED vars PROVE DoneInv'
  <2>1. UNCHANGED <<spec, worker, sets, volumes, started, applied, pending>>
    BY <1>4, Zenon DEF vars, objects, written
  <2>2. PodsHaveVolumes' /\ SourceIsLast'
    BY <1>4, <2>1 DEF DoneInv, PodsHaveVolumes, SourceIsLast
  <2>3. PassedInv'
    BY <1>4, <2>1 DEF DoneInv, PassedInv, Active, Passed, HasVolumes, HasMounts, At, current
  <2>4. ResizeInv' /\ RestInv'
    BY <1>4, <2>1 DEF DoneInv, ResizeInv, RestInv, HasVolumes, At, current, Wanted, AtRest
  <2> QED BY <2>2, <2>3, <2>4 DEF DoneInv
<1>5. Before /\ IfSized /\ DoneInv /\ [Next]_vars => DoneInv'
  BY <1>3, <1>4
<1>6. Spec => []Before
  BY WorkerInvHolds, WorldAndPassHold, VolumesInvHolds, MergedInvHolds, OneSpecInvHolds, PTL
<1> HIDE DEF Before, IfSized
<1>7. Spec => []DoneInv
  BY <1>1, <1>2, <1>5, <1>6, PTL DEF Spec
<1> QED BY <1>1, <1>7, VolumesInvHolds, PTL DEF IfSized

(***************************************************************************)
(* At rest, with its pods up, every volume of a replica is as big as its   *)
(* claim asks for, in whatever order edits, failures, pods and volumes     *)
(* come: if all claims and volumes give their sizes.                       *)
(***************************************************************************)
THEOREM VolumesBigEnough ==
  ASSUME SizesAreGiven
  PROVE  Spec => []VolumesAreBigEnough
<1>1. DoneInv => VolumesAreBigEnough
  <2> SUFFICES ASSUME RestInv, AtRest, ~spec.paused, DOMAIN sets \subseteq started,
                      NEW r \in DOMAIN applied.norm.replicas,
                      NEW c \in DOMAIN volumes[r]
                                  \cap DOMAIN StatefulSetFor(applied.norm, r).claims
               PROVE  volumes[r][c] >= StatefulSetFor(applied.norm, r).claims[c]
    BY DEF DoneInv, VolumesAreBigEnough
  <2>1. HasVolumes(applied.norm, r) /\ ~pending
    BY DEF RestInv, AtRest
  <2> QED BY <2>1 DEF HasVolumes
<1> QED BY <1>1, DoneInvHolds, PTL

----------------------------------------------------------------------------
(* Mounts *)

(* What a list has when something is appended to it. *)
LEMMA RangeOfAppend ==
  ASSUME NEW list, IsList(list), NEW e
  PROVE  IsList(Append(list, e)) /\ Range(Append(list, e)) = Range(list) \cup {e}
<1> DEFINE S == Range(list) \cup {e}
           n == Len(list)
           new == Append(list, e)
<1>1. n \in Nat /\ list \in [1..n -> Range(list)] /\ DOMAIN list = 1..n
  BY LenProperties DEF IsList
<1>2. Range(list) = {list[i] : i \in 1..n}
  BY <1>1 DEF Range
<1>3. /\ DOMAIN new = 1..(n + 1) /\ \A i \in 1..n : new[i] = list[i]
      /\ new[n + 1] = e /\ new \in Seq(S)
  <2>1. list \in Seq(S) /\ e \in S
    <3>1. list \in [1..n -> S]
      BY <1>1
    <3> QED BY <1>1, <3>1
  <2> HIDE DEF S
  <2> QED BY <2>1, AppendProperties
<1> HIDE DEF new
<1>4. Range(new) = {new[i] : i \in 1..(n + 1)}
  BY <1>3 DEF Range
<1>5. 1..(n + 1) = 1..n \cup {n + 1}
  <2> HIDE DEF n
  <2> QED BY <1>1
<1>6. Range(new) = S
  <2> HIDE DEF n
  <2> QED BY <1>2, <1>3, <1>4, <1>5
<1> QED BY <1>3, <1>6 DEF new, IsList

(* A mount is added when both the claim and the path are free; nothing     *)
(* that is mounted goes.                                                   *)
LEMMA VolumeMountApplied ==
  ASSUME NEW container, IsContainer(container), NEW norm, NEW claim, NEW path
  PROVE  LET new == ApplyVolumeMount(container, norm, claim, path)
             adds == /\ claim # NoName /\ claim \in DOMAIN norm.claims
                     /\ IsFree(container, claim, path)
         IN IsContainer(new) /\ Range(new.mounts) =
              Range(container.mounts) \cup (IF adds THEN {Mount(claim, path)} ELSE {})
BY RangeOfAppend DEF IsContainer, ApplyVolumeMount

(* Each pod has its containers. *)
LEMMA PodHasContainers ==
  ASSUME NEW norm, NEW names,
         \A p \in DOMAIN norm.pods :
           IsList(norm.pods[p]) /\ \A c \in Range(norm.pods[p]) : IsContainer(c)
  PROVE  LET pod == PodTemplate(norm, names)
             all == Containers(norm, names)
         IN IsContainer(pod[1]) /\ 1 \in DOMAIN all /\ all[1] = pod[1]
<1> DEFINE pod == PodTemplate(norm, names)
           added == IF names.log # NoName /\ names.log \in DOMAIN norm.claims
                    THEN <<LogContainer>> ELSE <<>>
<1>1. IsContainer(Container("clickhouse", <<>>)) /\ IsContainer(LogContainer)
  <2>1. IsList(<<>>)
    BY DEF IsList, Range
  <2> QED BY <2>1 DEF IsContainer, Container, LogContainer
<1>2. \A c : IsContainer(c) =>
        IsList(<<c>>) /\ <<c>> # <<>> /\ \A d \in Range(<<c>>) : IsContainer(d)
  <2> SUFFICES ASSUME NEW c PROVE Range(<<c>>) = {c} /\ <<c>> \in Seq({c}) /\ <<c>> # <<>>
    BY DEF IsList
  <2> QED BY DEF Range
<1>3. IsList(pod) /\ pod # <<>> /\ \A c \in Range(pod) : IsContainer(c)
  BY <1>1, <1>2 DEF PodTemplate, DefaultPod
<1>4. IsList(added)
  <2>1. IsList(<<>>)
    BY DEF IsList, Range
  <2>2. IsList(<<LogContainer>>)
    BY <1>1, <1>2
  <2> QED BY <2>1, <2>2
<1> HIDE DEF pod, added
<1>5. 1 \in DOMAIN pod
  <2>1. pod \in Seq(Range(pod))
    BY <1>3 DEF IsList
  <2> DEFINE S == Range(pod)
  <2> HIDE DEF S
  <2>2. pod \in Seq(S)
    BY <2>1 DEF S
  <2> QED BY <1>3, <2>2, EmptySeq, LenProperties
<1>6. IsContainer(pod[1])
  BY <1>3, <1>5 DEF Range
<1>7. Containers(norm, names) = pod \o added
  BY DEF Containers, pod, added
<1> QED BY <1>3, <1>4, <1>5, <1>6, <1>7, ListsAppended DEF pod

(* ClickHouse has in its container what the template mounts there and the  *)
(* data, if that is free; beside them there is the log at most.            *)
LEMMA FirstContainerMounts ==
  ASSUME NEW norm, NEW r,
         \A p \in DOMAIN norm.pods :
           IsList(norm.pods[p]) /\ \A c \in Range(norm.pods[p]) : IsContainer(c)
  PROVE  LET data == norm.replicas[r].names.data
             c == TemplateContainer(norm, r)
             set == StatefulSetFor(norm, r)
             mounts == Range(set.containers[1].mounts)
         IN /\ \A m \in mounts :
                 m \in Range(c.mounts) \/ m = Mount(data, DataPath) \/ m.path = LogPath
            /\ Range(c.mounts) \subseteq mounts
            /\ data # NoName /\ data \in DOMAIN norm.claims /\ IsFree(c, data, DataPath) =>
                 Mount(data, DataPath) \in mounts
            /\ \A m \in mounts : m.name \in DOMAIN norm.claims => m.name \in DOMAIN set.claims
<1> DEFINE names == norm.replicas[r].names
           all == Containers(norm, names)
           c == TemplateContainer(norm, r)
           withData == ApplyVolumeMount(c, norm, names.data, DataPath)
           withLog == ApplyVolumeMount(withData, norm, names.log, LogPath)
           containers == ApplyVolumeClaimTemplates(all, norm, names)
           set == StatefulSetFor(norm, r)
<1>1. set.containers = containers /\ set.claims = ClaimsMounted(containers, norm)
  BY DEF StatefulSetFor
<1>2. IsContainer(c) /\ 1 \in DOMAIN all /\ all[1] = c
  BY PodHasContainers DEF TemplateContainer
<1>3. 1 \in DOMAIN containers /\ containers[1] = withLog
  <2>1. IsFound(all, 1)
    BY DEF IsFound
  <2> HIDE DEF all
  <2> QED BY <1>2, <2>1 DEF ApplyVolumeClaimTemplates
<1> HIDE DEF containers, set, all, c
<1>4. IsContainer(withData) /\ Range(withData.mounts) =
        Range(c.mounts) \cup
          (IF names.data # NoName /\ names.data \in DOMAIN norm.claims
                /\ IsFree(c, names.data, DataPath)
           THEN {Mount(names.data, DataPath)} ELSE {})
  BY <1>2, VolumeMountApplied
<1> HIDE DEF withData
<1> DEFINE added == IF names.log # NoName /\ names.log \in DOMAIN norm.claims
                       /\ IsFree(withData, names.log, LogPath)
                    THEN {Mount(names.log, LogPath)} ELSE {}
<1>5. Range(withLog.mounts) = Range(withData.mounts) \cup added
  BY <1>4, VolumeMountApplied
<1>7. added \subseteq {Mount(names.log, LogPath)}
  OBVIOUS
<1> HIDE DEF withLog, added
<1>6. \A m \in Range(withLog.mounts) :
        m.name \in DOMAIN norm.claims => m.name \in DOMAIN set.claims
  BY <1>1, <1>3 DEF ClaimsMounted
<1> QED BY <1>1, <1>3, <1>4, <1>5, <1>6, <1>7 DEF Mount, set, c

(* A document's own claim is among those of its normalized form, and each  *)
(* replica that the normalizer adds refers to it.                          *)
LEMMA OwnDataInNorm ==
  ASSUME NEW d \in Documents, NEW norm, IsNormOf(norm, d),
         d.names.data # NoName, d.names.data \in DOMAIN d.claims,
         NEW r \in DOMAIN norm.replicas \ DOMAIN d.cluster.listed
  PROVE  /\ d.names.data \in DOMAIN norm.claims
         /\ norm.replicas[r].names.data = d.names.data
         /\ \A p \in DOMAIN norm.pods :
              IsList(norm.pods[p]) /\ \A c \in Range(norm.pods[p]) : IsContainer(c)
<1>1. PICK m : \E o \in Orders : Fits(m, d) /\ norm = NormalizeSpec(MergeSpec(m, d), config, o)
  BY DEF IsNormOf
<1>2. PICK o \in Orders : Fits(m, d) /\ norm = NormalizeSpec(MergeSpec(m, d), config, o)
  BY <1>1
<1> DEFINE s == MergeSpec(m, d)
<1>3. IsSpecification(m) /\ IsSpecification(d)
  BY <1>2, ProvisioningTypes DEF Fits
<1>4. /\ s.claims = MergeClaims(m.claims, d.claims) /\ s.cluster = d.cluster
      /\ s.names = OverrideNames(m.names, d.names)
  BY <1>3 DEF IsSpecification, MergeSpec, NewSpec
<1>5. IsSpecification(s)
  BY <1>3, SpecificationsMerged
<1> HIDE DEF s
<1>6. norm.claims = s.claims /\ norm.pods = s.pods /\ norm.replicas = ReplicasOf(s, o)
  BY <1>2 DEF NormalizeSpec, s
<1>7. d.names.data \in DOMAIN norm.claims
  BY <1>4, <1>6 DEF MergeClaims
<1>8. s.names.data = d.names.data
  BY <1>3, <1>4 DEF IsSpecification, NoNames, OverrideNames
<1>9. norm.replicas[r].names = FillNames(NoNames, s.names)
  BY <1>4, <1>6 DEF ReplicasOf, GeneratedReplica
<1>10. norm.replicas[r].names.data = d.names.data
  BY <1>8, <1>9 DEF FillNames, NoNames
<1> QED BY <1>5, <1>6, <1>7, <1>10 DEF IsSpecification

(***************************************************************************)
(* A document's own data claim is the volume under the data directory of   *)
(* every replica that the normalizer adds, whatever templates there are,   *)
(* or the pod template has mounted it elsewhere or something else there.   *)
(***************************************************************************)
THEOREM OwnDataMounted == Spec => []OwnDataIsMounted
<1>1. PassInv /\ MergedInv /\ DoneInv => OwnDataIsMounted
  <2> DEFINE norm == worker.norm
             d == worker.source
             data == d.names.data
  <2> SUFFICES ASSUME PassInv, MergedInv, DoneInv, At("finish"), ~d.paused, data # NoName,
                      data \in DOMAIN d.claims, NEW r \in Generated \ worker.missed
               PROVE  IF IsFree(TemplateContainer(norm, r), data, DataPath)
                      THEN DataVolumes(sets[r]) = {data}
                      ELSE MountedByTemplate(norm, r) \subseteq DataVolumes(sets[r])
    BY DEF OwnDataIsMounted
  <2> DEFINE c == TemplateContainer(norm, r)
             set == StatefulSetFor(norm, r)
             mounts == Range(set.containers[1].mounts)
  <2>1. /\ d \in Documents /\ IsNormOf(norm, d)
        /\ r \in DOMAIN norm.replicas \ DOMAIN d.cluster.listed
    BY DEF PassInv, MergedInv, At, Updating, Generated
  <2>2. /\ sets[r].containers = set.containers
        /\ DOMAIN set.claims \subseteq DOMAIN sets[r].claims
    <3>1. r \in Passed /\ Active
      BY <2>1 DEF Passed, Active, At, Updating
    <3>2. HasVolumes(norm, r) /\ HasMounts(norm, r)
      BY <3>1 DEF DoneInv, PassedInv
    <3> QED BY <3>2 DEF HasVolumes, HasMounts
  <2>3. /\ data \in DOMAIN norm.claims /\ norm.replicas[r].names.data = data
        /\ \A p \in DOMAIN norm.pods :
             IsList(norm.pods[p]) /\ \A x \in Range(norm.pods[p]) : IsContainer(x)
    BY <2>1, OwnDataInNorm
  <2>4. /\ \A m \in mounts :
             m \in Range(c.mounts) \/ m = Mount(data, DataPath) \/ m.path = LogPath
        /\ Range(c.mounts) \subseteq mounts
        /\ IsFree(c, data, DataPath) => Mount(data, DataPath) \in mounts
        /\ \A m \in mounts : m.name \in DOMAIN norm.claims => m.name \in DOMAIN set.claims
    BY <2>3, FirstContainerMounts
  <2>5. DataVolumes(sets[r]) =
          {m.name : m \in {n \in mounts : n.path = DataPath /\ n.name \in DOMAIN sets[r].claims}}
    BY <2>2 DEF DataVolumes
  <2> HIDE DEF mounts, c, set, norm, d, data
  <2>6. CASE IsFree(c, data, DataPath)
    <3>1. \A m \in mounts : m.path = DataPath => m = Mount(data, DataPath)
      BY <2>4, <2>6 DEF IsFree, DataPath, LogPath
    <3>2. /\ Mount(data, DataPath).path = DataPath /\ Mount(data, DataPath).name = data
          /\ data \in DOMAIN sets[r].claims
      BY <2>2, <2>3, <2>4, <2>6 DEF Mount
    <3>3. DataVolumes(sets[r]) = {data}
      BY <2>4, <2>5, <2>6, <3>1, <3>2
    <3> QED BY <2>6, <3>3 DEF c, norm, d, data
  <2>7. CASE ~IsFree(c, data, DataPath)
    <3>1. \A m \in Range(c.mounts) :
            m.name \in DOMAIN norm.claims => m \in mounts /\ m.name \in DOMAIN sets[r].claims
      BY <2>2, <2>4
    <3>2. MountedByTemplate(norm, r) \subseteq DataVolumes(sets[r])
      BY <2>5, <3>1 DEF MountedByTemplate, c
    <3> QED BY <2>7, <3>2 DEF c, norm, d, data
  <2> QED BY <2>6, <2>7
<1> QED BY <1>1, WorldAndPassHold, MergedInvHolds, DoneInvHolds, PTL
====
