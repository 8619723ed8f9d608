-------------------------------- MODULE Layout --------------------------------
(***************************************************************************)
(* The layout of one cluster: the normalizer's walk over its shards        *)
(* (normalizeCluster, normalizeShard, normalizeReplicas), with the edits a *)
(* user makes between two normalizations. The result becomes PrevSpec, and *)
(* the member manager deletes what a result lacks of the one before.       *)
(***************************************************************************)
EXTENDS DeleteSlots, Maps

CONSTANTS
  Shards,        \* numbers of the shards there can be
  Ordinals,      \* the ordinals a delete slot can name
  GivenLayouts,  \* the shards a spec can list, each with the replicas it lists
  MaxShards,     \* bound: the shardsCount of the spec
  MaxReplicas,   \* bound: the replicasCount of the spec
  MaxSlots       \* bound: entries of the annotation

ASSUME LayoutConstants ==
  /\ Shards \subseteq Nat /\ Ordinals \subseteq Nat
  /\ \A given \in GivenLayouts :
       /\ DOMAIN given \subseteq Shards /\ IsFiniteSet(DOMAIN given)
       /\ \A x \in DOMAIN given : IsFiniteSet(given[x])
       /\ Cardinality(DOMAIN given)..(MaxShards - 1) \subseteq Shards
  /\ MaxShards \in Nat \ {0} /\ MaxReplicas \in Nat \ {0} /\ MaxSlots \in Nat

VARIABLES
  spec,    \* what the user asks for
  layout,  \* the replicas of each shard in the result, PrevSpec when it is complete
  prev,    \* the spec and the layout of the result before it
  step,    \* "shards" while there may be shards to add, then "replicas"
  todo,    \* the shards that have not been visited
  shard,   \* the one that is
  filled   \* its replicas so far (shard.Replicas)

vars == <<spec, layout, prev, step, todo, shard, filled>>

NoShard == -1

Webhook == INSTANCE Webhook

(* What the webhook sees of a spec. *)
Document(s) ==
  [Webhook!NewSpec EXCEPT
     !.claims = IF s.claims THEN [c \in {"data"} |-> Webhook!MinData] ELSE <<>>,
     !.cluster.shards = s.shardsCount, !.cluster.replicas = s.replicasCount]

(* The replicas a spec lists for a shard. *)
Given(s, x) == IF x \in DOMAIN s.given THEN s.given[x] ELSE {}

(* normalizeClusterLayoutShardsCountAndReplicasCount: no count means one,  *)
(* or as many shards as there are.                                         *)
ShardsCount(s) ==
  IF s.shardsCount # 0 THEN s.shardsCount
  ELSE IF DOMAIN s.given = {} THEN 1 ELSE Cardinality(DOMAIN s.given)

ReplicasCount(s) == IF s.replicasCount = 0 THEN 1 ELSE s.replicasCount

Skip(s, x) == GetDeleteSlotsForShard(s.slots, x)

CountOf(s, x) == ShardReplicasCount(ReplicasCount(s), Skip(s, x))

SkipOf(s, x) == SkippedOrdinals(ReplicasCount(s), Skip(s, x))

----------------------------------------------------------------------------
(* The normalizer *)

(* ensureClusterLayoutShards: adds the name with the index                 *)
(* len(layout.Shards), and nothing when that name is there already. Shards *)
(* that are listed beyond the count stay.                                  *)
AddShard ==
  /\ step = "shards" /\ Cardinality(todo) < ShardsCount(spec)
  /\ todo' = todo \cup {Cardinality(todo)}
  /\ UNCHANGED <<spec, layout, prev, step, shard, filled>>

BeginReplicas ==
  /\ step = "shards" /\ Cardinality(todo) >= ShardsCount(spec)
  /\ step' = "replicas"
  /\ UNCHANGED <<spec, layout, prev, todo, shard, filled>>

(* Mutant: the replicas that the spec lists are not looked at.             *)
VisitShardFromScratch(x) ==
  /\ step = "replicas" /\ x \in todo /\ shard = NoShard
  /\ todo' = todo \ {x} /\ shard' = x /\ filled' = {}
  /\ UNCHANGED <<spec, layout, prev, step>>

VisitShard(x) ==
  /\ step = "replicas" /\ x \in todo /\ shard = NoShard
  /\ todo' = todo \ {x} /\ shard' = x /\ filled' = Given(spec, x)
  /\ UNCHANGED <<spec, layout, prev, step>>

(* Mutant: the index of the last replica instead of the next one.          *)
AddReplicaAtLast ==
  /\ shard # NoShard /\ Cardinality(filled) < CountOf(spec, shard)
  /\ LET n == Cardinality(filled) IN
     filled' = filled \cup {NextIndex(IF n = 0 THEN 0 ELSE n - 1, SkipOf(spec, shard))}
  /\ UNCHANGED <<spec, layout, prev, step, todo, shard>>

(* The loop adds the name with the index len(shard.Replicas). It adds      *)
(* nothing when that name is there already.                                *)
AddReplica ==
  /\ shard # NoShard /\ Cardinality(filled) < CountOf(spec, shard)
  /\ filled' = filled \cup {NextIndex(Cardinality(filled), SkipOf(spec, shard))}
  /\ UNCHANGED <<spec, layout, prev, step, todo, shard>>

(* Of too many replicas only those with one of the new names are kept.     *)
Trimmed(x, given) ==
  IF Cardinality(given) > CountOf(spec, x)
  THEN given \cap NewReplicas(ReplicasCount(spec), Skip(spec, x)) ELSE given

FinishShard ==
  /\ shard # NoShard /\ Cardinality(filled) >= CountOf(spec, shard)
  /\ layout' = Put(layout, shard, Trimmed(shard, filled))
  /\ shard' = NoShard /\ filled' = {}
  /\ UNCHANGED <<spec, prev, step, todo>>

Normalize ==
  \/ AddShard
  \/ BeginReplicas
  \/ \E x \in Shards : VisitShard(x)
  \/ AddReplica
  \/ FinishShard

Normalized == step = "replicas" /\ todo = {} /\ shard = NoShard

----------------------------------------------------------------------------
(* The user *)

(* The normalizer works on a copy, so an edit only counts for its next run. *)
Edit(new) ==
  /\ Normalized /\ new # spec /\ Webhook!ValidateUpdate(Document(new), Document(spec))
  /\ spec' = new /\ prev' = [spec |-> spec, layout |-> layout]
  /\ step' = "shards" /\ todo' = DOMAIN new.given /\ layout' = <<>>
  /\ UNCHANGED <<shard, filled>>

Scale(n) == Edit([spec EXCEPT !.replicasCount = n])

ScaleShards(n) == Edit([spec EXCEPT !.shardsCount = n])

AddSlot(slot) ==
  /\ Cardinality(spec.slots) < MaxSlots
  /\ Edit([spec EXCEPT !.slots = spec.slots \cup {slot}])

RemoveSlot(slot) == Edit([spec EXCEPT !.slots = spec.slots \ {slot}])

User ==
  \/ \E n \in 0..MaxReplicas : Scale(n)
  \/ \E n \in 0..MaxShards : ScaleShards(n)
  \/ \E slot \in Slot(Shards, Ordinals) : AddSlot(slot)
  \/ \E slot \in spec.slots : RemoveSlot(slot)

----------------------------------------------------------------------------
(* The specification *)

Init ==
  /\ spec \in [shardsCount : 0..MaxShards, replicasCount : 0..MaxReplicas, slots : {{}},
               given : GivenLayouts, claims : BOOLEAN]
  /\ layout = <<>> /\ prev = [spec |-> spec, layout |-> layout]
  /\ step = "shards" /\ todo = DOMAIN spec.given /\ shard = NoShard /\ filled = {}

Next == Normalize \/ User

Spec == Init /\ [][Next]_vars /\ WF_vars(Normalize)

----------------------------------------------------------------------------
(* Properties *)

(* Every variable has its type, and no ordinal reaches the replicasCount   *)
(* but of a replica that is listed.                                        *)
TypeOK ==
  /\ spec.shardsCount \in 0..MaxShards /\ spec.replicasCount \in 0..MaxReplicas
  /\ spec.slots \subseteq Slot(Shards, Ordinals)
  /\ spec.given \in GivenLayouts /\ spec.claims \in BOOLEAN
  /\ DOMAIN layout \subseteq Shards
  /\ \A x \in DOMAIN layout :
       layout[x] \subseteq Given(spec, x) \cup 0..(ReplicasCount(spec) - 1)
  /\ step \in {"shards", "replicas"}
  /\ todo \subseteq Shards /\ shard \in Shards \cup {NoShard}

(* The replicas with ordinals outside skip, the lowest n of them.          *)
Lowest(n, skip) ==
  {o \in 0..(n + Cardinality(skip)) :
     o \notin skip /\ Cardinality({p \in 0..(o - 1) : p \notin skip}) < n}

(***************************************************************************)
(* A shard whose replicas are not listed in the spec has the lowest        *)
(* ordinals that are not deleted, and as many as the count asks for:       *)
(* getNextIndex skips what it should and never gives an ordinal twice.     *)
(***************************************************************************)
LayoutIsLowestOrdinals ==
  Normalized => \A x \in DOMAIN layout : Given(spec, x) = {} =>
    layout[x] = Lowest(CountOf(spec, x), SkipOf(spec, x))

(* Slots of shard x are in effect. *)
InEffect(s, x) == CountOf(s, x) # ReplicasCount(s) \/ Skip(s, x) = {}

(***************************************************************************)
(* A new slot that names an existing replica takes away that replica, and  *)
(* no other one of any shard ("delete 1 replicas by delete-slot").         *)
(***************************************************************************)
SlotDeletesItsReplica ==
  Normalized => \A slot \in spec.slots \ prev.spec.slots :
    /\ \A x \in DOMAIN layout :
         Given(spec, x) = {} /\ InEffect(spec, x) /\ InEffect(prev.spec, x)
    /\ slot.kind = "replica" /\ slot.shard \in DOMAIN layout
    /\ slot.ordinal \in prev.layout[slot.shard]
    => \A x \in DOMAIN layout :
         layout[x] = prev.layout[x] \ (IF x = slot.shard THEN {slot.ordinal} ELSE {})

(***************************************************************************)
(* A scale-out keeps every shard and every replica, and with it its data:  *)
(* names do not depend on the count. Slots that were ignored and come into *)
(* effect by it are the exception.                                         *)
(***************************************************************************)
KeepsReplicas ==
  \A x \in DOMAIN prev.layout :
    x \in DOMAIN layout /\ (InEffect(prev.spec, x) => prev.layout[x] \subseteq layout[x])

ScaleOutKeepsReplicas ==
  Normalized /\ spec.slots = prev.spec.slots
             /\ ShardsCount(spec) >= ShardsCount(prev.spec)
             /\ ReplicasCount(spec) >= ReplicasCount(prev.spec) => KeepsReplicas

(***************************************************************************)
(* The member manager does not move data: a shard that goes takes its data *)
(* along. An installation with claims of its own does not lose a shard,    *)
(* nor a replica otherwise than by a slot, by any edit of its counts that  *)
(* the webhook lets through (ValidateScalInOut, which compares the counts  *)
(* as they are written, where none stands for one or for all).             *)
(***************************************************************************)
ClaimedReplicasAreKept ==
  Normalized /\ spec.claims /\ spec.slots = prev.spec.slots => KeepsReplicas

(***************************************************************************)
(* Listed replicas and generated ones together are as many as asked for,   *)
(* when no more are listed than that (normalizeReplicas).                  *)
(***************************************************************************)
ListedReplicasCount ==
  Normalized => \A x \in DOMAIN layout :
    Cardinality(Given(spec, x)) <= CountOf(spec, x) =>
      Cardinality(layout[x]) = CountOf(spec, x) /\ Given(spec, x) \subseteq layout[x]

(* Every normalization ends: the loops that add shards and fill one do not *)
(* spin on a name that is there already (ensureClusterLayoutShards,        *)
(* normalizeReplicas).                                                     *)
NormalizationEnds == []<>Normalized
=============================================================================
