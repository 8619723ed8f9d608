----------------------------- MODULE DeleteSlots -----------------------------
(***************************************************************************)
(* Which replicas a shard has: the ordinals 0, 1, ... without those that   *)
(* the annotation daisy.com/delete-slots names. The pure part of the       *)
(* normalizer (getNextIndex, normalizeShardReplicasCount) and of its       *)
(* helpers on names (GetDeleteSlotsForShard, ExtractLastOrdinal).          *)
(***************************************************************************)
EXTENDS Integers, FiniteSets, SequencesExt

(***************************************************************************)
(* An entry of the annotation is a name, split by "-". What matters of it  *)
(* is the number of the shard it contains and what follows: the ordinal of *)
(* a replica, something that is no number, or nothing, when it is the name *)
(* of the shard itself.                                                    *)
(***************************************************************************)
Slot(shards, ordinals) ==
  [shard : shards, kind : {"replica"}, ordinal : ordinals]
    \cup [shard : shards, kind : {"garbled", "shard"}, ordinal : {0}]

(* Mutant: an entry counts for every shard.                                *)
NameContainsAny(slot, shard) == TRUE

(* strings.Contains on the two names: the digits of the shard are a prefix *)
(* of the digits in the entry.                                             *)
NameContains(slot, shard) ==
  \E n \in {1, 10, 100} : slot.shard \div n = shard /\ (n > 1 => shard > 0)

(* strconv.Atoi of the last part of the name, which is 0 when it fails.    *)
ExtractLastOrdinal(slot) ==
  CASE slot.kind = "replica" -> slot.ordinal
    [] slot.kind = "garbled" -> 0
    [] slot.kind = "shard" -> slot.shard

GetDeleteSlotsForShard(slots, shard) ==
  {ExtractLastOrdinal(slot) : slot \in {x \in slots : NameContains(x, shard)}}

(* As many slots as replicas, or more, and they are all ignored.           *)
ShardReplicasCount(replicasCount, skip) ==
  IF replicasCount > Cardinality(skip)
  THEN replicasCount - Cardinality(skip) ELSE replicasCount

(* Mutant: slots that are ignored are skipped all the same.                *)
SkippedOrdinalsAlways(replicasCount, skip) == skip

(* Mutant: the slots are ignored by another comparison than for the count. *)
SkippedOrdinalsOfMany(replicasCount, skip) ==
  IF ShardReplicasCount(replicasCount, skip) <= Cardinality(skip) THEN {} ELSE skip

(* The set that normalizeShard passes on: nil when the slots are ignored.  *)
SkippedOrdinals(replicasCount, skip) ==
  IF ShardReplicasCount(replicasCount, skip) = replicasCount THEN {} ELSE skip

(* Mutant: the ordinals before the first gap are not counted.              *)
NextIndexFromFirstGap(index, skip) ==
  IF skip = {} THEN index
  ELSE LET first == CHOOSE v \in skip : \A w \in skip : v <= w
       IN IF index < first THEN index ELSE index + Cardinality(skip)

(* sets.Int.List: the members in ascending order.                          *)
List(skip) ==
  CHOOSE tmp \in [1..Cardinality(skip) -> skip] :
    \A i, j \in 1..Cardinality(skip) : i < j => tmp[i] < tmp[j]

(* The ordinals in use below the i-th of the skipped ones.                 *)
InUseBelow(tmp) ==
  LET g[i \in DOMAIN tmp] ==
        IF i = 1 THEN tmp[1] ELSE g[i - 1] + tmp[i] - tmp[i - 1] - 1
  IN g

(***************************************************************************)
(* getNextIndex: the loop over the skipped ordinals adds up the ones in    *)
(* use below them. It stops at the first one with enough of them below it  *)
(* and counts on from the member before.                                   *)
(***************************************************************************)
NextIndex(index, skip) ==
  LET tmp == List(skip)
      g == InUseBelow(tmp)
      passed == {i \in DOMAIN tmp : g[i] <= index}
      last == CHOOSE i \in passed : \A j \in passed : j <= i
  IN IF passed = {} THEN index ELSE tmp[last] + 1 + index - g[last]

(* The names normalizeReplicas computes (newReplicas), by their ordinals.  *)
NewReplicas(replicasCount, skip) ==
  {NextIndex(index, SkippedOrdinals(replicasCount, skip)) :
     index \in 0..(ShardReplicasCount(replicasCount, skip) - 1)}
=============================================================================
