--------------------------- MODULE MCMemberManager ---------------------------
(* Instances of MemberManager for TLC. *)
EXTENDS MemberManager, DeleteSlots

CONSTANTS r1, r2, r3

OneShard == {{r1, r2}}
ScaleLayouts == {{r1}, {r1, r2}}
TwoShards == {{r1, r2}, {r3}}
TwoShardLayouts == {{r1, r3}, {r1, r2, r3}}

(* What the normalizer makes of up to two replicas and any delete slots.   *)
Named(ordinals) == {<<r1, r2>>[o + 1] : o \in ordinals}

SlotLayouts ==
  {Named(NewReplicas(n, skip)) : n \in 1..2, skip \in SUBSET {0, 1}}
=============================================================================
