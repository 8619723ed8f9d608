------------------------------ MODULE MCLayout ------------------------------
(* Instances of Layout for TLC. *)
EXTENDS Layout

(* Nothing is listed, or the first shard, or both, with the first replicas *)
(* or none.                                                                *)
FirstOnes ==
  {<<>>, (0 :> {0}), (0 :> {0, 1}) @@ (1 :> {0}), (0 :> {}) @@ (1 :> {0, 1})}

(* Two shards, one of which has the name of the other as a part of its own. *)
OneAndTen == {(1 :> {}) @@ (10 :> {})}
=============================================================================
