-------------------------------- MODULE Maps --------------------------------
(***************************************************************************)
(* Maps as functions: assignment to an entry, m[k] = v, and a map laid     *)
(* over another one. They are (k :> v) @@ m and upper @@ lower of the      *)
(* module TLC in terms that the provers know.                              *)
(***************************************************************************)

Put(m, k, v) == [x \in DOMAIN m \cup {k} |-> IF x = k THEN v ELSE m[x]]

Over(upper, lower) ==
  [x \in DOMAIN upper \cup DOMAIN lower |->
     IF x \in DOMAIN upper THEN upper[x] ELSE lower[x]]
=============================================================================
