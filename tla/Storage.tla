------------------------------ MODULE Storage ------------------------------
(***************************************************************************)
(* What the operator promises about the data of a replica, whatever its    *)
(* templates and specifications do: a StatefulSet keeps the claims it was  *)
(* created with, a volume is provided in the size of a claim, never goes   *)
(* away and never gets smaller.                                            *)
(***************************************************************************)
EXTENDS Naturals, Functions, Maps

CONSTANT Replicas

VARIABLES
  claims,    \* for each StatefulSet there is, the sizes it claims by name
  volumes    \* for each replica, the sizes of its volumes by claim

vars == <<claims, volumes>>

(* There may be volumes of an earlier installation of the same name. *)
Init == DOMAIN claims = {} /\ DOMAIN volumes = Replicas

(* A StatefulSet comes with any claims. *)
Create(r) ==
  /\ r \in DOMAIN claims' \ DOMAIN claims
  /\ claims' = Put(claims, r, claims'[r])
  /\ UNCHANGED volumes

Provide(r, c) ==
  /\ r \in DOMAIN claims /\ c \in DOMAIN claims[r] \ DOMAIN volumes[r]
  /\ volumes' = [volumes EXCEPT ![r] = Put(@, c, claims[r][c])]
  /\ UNCHANGED claims

Grow(r, c) ==
  /\ r \in DOMAIN claims /\ c \in DOMAIN claims[r] \cap DOMAIN volumes[r]
  /\ volumes'[r][c] > volumes[r][c]
  /\ volumes' = [volumes EXCEPT ![r][c] = volumes'[r][c]]
  /\ UNCHANGED claims

(* The volumes of a removed replica stay, and are found again by a         *)
(* StatefulSet of the same name.                                           *)
Remove(r) ==
  /\ r \in DOMAIN claims
  /\ claims' = Restrict(claims, DOMAIN claims \ {r})
  /\ UNCHANGED volumes

Next ==
  \E r \in Replicas :
    \/ Create(r) \/ Remove(r)
    \/ r \in DOMAIN claims /\ \E c \in DOMAIN claims[r] : Provide(r, c) \/ Grow(r, c)

Spec == Init /\ [][Next]_vars
=============================================================================
