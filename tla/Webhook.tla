------------------------------ MODULE Webhook ------------------------------
(***************************************************************************)
(* What the admission webhook lets through                                 *)
(* (api/v1/daisyinstallation_webhook.go). It sees the specification as the *)
(* user wrote it, before any template is merged. Pure operators; sizes in  *)
(* mebibytes; one cluster.                                                 *)
(***************************************************************************)
EXTENDS Volumes

MinData == 1024
MinLog == 100

(* getVolume, for a name that is given: the claim has to be one of the     *)
(* specification's own, and big enough.                                    *)
IsReasonable(spec, name, minimum) ==
  name # NoName => name \in DOMAIN spec.claims /\ spec.claims[name] >= minimum

(* ValidateStorageLimit: only a specification with claims is looked at. *)
StorageLimit(spec) ==
  DOMAIN spec.claims # {} =>
    IsReasonable(spec, spec.names.data, MinData) /\ IsReasonable(spec, spec.names.log, MinLog)

(* The comparison of the new claims is with themselves: sizes never count. *)
ClaimsGrow(spec) == \E c \in DOMAIN spec.claims : Increase(spec.claims[c], spec.claims[c])
ClaimsShrink(spec) == \E c \in DOMAIN spec.claims : Decrease(spec.claims[c], spec.claims[c])

(* Mutant: scaling in is not looked at. *)
ScaleInAnyhow(spec, old) == DOMAIN spec.claims = {} \/ ~ClaimsShrink(spec)

(* ValidateScalInOut, validVolume: the counts may not go down. This too is *)
(* only looked at for a specification with claims. (ValidateStorageClass   *)
(* would be asked if ClaimsGrow.)                                          *)
ScaleInOut(spec, old) ==
  DOMAIN spec.claims # {} =>
    /\ ~ClaimsGrow(spec) /\ ~ClaimsShrink(spec)
    /\ spec.cluster.shards >= old.cluster.shards
    /\ spec.cluster.replicas >= old.cluster.replicas

ValidateCreate(spec) == StorageLimit(spec)
ValidateUpdate(spec, old) == StorageLimit(spec) /\ ScaleInOut(spec, old)
=============================================================================
