------------------------- MODULE GenericPromotion --------------------------
(***************************************************************************)
(* The promotion model_ops performs itself when                            *)
(* CMS_MODEL_OPS_USE_PMAX_PROMOTION is not set: validate_candidate hashes  *)
(* the whole candidate tree and then writes its marker into that tree;     *)
(* promote_candidate hashes the tree again and compares.                   *)
(***************************************************************************)
EXTENDS Naturals

CONSTANTS
    Artifacts,      \* contents an upload can give the candidate
    MaxValidations  \* bound: validations in a behaviour

VARIABLES
    artifacts,   \* the uploaded files
    marker,      \* [serial, digest]: model_ops_validation.json; serial 0 is no marker
    validated,   \* history: the files the last validation hashed
    outcome      \* what the last promote_candidate did

gvars == <<artifacts, marker, validated, outcome>>

\* _digest_tree covers every file below the root.  The serial stands for the text of the
\* marker, which differs between two validations by validated_at and candidate_digest.
digest_tree == [files |-> artifacts, marker |-> marker.serial]

GenericInit ==
    /\ artifacts \in Artifacts
    /\ marker = [serial |-> 0, digest |-> [files |-> artifacts, marker |-> 0]]
    /\ validated = artifacts
    /\ outcome = "none"

\* An upload with overwrite replaces the directory, marker included.
UploadArtifacts(a) ==
    /\ artifacts' = a
    /\ marker' = [marker EXCEPT !.serial = 0]
    /\ outcome' = "none"
    /\ UNCHANGED validated

ValidateGeneric ==
    /\ marker.serial < MaxValidations
    /\ marker' = [serial |-> marker.serial + 1, digest |-> digest_tree]
    /\ validated' = artifacts
    /\ outcome' = "none"
    /\ UNCHANGED artifacts

\* _assert_model_ops_validation_current, and the swap when it accepts.
PromoteGeneric ==
    /\ marker.serial > 0
    /\ outcome' = IF marker.digest = digest_tree THEN "promoted" ELSE "changed after validation"
    /\ UNCHANGED <<artifacts, marker, validated>>

GenericNext == (\E a \in Artifacts : UploadArtifacts(a)) \/ ValidateGeneric \/ PromoteGeneric

GenericSpec == GenericInit /\ [][GenericNext]_gvars

\* "candidate artifacts changed after validation" is the answer only when they did.
RefusedOnlyIfChanged == outcome = "changed after validation" => artifacts # validated
============================================================================
