-------------------------- MODULE MCQualification --------------------------
(* Instances of ProtectedQualification for TLC. *)
EXTENDS ProtectedQualification

CONSTANTS physical

Alone == <<physical>>
=============================================================================
