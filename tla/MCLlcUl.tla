------------------------------ MODULE MCLlcUl ------------------------------
(***************************************************************************)
(* Instances of LlcUl for TLC.  The configuration assigns every constant.  *)
(***************************************************************************)
EXTENDS LlcUl
=============================================================================
