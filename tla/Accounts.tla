------------------------------- MODULE Accounts -------------------------------
(***************************************************************************)
(* The user table, which memberships, tokens and the rights of             *)
(* administrators refer to.                                                *)
(***************************************************************************)
CONSTANT Users          \* its rows
==============================================================================
