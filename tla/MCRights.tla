------------------------------- MODULE MCRights -------------------------------
(* One project, two requests at once, a superuser who may be demoted, a user    *)
(* who may become an administrator, and OIDC logins.                           *)
EXTENDS Rights, TLC

EditorSymmetry == Permutations(Editors)
==============================================================================
