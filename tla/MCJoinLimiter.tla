----------------------------- MODULE MCJoinLimiter -----------------------------
(* Two pods of an old and a new release start, migrate, serve and are killed,   *)
(* while a user tries codes at both.                                           *)
EXTENDS JoinLimiter

MCDeferred == {1, 3, 5}
==============================================================================
