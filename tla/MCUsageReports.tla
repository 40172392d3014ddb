--------------------------- MODULE MCUsageReports ---------------------------
(* Three requests of one user for one model: two of one project and one of  *)
(* another.  Different amounts, so that a wrong sum cannot be right.        *)
EXTENDS UsageReports, TLC

CONSTANTS r1, r2, r3, u1, p1, p2, m1

Use(n) == [user |-> u1, project |-> p1, model |-> m1, tokens |-> n]

\* All with the same user and model, where the rows of reports can collide.
MCCall == r1 :> Use(1) @@ r2 :> Use(2) @@ r3 :> [Use(4) EXCEPT !.project = p2]
==============================================================================
