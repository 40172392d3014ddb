-------------------------- MODULE MCPolicyDeployment --------------------------
(* Two projects that may share a class or move between two, one model with a  *)
(* backend and, in the larger runs, one without.                              *)
EXTENDS PolicyDeployment, TLC

Limited == [daily_token_limit |-> 5, max_parallel_requests |-> 2]
Unlimited == [daily_token_limit |-> 7, max_parallel_requests |-> NULL]

OneLimit == {Limited}
TwoLimits == {Limited, Unlimited}

DeployerSymmetry == Permutations(Deployers)
==============================================================================
