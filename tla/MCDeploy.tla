------------------------------- MODULE MCDeploy -------------------------------
(* Two deployments that may overlap, and two runs that initialize one.     *)
EXTENDS Deployment, TLC
CONSTANTS r1, r2, r3
MCRuns == {r1, r2, r3}
MCMayRun ==
  r1 :> {"deploy_dummy", "fixture", "chain", "chain_dummy"}
    @@ r2 :> {"deploy", "init"}
    @@ r3 :> {"init"}
=============================================================================
