------------------------ MODULE MCDeploymentReadback ------------------------
(***************************************************************************)
(* Instance of DeploymentReadback for TLC.                                 *)
(***************************************************************************)
EXTENDS DeploymentReadback, TLC

CONSTANTS job1, job2, stub, twin, bare

\* Two commits.  Of the older versions one has neither label nor bindings, one is
\* a whole one of the first commit, and one of the second commit lacks a binding.
MCRevisionOf ==
    job1 :> "commit1" @@ job2 :> "commit2" @@ stub :> "unknown" @@ twin :> "commit1" @@ bare :> "commit2"

\* Any version alone, and a split between a job's version and an older one.
MCRoutings == {{v} : v \in Versions} \cup {{j, stub} : j \in Jobs}
=============================================================================
