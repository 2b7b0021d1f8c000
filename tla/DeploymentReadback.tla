------------------------- MODULE DeploymentReadback -------------------------
(***************************************************************************)
(* The deploy job of .github/workflows/revenue-tracker-worker.yml and its  *)
(* readback, scripts/verify_worker_deployment.py: jobs deploy one commit   *)
(* each, one after another, and then ask the Workers API twice per attempt *)
(* (the deployments, then the version they name) whether it serves, while  *)
(* the owner may roll back, promote or split the traffic.                  *)
(*                                                                         *)
(* Abstractions: every deployment uploads a version of its own, which never*)
(* changes afterwards; the API fails, or answers with a state of the       *)
(* account that may have been replaced since (`shown`); pauses between     *)
(* attempts take no part in any decision.                                  *)
(***************************************************************************)
EXTENDS Integers, FiniteSets

CONSTANTS
    Jobs,          \* deploy jobs; the version a job uploads goes by its name
    Older,         \* versions that were there before
    RevisionOf,    \* SOURCE_REVISION of each version
    Intact,        \* versions with SOURCE_REVISION and the required bindings
    Unlabelled,    \* versions without a SOURCE_REVISION binding
    Attempts,      \* --attempts
    Routings,      \* bound: the routings the owner chooses from, each to at most two
    MaxChanges     \* bound: changes the owner makes

Versions == Jobs \cup Older

ASSUME VersionAssumption ==
    /\ DOMAIN RevisionOf = Versions
    /\ Intact \subseteq Versions /\ Unlabelled \subseteq Versions \ Intact
ASSUME RoutingAssumption == \A routed \in Routings : Cardinality(routed) \in 1 .. 2
ASSUME FiniteAssumption == IsFiniteSet(Versions)
ASSUME NumberAssumption == Attempts \in 1 .. 30 /\ MaxChanges \in Nat

VARIABLES
    traffic,     \* versions the newest deployment routes to; none before the first
    shown,       \* what the API says they are; it may take a while to notice a change
    changes,     \* number of changes the owner made
    phase,       \* where each job is
    attempt,     \* the attempt its readback is in
    listed,      \* the version the deployments named, until it was read
    reason,      \* category of the last ReadbackError
    observed,    \* what traffic has been since the attempt began, and what was shown then
    disturbed    \* the API failed the job at least once

vars == <<traffic, shown, changes, phase, attempt, listed, reason, observed, disturbed>>

Active == {"deploying", "listing", "reading"}
Ended == {"passed", "failed"}

\* The errors a later attempt may not meet, and those that end the readback.
\* REVISION_MISSING is BINDING_MISSING about SOURCE_REVISION itself.
Retryable == {"TRANSPORT_ERROR", "NO_DEPLOYMENT", "NOT_FULLY_ROLLED_OUT",
              "REVISION_MISSING", "REVISION_MISMATCH"}
Terminal == {"API_REFUSAL", "BINDING_MISSING", "DEPLOY_FAILED"}

TypeOK ==
    /\ traffic \in SUBSET Versions
    /\ shown \in SUBSET Versions
    /\ changes \in 0 .. MaxChanges
    /\ phase \in [Jobs -> {"queued"} \cup Active \cup Ended]
    /\ attempt \in [Jobs -> 0 .. Attempts]
    /\ listed \in [Jobs -> SUBSET Versions]
    /\ reason \in [Jobs -> {"none"} \cup Retryable \cup Terminal]
    /\ observed \in [Jobs -> SUBSET SUBSET Versions]
    /\ disturbed \in [Jobs -> BOOLEAN]

Init ==
    /\ traffic \in {{}} \cup {{v} : v \in Older}
    /\ shown = traffic
    /\ changes = 0
    /\ phase = [j \in Jobs |-> "queued"]
    /\ attempt = [j \in Jobs |-> 0]
    /\ listed = [j \in Jobs |-> {}]
    /\ reason = [j \in Jobs |-> "none"]
    /\ observed = [j \in Jobs |-> {}]
    /\ disturbed = [j \in Jobs |-> FALSE]

-----------------------------------------------------------------------------
(* The account                                                             *)

\* Traffic becomes `routed`; whoever is reading back meanwhile could see it.
Route(routed, watching) ==
    /\ traffic' = routed
    /\ UNCHANGED shown
    /\ observed' = [j \in Jobs |->
          IF j \in watching THEN observed[j] \cup {routed} ELSE observed[j]]

\* A rollback, a promotion or a gradual rollout over versions that are uploaded.
Reroute ==
    LET uploaded == Older \cup {j \in Jobs : phase[j] \notin {"queued", "deploying"}}
    IN  /\ changes < MaxChanges
        /\ changes' = changes + 1
        /\ \E routed \in Routings :
              /\ routed \subseteq uploaded
              /\ Route(routed, {j \in Jobs : phase[j] \in {"listing", "reading"}})
        /\ UNCHANGED <<phase, attempt, listed, reason, disturbed>>

\* The API notices what the newest deployment is.
Propagate ==
    /\ shown # traffic
    /\ shown' = traffic
    /\ UNCHANGED <<traffic, changes, phase, attempt, listed, reason, observed, disturbed>>

-----------------------------------------------------------------------------
(* The job                                                                 *)

\* The concurrency group lets one deploy job run at a time.
Start(j) ==
    /\ phase[j] = "queued"
    /\ \A i \in Jobs : phase[i] \notin Active
    /\ phase' = [phase EXCEPT ![j] = "deploying"]
    /\ UNCHANGED <<traffic, shown, changes, attempt, listed, reason, observed, disturbed>>

\* The version serves, and the first attempt begins; the API may lag behind.
Deploy(j) ==
    /\ phase[j] = "deploying"
    /\ traffic' = {j}
    /\ observed' = [observed EXCEPT ![j] = {{j}, shown}]
    /\ phase' = [phase EXCEPT ![j] = "listing"]
    /\ attempt' = [attempt EXCEPT ![j] = 1]
    /\ UNCHANGED <<shown, changes, listed, reason, disturbed>>

\* wrangler fails, before or after the version took effect, and no readback
\* follows.
DeployFails(j) ==
    /\ phase[j] = "deploying"
    /\ phase' = [phase EXCEPT ![j] = "failed"]
    /\ reason' = [reason EXCEPT ![j] = "DEPLOY_FAILED"]
    /\ traffic' \in {traffic, {j}}
    /\ UNCHANGED <<shown, changes, attempt, listed, observed, disturbed>>

\* Mutants: one attempt too many, an attempt that is retried is not counted.
HoldOnceMore(j, error) ==
    LET again == error \in Retryable /\ attempt[j] <= Attempts
    IN  /\ reason' = [reason EXCEPT ![j] = error]
        /\ phase' = [phase EXCEPT ![j] = IF again THEN "listing" ELSE "failed"]
        /\ attempt' = [attempt EXCEPT ![j] = IF again THEN @ + 1 ELSE @]
        /\ observed' = [observed EXCEPT ![j] = IF again THEN {traffic, shown} ELSE @]
HoldUncounted(j, error) ==
    /\ reason' = [reason EXCEPT ![j] = error]
    /\ phase' = [phase EXCEPT ![j] = IF error \in Retryable THEN "listing" ELSE "failed"]
    /\ UNCHANGED <<attempt, observed>>

\* A ReadbackError: the next attempt, if the error allows it and there is one.
Hold(j, error) ==
    LET again == error \in Retryable /\ attempt[j] < Attempts
    IN  /\ reason' = [reason EXCEPT ![j] = error]
        /\ phase' = [phase EXCEPT ![j] = IF again THEN "listing" ELSE "failed"]
        /\ attempt' = [attempt EXCEPT ![j] = IF again THEN @ + 1 ELSE @]
        /\ observed' = [observed EXCEPT ![j] = IF again THEN {traffic, shown} ELSE @]

\* Mutant: the newest deployment may split the traffic.
RolloutErrorAny(routed) == IF routed = {} THEN "NO_DEPLOYMENT" ELSE "none"

\* active_version: what is wrong with the newest deployment.
RolloutError(routed) ==
    IF routed = {} THEN "NO_DEPLOYMENT"
    ELSE IF Cardinality(routed) # 1 THEN "NOT_FULLY_ROLLED_OUT"
    ELSE "none"

ListDeployments(j) ==
    /\ phase[j] = "listing"
    /\ IF RolloutError(shown) = "none"
       THEN /\ \E v \in shown : listed' = [listed EXCEPT ![j] = {v}]
            /\ phase' = [phase EXCEPT ![j] = "reading"]
            /\ UNCHANGED <<attempt, reason, observed>>
       ELSE Hold(j, RolloutError(shown)) /\ UNCHANGED listed
    /\ UNCHANGED <<traffic, shown, changes, disturbed>>

\* Mutants: the version is compared instead of its revision; a missing binding
\* is looked for before the revision.
VersionErrorById(v, j) ==
    IF v \in Unlabelled THEN "REVISION_MISSING"
    ELSE IF v # j THEN "REVISION_MISMATCH"
    ELSE IF v \notin Intact THEN "BINDING_MISSING"
    ELSE "none"
VersionErrorBindingFirst(v, j) ==
    IF v \notin Intact THEN "BINDING_MISSING"
    ELSE IF RevisionOf[v] # RevisionOf[j] THEN "REVISION_MISMATCH"
    ELSE "none"

\* check_version: what is wrong with version v for job j.
VersionError(v, j) ==
    IF v \in Unlabelled THEN "REVISION_MISSING"
    ELSE IF RevisionOf[v] # RevisionOf[j] THEN "REVISION_MISMATCH"
    ELSE IF v \notin Intact THEN "BINDING_MISSING"
    ELSE "none"

ReadVersion(j) ==
    /\ phase[j] = "reading"
    /\ \E v \in listed[j] :
          IF VersionError(v, j) = "none"
          THEN phase' = [phase EXCEPT ![j] = "passed"] /\ UNCHANGED <<attempt, reason, observed>>
          ELSE Hold(j, VersionError(v, j))
    /\ listed' = [listed EXCEPT ![j] = {}]
    /\ UNCHANGED <<traffic, shown, changes, disturbed>>

\* Either request fails: transport, 5xx and 429 can be retried, a refusal or an
\* answer that makes no sense cannot.
RequestFails(j) ==
    /\ phase[j] \in {"listing", "reading"}
    /\ \E error \in {"TRANSPORT_ERROR", "API_REFUSAL"} : Hold(j, error)
    /\ disturbed' = [disturbed EXCEPT ![j] = TRUE]
    /\ listed' = [listed EXCEPT ![j] = {}]
    /\ UNCHANGED <<traffic, shown, changes>>

Readback(j) == ListDeployments(j) \/ ReadVersion(j) \/ RequestFails(j)

Next == Reroute \/ Propagate \/ \E j \in Jobs : Start(j) \/ Deploy(j) \/ DeployFails(j) \/ Readback(j)

Spec == Init /\ [][Next]_vars

\* Requests and wrangler have timeouts, so a running job always goes on.
FairSpec ==
    Spec /\ \A j \in Jobs : WF_vars(Start(j)) /\ WF_vars(Deploy(j) \/ DeployFails(j)) /\ WF_vars(Readback(j))

-----------------------------------------------------------------------------
(* Properties                                                              *)

\* "Prove which commit a Worker is serving": although the deployment and its
\* version are read at two moments with changes in between, a job that passes
\* for a commit had it serve all the traffic, with its bindings, during the very
\* attempt that passed, or in what the API still showed when that attempt began.
PassedMeansServed ==
    \A j \in Jobs : phase[j] = "passed" =>
        \E v \in Intact : RevisionOf[v] = RevisionOf[j] /\ {v} \in observed[j]

\* A job that fails for the revision had another one, or none, serve during its
\* last attempt, or in what was still shown when it began: the reason is never
\* left over from an earlier attempt.
MismatchMeansReplaced ==
    \A j \in Jobs : phase[j] = "failed" /\ reason[j] \in {"REVISION_MISMATCH", "REVISION_MISSING"} =>
        \E v \in Versions : {v} \in observed[j] /\ (v \in Unlabelled \/ RevisionOf[v] # RevisionOf[j])

\* A deployment that nobody touches and the API shows is never refused, and one
\* that was rolled back for a moment, or is not shown yet, fails for its revision,
\* to be tried again, and not for the bindings of what was there.
StableDeploymentPasses ==
    \A j \in Jobs :
        phase[j] = "failed" /\ reason[j] # "DEPLOY_FAILED" /\ ~disturbed[j] /\ j \in Intact =>
            \/ reason[j] \in Retryable /\ observed[j] # {{j}}
            \/ \E v \in Versions \ Intact : {v} \in observed[j] /\ RevisionOf[v] = RevisionOf[j]

\* A job that starts ends, however often the owner changes what it reads: the
\* next one in the concurrency group gets its turn.
JobsEnd == \A j \in Jobs : phase[j] \in Active ~> phase[j] \in Ended

=============================================================================
