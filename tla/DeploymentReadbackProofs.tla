---------------------- MODULE DeploymentReadbackProofs ----------------------
(***************************************************************************)
(* Proofs about DeploymentReadback, for any jobs, versions, number of      *)
(* attempts and number of changes by the owner.                            *)
(***************************************************************************)
EXTENDS DeploymentReadback, TLAPS, FiniteSetTheorems

Errors == Retryable \cup Terminal

Reading == {"listing", "reading"}

\* What the readback relies on between its two requests: no other job deploys
\* meanwhile, the traffic and what the API shows of it are among what this attempt
\* could observe, and so is what it was told by the first request.
ReadInv ==
    /\ \A i, j \in Jobs : phase[i] \in Active /\ phase[j] \in Active => i = j
    /\ \A j \in Jobs : phase[j] \in Reading => traffic \in observed[j] /\ shown \in observed[j]
    /\ \A j \in Jobs : phase[j] = "reading" =>
          \E v \in Versions : listed[j] = {v} /\ {v} \in observed[j]

\* The newest deployment is refused, or routes everything to one version.
LEMMA RolloutVerdict ==
    ASSUME NEW routed \in SUBSET Versions
    PROVE  /\ RolloutError(routed) \in {"NO_DEPLOYMENT", "NOT_FULLY_ROLLED_OUT", "none"}
           /\ RolloutError(routed) = "none" => \E v \in Versions : routed = {v}
           /\ \A v : routed = {v} => RolloutError(routed) = "none"
<1>1. IsFiniteSet(routed)
  BY FiniteAssumption, FS_Subset
<1>2. Cardinality(routed) = 1 <=> \E v : routed = {v}
  BY <1>1, FS_Singleton
<1>3. QED
  BY <1>2 DEF RolloutError

\* A version is refused for the first of three reasons that holds.
LEMMA VersionVerdict ==
    ASSUME NEW v \in Versions, NEW j \in Jobs
    PROVE  /\ VersionError(v, j) \in {"REVISION_MISSING", "REVISION_MISMATCH", "BINDING_MISSING", "none"}
           /\ VersionError(v, j) = "none" => v \in Intact /\ RevisionOf[v] = RevisionOf[j]
           /\ VersionError(v, j) = "REVISION_MISSING" => v \in Unlabelled
           /\ VersionError(v, j) = "REVISION_MISMATCH" => RevisionOf[v] # RevisionOf[j]
           /\ VersionError(v, j) = "BINDING_MISSING" => v \notin Intact /\ RevisionOf[v] = RevisionOf[j]
BY DEF VersionError

\* An error leads to the next attempt, which observes anew, or ends the job with
\* the error as its reason and what the last attempt observed.
LEMMA HoldStep ==
    ASSUME TypeOK, NEW j \in Jobs, NEW error \in Errors, phase[j] \in Reading, Hold(j, error)
    PROVE  /\ \A i \in Jobs \ {j} : /\ phase'[i] = phase[i] /\ reason'[i] = reason[i]
                                     /\ attempt'[i] = attempt[i] /\ observed'[i] = observed[i]
           /\ reason' \in [Jobs -> {"none"} \cup Errors] /\ reason'[j] = error
           /\ phase' \in [Jobs -> {"queued"} \cup Active \cup Ended]
           /\ attempt' \in [Jobs -> 0 .. Attempts]
           /\ observed' \in [Jobs -> SUBSET SUBSET Versions]
           /\ \/ phase'[j] = "listing" /\ observed'[j] = {traffic, shown}
              \/ phase'[j] = "failed" /\ observed'[j] = observed[j]
<1> DEFINE again == error \in Retryable /\ attempt[j] < Attempts
<1>1. attempt[j] \in 0 .. Attempts /\ traffic \in SUBSET Versions /\ shown \in SUBSET Versions
  BY DEF TypeOK
<1>2. again => attempt[j] + 1 \in 0 .. Attempts
  BY <1>1, NumberAssumption
<1>3. attempt' \in [Jobs -> 0 .. Attempts]
  BY <1>1, <1>2 DEF TypeOK, Hold
<1>4. observed' \in [Jobs -> SUBSET SUBSET Versions]
  BY <1>1 DEF TypeOK, Hold
<1>5. phase' \in [Jobs -> {"queued"} \cup Active \cup Ended]
  BY DEF TypeOK, Hold, Active, Ended
<1>6. reason' \in [Jobs -> {"none"} \cup Errors] /\ reason'[j] = error
  BY DEF TypeOK, Hold, Errors
<1>7. \A i \in Jobs \ {j} : /\ phase'[i] = phase[i] /\ reason'[i] = reason[i]
                             /\ attempt'[i] = attempt[i] /\ observed'[i] = observed[i]
  BY DEF TypeOK, Hold
<1>8. \/ phase'[j] = "listing" /\ observed'[j] = {traffic, shown}
      \/ phase'[j] = "failed" /\ observed'[j] = observed[j]
  BY DEF TypeOK, Hold
<1>9. QED
  BY <1>3, <1>4, <1>5, <1>6, <1>7, <1>8

-----------------------------------------------------------------------------
(* Types                                                                   *)

\* Every step of a job and every change by the owner keeps the types.
LEMMA TypeStep == TypeOK /\ [Next]_vars => TypeOK'
<1> SUFFICES ASSUME TypeOK, [Next]_vars
             PROVE  TypeOK'
  OBVIOUS
<1>1. CASE UNCHANGED vars
  BY <1>1 DEF TypeOK, vars
<1>2. CASE Reroute \/ Propagate
  BY <1>2, NumberAssumption DEF TypeOK, Reroute, Propagate, Route, Versions, Reading
<1>3. ASSUME NEW j \in Jobs, Start(j)
      PROVE  TypeOK'
  BY <1>3 DEF TypeOK, Start, Active
<1>4. ASSUME NEW j \in Jobs, Deploy(j)
      PROVE  TypeOK'
  <2>1. 1 \in 0 .. Attempts
    BY NumberAssumption
  <2>2. {{j}, shown} \in SUBSET SUBSET Versions
    BY DEF TypeOK, Versions
  <2>3. QED
    BY <1>4, <2>1, <2>2 DEF TypeOK, Deploy, Active
<1>5. ASSUME NEW j \in Jobs, DeployFails(j)
      PROVE  TypeOK'
  BY <1>5 DEF TypeOK, DeployFails, Terminal, Ended, Versions
<1>6. ASSUME NEW j \in Jobs, ListDeployments(j)
      PROVE  TypeOK'
  <2>1. shown \in SUBSET Versions
    BY DEF TypeOK
  <2>2. CASE RolloutError(shown) = "none"
    BY <1>6, <2>1, <2>2 DEF TypeOK, ListDeployments, Active
  <2>3. CASE RolloutError(shown) # "none"
    <3>1. RolloutError(shown) \in Errors /\ phase[j] \in Reading /\ Hold(j, RolloutError(shown))
      BY <1>6, <2>1, <2>3, RolloutVerdict DEF ListDeployments, Errors, Retryable, Reading
    <3>2. QED
      BY <1>6, <2>3, <3>1, HoldStep DEF TypeOK, ListDeployments, Errors
  <2>4. QED
    BY <2>2, <2>3
<1>7. ASSUME NEW j \in Jobs, ReadVersion(j)
      PROVE  TypeOK'
  <2>1. PICK v \in listed[j] :
           IF VersionError(v, j) = "none"
           THEN phase' = [phase EXCEPT ![j] = "passed"] /\ UNCHANGED <<attempt, reason, observed>>
           ELSE Hold(j, VersionError(v, j))
    BY <1>7 DEF ReadVersion
  <2>2. v \in Versions
    BY DEF TypeOK
  <2>3. CASE VersionError(v, j) = "none"
    BY <1>7, <2>1, <2>3 DEF TypeOK, ReadVersion, Ended
  <2>4. CASE VersionError(v, j) # "none"
    <3>1. VersionError(v, j) \in Errors /\ phase[j] \in Reading
      BY <1>7, <2>2, <2>4, VersionVerdict DEF ReadVersion, Errors, Retryable, Terminal, Reading
    <3>2. QED
      BY <1>7, <2>1, <2>4, <3>1, HoldStep DEF TypeOK, ReadVersion, Errors
  <2>5. QED
    BY <2>3, <2>4
<1>8. ASSUME NEW j \in Jobs, RequestFails(j)
      PROVE  TypeOK'
  <2>1. PICK error \in {"TRANSPORT_ERROR", "API_REFUSAL"} : Hold(j, error)
    BY <1>8 DEF RequestFails
  <2>2. error \in Errors /\ phase[j] \in Reading
    BY <1>8 DEF RequestFails, Errors, Retryable, Terminal, Reading
  <2>3. QED
    BY <1>8, <2>1, <2>2, HoldStep DEF TypeOK, RequestFails, Errors
<1>9. QED
  BY <1>1, <1>2, <1>3, <1>4, <1>5, <1>6, <1>7, <1>8 DEF Next, Readback

\* Every variable keeps its type.
THEOREM TypeCorrect == Spec => []TypeOK
<1>1. Init => TypeOK
  BY NumberAssumption DEF Init, TypeOK, Versions
<1>2. QED
  BY <1>1, TypeStep, PTL DEF Spec

-----------------------------------------------------------------------------
(* Between the two requests                                                *)

\* Every step keeps what the readback relies on.
LEMMA ReadStep == TypeOK /\ ReadInv /\ [Next]_vars => ReadInv'
<1> SUFFICES ASSUME TypeOK, ReadInv, [Next]_vars
             PROVE  ReadInv'
  OBVIOUS
<1> USE DEF Reading
<1>1. CASE UNCHANGED vars
  BY <1>1 DEF ReadInv, vars
<1>2. CASE Reroute \/ Propagate
  BY <1>2 DEF TypeOK, ReadInv, Reroute, Propagate, Route, Active
<1>3. ASSUME NEW j \in Jobs, Start(j)
      PROVE  ReadInv'
  BY <1>3 DEF TypeOK, ReadInv, Start
<1>4. ASSUME NEW j \in Jobs, Deploy(j)
      PROVE  ReadInv'
  <2>1. \A i \in Jobs \ {j} : phase[i] \notin Active
    BY <1>4 DEF ReadInv, Deploy, Active
  <2>2. \A i \in Jobs \ {j} : phase'[i] = phase[i]
    BY <1>4 DEF TypeOK, Deploy
  <2>3. phase'[j] = "listing" /\ traffic' \in observed'[j] /\ shown' \in observed'[j]
    BY <1>4 DEF TypeOK, Deploy
  <2>4. QED
    BY <2>1, <2>2, <2>3 DEF ReadInv, Active
<1>5. ASSUME NEW j \in Jobs, DeployFails(j)
      PROVE  ReadInv'
  BY <1>5 DEF TypeOK, ReadInv, DeployFails, Active
<1>6. ASSUME NEW j \in Jobs, NEW error \in Errors, phase[j] \in Reading, Hold(j, error),
             UNCHANGED <<traffic, shown>>, \A i \in Jobs \ {j} : listed'[i] = listed[i]
      PROVE  ReadInv'
  <2>1. /\ \A i \in Jobs \ {j} : phase'[i] = phase[i] /\ observed'[i] = observed[i]
        /\ \/ phase'[j] = "listing" /\ observed'[j] = {traffic, shown}
           \/ phase'[j] = "failed"
    BY <1>6, HoldStep
  <2>2. \A i \in Jobs \ {j} : phase[i] \notin Active
    BY <1>6 DEF ReadInv, Active
  <2>3. QED
    BY <1>6, <2>1, <2>2 DEF ReadInv, Active
<1>7. ASSUME NEW j \in Jobs, ListDeployments(j)
      PROVE  ReadInv'
  <2>1. shown \in SUBSET Versions
    BY DEF TypeOK
  <2>2. CASE RolloutError(shown) = "none"
    <3>1. PICK v \in shown : listed' = [listed EXCEPT ![j] = {v}]
      BY <1>7, <2>2 DEF ListDeployments
    <3>2. shown = {v} /\ v \in Versions
      BY <2>1, <2>2, <3>1, RolloutVerdict
    <3>3. {v} \in observed[j]
      BY <1>7, <3>2 DEF ReadInv, ListDeployments
    <3>4. QED
      BY <1>7, <2>2, <3>1, <3>2, <3>3 DEF TypeOK, ReadInv, ListDeployments, Active
  <2>3. CASE RolloutError(shown) # "none"
    BY <1>6, <1>7, <2>1, <2>3, RolloutVerdict DEF ListDeployments, Errors, Retryable
  <2>4. QED
    BY <2>2, <2>3
<1>8. ASSUME NEW j \in Jobs, ReadVersion(j)
      PROVE  ReadInv'
  <2>1. PICK v \in listed[j] :
           IF VersionError(v, j) = "none"
           THEN phase' = [phase EXCEPT ![j] = "passed"] /\ UNCHANGED <<attempt, reason, observed>>
           ELSE Hold(j, VersionError(v, j))
    BY <1>8 DEF ReadVersion
  <2>2. v \in Versions
    BY DEF TypeOK
  <2>3. CASE VersionError(v, j) = "none"
    BY <1>8, <2>1, <2>3 DEF TypeOK, ReadInv, ReadVersion, Active
  <2>4. CASE VersionError(v, j) # "none"
    BY <1>6, <1>8, <2>1, <2>2, <2>4, VersionVerdict
       DEF ReadVersion, Errors, Retryable, Terminal
  <2>5. QED
    BY <2>3, <2>4
<1>9. ASSUME NEW j \in Jobs, RequestFails(j)
      PROVE  ReadInv'
  BY <1>6, <1>9 DEF RequestFails, Errors, Retryable, Terminal
<1>10. QED
  BY <1>1, <1>2, <1>3, <1>4, <1>5, <1>7, <1>8, <1>9 DEF Next, Readback

\* Between its two requests a job relies on what its attempt has observed.
THEOREM ReadingCorrect == Spec => []ReadInv
<1>1. Init => ReadInv
  BY DEF Init, ReadInv, Active, Reading
<1>2. QED
  BY <1>1, ReadStep, TypeCorrect, PTL DEF Spec

-----------------------------------------------------------------------------
(* Verdicts                                                                *)

\* What PassedMeansServed, MismatchMeansReplaced and StableDeploymentPasses say
\* about one job.
Justified(j) ==
    /\ phase[j] = "passed" =>
          \E v \in Intact : RevisionOf[v] = RevisionOf[j] /\ {v} \in observed[j]
    /\ phase[j] = "failed" /\ reason[j] \in {"REVISION_MISMATCH", "REVISION_MISSING"} =>
          \E v \in Versions : {v} \in observed[j] /\ (v \in Unlabelled \/ RevisionOf[v] # RevisionOf[j])
    /\ phase[j] = "failed" /\ reason[j] # "DEPLOY_FAILED" /\ ~disturbed[j] /\ j \in Intact =>
          \/ reason[j] \in Retryable /\ observed[j] # {{j}}
          \/ \E v \in Versions \ Intact : {v} \in observed[j] /\ RevisionOf[v] = RevisionOf[j]

VerdictInv == \A j \in Jobs : Justified(j)

\* A job's verdict is final, and no other actor's step decides it.
LEMMA OthersRest ==
    ASSUME TypeOK, NEW j \in Jobs, [Next]_vars,
           ~ListDeployments(j), ~ReadVersion(j), ~RequestFails(j), ~DeployFails(j)
    PROVE  /\ phase'[j] \in Ended => phase[j] \in Ended
           /\ phase[j] \in Ended => /\ phase'[j] = phase[j] /\ reason'[j] = reason[j]
                                    /\ observed'[j] = observed[j] /\ disturbed'[j] = disturbed[j]
<1> USE DEF Ended
<1>1. CASE UNCHANGED vars
  BY <1>1 DEF vars
<1>2. CASE Reroute \/ Propagate
  BY <1>2 DEF TypeOK, Reroute, Propagate, Route
<1>3. ASSUME NEW k \in Jobs, Start(k) \/ Deploy(k) \/ DeployFails(k)
      PROVE  /\ phase'[j] \in Ended => phase[j] \in Ended
             /\ phase[j] \in Ended => /\ phase'[j] = phase[j] /\ reason'[j] = reason[j]
                                      /\ observed'[j] = observed[j] /\ disturbed'[j] = disturbed[j]
  BY <1>3 DEF TypeOK, Start, Deploy, DeployFails, Route
<1>4. ASSUME NEW k \in Jobs, ListDeployments(k) \/ ReadVersion(k) \/ RequestFails(k)
      PROVE  /\ phase'[j] = phase[j] /\ reason'[j] = reason[j]
             /\ observed'[j] = observed[j] /\ disturbed'[j] = disturbed[j]
  BY <1>4 DEF TypeOK, ListDeployments, ReadVersion, RequestFails, Hold
<1>5. QED
  BY <1>1, <1>2, <1>3, <1>4 DEF Next, Readback

\* Every step keeps the verdicts justified.
LEMMA VerdictStep == TypeOK /\ ReadInv /\ VerdictInv /\ [Next]_vars => VerdictInv'
<1> SUFFICES ASSUME TypeOK, ReadInv, VerdictInv, [Next]_vars, NEW j \in Jobs
             PROVE  Justified(j)'
  BY DEF VerdictInv
<1> USE DEF Reading
<1>1. CASE DeployFails(j)
  BY <1>1 DEF TypeOK, DeployFails, Justified
<1>2. CASE ListDeployments(j)
  <2>1. shown \in SUBSET Versions /\ shown \in observed[j]
    BY <1>2 DEF TypeOK, ReadInv, ListDeployments
  <2>2. CASE RolloutError(shown) = "none"
    BY <1>2, <2>2 DEF TypeOK, ListDeployments, Justified
  <2>3. CASE RolloutError(shown) # "none"
    <3>1. RolloutError(shown) \in {"NO_DEPLOYMENT", "NOT_FULLY_ROLLED_OUT"} /\ shown # {j}
      BY <2>1, <2>3, RolloutVerdict
    <3>2. Hold(j, RolloutError(shown)) /\ phase[j] \in Reading
      BY <1>2, <2>3 DEF ListDeployments
    <3>3. /\ phase'[j] \in {"listing", "failed"} /\ reason'[j] = RolloutError(shown)
          /\ phase'[j] = "failed" => observed'[j] = observed[j]
      BY <3>1, <3>2, HoldStep DEF Errors, Retryable
    <3>4. QED
      BY <2>1, <3>1, <3>3 DEF Justified, Retryable
  <2>4. QED
    BY <2>2, <2>3
<1>3. CASE ReadVersion(j)
  <2>1. PICK v \in Versions : listed[j] = {v} /\ {v} \in observed[j]
    BY <1>3 DEF ReadInv, ReadVersion
  <2>2. IF VersionError(v, j) = "none"
        THEN phase' = [phase EXCEPT ![j] = "passed"] /\ UNCHANGED <<attempt, reason, observed>>
        ELSE Hold(j, VersionError(v, j))
    BY <1>3, <2>1 DEF ReadVersion
  <2>3. CASE VersionError(v, j) = "none"
    <3>1. v \in Intact /\ RevisionOf[v] = RevisionOf[j]
      BY <2>3, VersionVerdict
    <3>2. phase'[j] = "passed" /\ observed'[j] = observed[j]
      BY <2>2, <2>3 DEF TypeOK
    <3>3. QED
      BY <2>1, <3>1, <3>2 DEF Justified
  <2>4. CASE VersionError(v, j) # "none"
    <3>1. VersionError(v, j) \in Errors
      BY <2>4, VersionVerdict DEF Errors, Retryable, Terminal
    <3>2. /\ phase'[j] \in {"listing", "failed"} /\ reason'[j] = VersionError(v, j)
          /\ phase'[j] = "failed" => observed'[j] = observed[j]
      BY <1>3, <2>2, <2>4, <3>1, HoldStep DEF ReadVersion
    <3>3. CASE VersionError(v, j) \in {"REVISION_MISSING", "REVISION_MISMATCH"}
      <4>1. v \in Unlabelled \/ RevisionOf[v] # RevisionOf[j]
        BY <3>3, VersionVerdict
      <4>2. j \in Intact => observed[j] # {{j}}
        BY <2>1, <4>1, VersionAssumption
      <4>3. QED
        BY <2>1, <3>2, <3>3, <4>1, <4>2 DEF Justified, Retryable
    <3>4. CASE VersionError(v, j) = "BINDING_MISSING"
      <4>1. v \notin Intact /\ RevisionOf[v] = RevisionOf[j]
        BY <3>4, VersionVerdict
      <4>2. QED
        BY <2>1, <3>2, <3>4, <4>1 DEF Justified
    <3>5. QED
      BY <2>4, <3>3, <3>4, VersionVerdict
  <2>5. QED
    BY <2>3, <2>4
<1>4. CASE RequestFails(j)
  <2>1. PICK error \in {"TRANSPORT_ERROR", "API_REFUSAL"} : Hold(j, error)
    BY <1>4 DEF RequestFails
  <2>2. phase'[j] \in {"listing", "failed"} /\ reason'[j] = error
    BY <1>4, <2>1, HoldStep DEF RequestFails, Errors, Retryable, Terminal
  <2>3. disturbed'[j] = TRUE
    BY <1>4 DEF TypeOK, RequestFails
  <2>4. QED
    BY <2>1, <2>2, <2>3 DEF Justified
<1>5. CASE ~DeployFails(j) /\ ~ListDeployments(j) /\ ~ReadVersion(j) /\ ~RequestFails(j)
  BY <1>5, OthersRest DEF VerdictInv, Justified, Ended
<1>6. QED
  BY <1>1, <1>2, <1>3, <1>4, <1>5

\* Every verdict is justified by what the job's last attempt observed.
THEOREM VerdictsJustified == Spec => []VerdictInv
<1>1. Init => VerdictInv
  BY DEF Init, VerdictInv, Justified
<1>2. QED
  BY <1>1, VerdictStep, TypeCorrect, ReadingCorrect, PTL DEF Spec

\* A job passes only for a commit that served during the attempt that passed, or
\* was still shown when it began.
THEOREM PassedServed == Spec => []PassedMeansServed
<1>1. VerdictInv => PassedMeansServed
  BY DEF VerdictInv, Justified, PassedMeansServed
<1>2. QED
  BY <1>1, VerdictsJustified, PTL

\* A job fails for its revision only if another one served during its last attempt,
\* or was still shown when it began.
THEOREM MismatchReplaced == Spec => []MismatchMeansReplaced
<1>1. VerdictInv => MismatchMeansReplaced
  BY DEF VerdictInv, Justified, MismatchMeansReplaced
<1>2. QED
  BY <1>1, VerdictsJustified, PTL

\* An intact deployment nobody touches, which the API shows without failures, is
\* not refused.
THEOREM StablePasses == Spec => []StableDeploymentPasses
<1>1. VerdictInv => StableDeploymentPasses
  BY DEF VerdictInv, Justified, StableDeploymentPasses
<1>2. QED
  BY <1>1, VerdictsJustified, PTL

=============================================================================
