\* Two jobs with two attempts each, three older versions, and two changes by the
\* owner at any moment.
SPECIFICATION FairSpec
CONSTANTS
    job1 = job1
    job2 = job2
    stub = stub
    twin = twin
    bare = bare
    Jobs = {job1, job2}
    Older = {stub, twin, bare}
    RevisionOf <- MCRevisionOf
    Intact = {job1, job2, twin}
    Unlabelled = {stub}
    Attempts = 2
    Routings <- MCRoutings
    MaxChanges = 2
INVARIANTS
    TypeOK
    PassedMeansServed
    MismatchMeansReplaced
    StableDeploymentPasses
PROPERTY
    JobsEnd
CHECK_DEADLOCK FALSE
