---------------------------- MODULE PublishedRun ----------------------------
(***************************************************************************)
(* A published run and everybody in the repository who looks at it: the    *)
(* verifier, which is a predicate on its files, the buyer's script and the *)
(* trajectory compiler, each reading the files one by one while the run    *)
(* may be edited.  The readers write nothing the others read, so what they *)
(* see together is what each sees alone: `audience` says which of them     *)
(* look at the run, and a behaviour without the other one is a behaviour   *)
(* in which the other one is not started.                                  *)
(***************************************************************************)
EXTENDS Trajectory

CONSTANTS
    Audiences,   \* the sets of readers to consider
    Unknown      \* the "unknown" jq falls back on

VARIABLES
    audience,                             \* who looks at the run
    step, key, receipt, signature, lean   \* the buyer's script

Buyer == INSTANCE BuyerCheck

scriptVars == <<step, key, receipt, signature, lean>>
runVars == <<vars, audience, scriptVars>>

RunTypeOK ==
    /\ audience \in Audiences
    /\ TypeOK
    /\ "buyer" \in audience => Buyer!TypeOK

RunInit == Init /\ Buyer!Init /\ audience \in Audiences

RunNext ==
    /\ UNCHANGED audience
    /\ \/ ChainNext /\ UNCHANGED <<compilerVars, scriptVars>>
       \/ "compiler" \in audience /\ Compiler /\ UNCHANGED scriptVars
       \/ "buyer" \in audience /\ Buyer!Script /\ UNCHANGED compilerVars

RunSpec == RunInit /\ [][RunNext]_runVars

-----------------------------------------------------------------------------
(* Properties; those of the verifier and the compiler are in their modules  *)

\* The script never vouches for a run that is flagged as mocked, whenever the
\* run is published, edited or fetched meanwhile; without a key or a receipt it
\* vouches for nothing.
NeverVouchesForMocked == Buyer!NeverVouchesForMocked

=============================================================================
