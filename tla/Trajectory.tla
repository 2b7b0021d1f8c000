----------------------------- MODULE Trajectory -----------------------------
(***************************************************************************)
(* scripts/compile_evidence_trajectory.py beside the run it compiles.      *)
(* verify_run reads the four files one after another; compile_trajectory   *)
(* then reads three of them again and builds the graph of what it reads    *)
(* the second time; write_trajectory writes the bundle file by file.  The  *)
(* run may be recorded, published and edited between any two of these      *)
(* steps, and the compiler may crash before any of them and be started     *)
(* again over what it left.                                                *)
(*                                                                         *)
(* Abstractions: SHA-256 is injective, so a digest is what it was taken    *)
(* of; each artefact of the bundle carries the hash of its graph, so it is *)
(* that graph.  Of the nodes the graph keeps states and receipts, of the   *)
(* edges the path of the states and the final anchor; evidence and         *)
(* validators are only there or missing.  Texts in a format other than     *)
(* that of a state hash are left out.                                      *)
(***************************************************************************)
EXTENDS VerifyChain, FiniteSets

CONSTANTS
    None,        \* nothing verified, compiled or written yet
    Torn,        \* a file of the bundle that was being written at a crash
    MaxStarts    \* bound: how often the compiler is started

ASSUME StartsAssumption == MaxStarts \in Nat

\* What verify_run and compile_trajectory return.
Summaries == [steps: Steps \ {0}, final: Hashes]
Graphs ==
    [steps: Steps \ {0}, final: Hashes,
     path: Seq(Hashes \X Hashes),
     receipts: SUBSET [step: Steps, receipt_id: Receipts, mocked: BOOLEAN],
     postures: SUBSET BOOLEAN,
     anchor: Hashes]

VARIABLES
    phase,       \* where the compiler is
    todo,        \* the files it reads or writes next, in order
    copy,        \* the files as it read them last
    verified,    \* what verify_run returned
    graph,       \* what compile_trajectory returned
    bundle,      \* the output directory
    starts       \* number of starts

compilerVars == <<phase, todo, copy, verified, graph, bundle, starts>>
vars == <<chainVars, compilerVars>>

Phases == {"idle", "verify", "compile", "write", "done", "failed"}
Artifacts == {"json", "markdown", "agents"}

\* None and Torn are nothing that is read, returned or written.
ASSUME FilesAssumption ==
    /\ None \notin TraceRecord /\ None \notin Summaries
    /\ \A mark \in {None, Torn} : mark \notin Graphs /\ mark \notin [Artifacts -> Graphs]

Verifying == <<"ledger", "trace", "manifest", "last">>
Compiling == <<"trace", "ledger", "manifest">>
Writing == <<"json", "markdown", "agents", "receipt">>

Unread == [ledger |-> <<>>, trace |-> <<>>, manifest |-> Missing, last |-> Missing]
Directory == [ledger |-> ledger, trace |-> trace, manifest |-> manifest, last |-> last]

\* verify_run over the copies it read.
Copied == INSTANCE VerifyChain WITH
    ledger <- copy.ledger, trace <- copy.trace, manifest <- copy.manifest, last <- copy.last

TypeOK ==
    /\ phase \in Phases
    /\ \E order \in {Verifying, Compiling, Writing} : IsSuffix(todo, order)
    /\ verified \in IF phase = "compile" THEN Summaries ELSE {None}
    /\ graph \in IF phase \in {"write", "done"} THEN Graphs ELSE {None}
    /\ DOMAIN bundle = Artifacts \cup {"receipt"}
    /\ starts \in 0 .. MaxStarts

Init ==
    /\ ChainInit
    /\ phase = "idle" /\ todo = <<>> /\ copy = Unread
    /\ verified = None /\ graph = None
    /\ bundle = [f \in Artifacts \cup {"receipt"} |-> None]
    /\ starts = 0

-----------------------------------------------------------------------------
(* What is decided about the second reading                                *)

\* Mutant: one step less, as of a file that begins with a header.
SummaryShort(entries) == [steps |-> Len(entries) - 1, final |-> Last(entries).state_hash]

\* What verify_run returns.
Summary(entries) == [steps |-> Len(entries), final |-> Last(entries).state_hash]

\* Mutant: the states need not be connected.
StepAlone(span, before) ==
    /\ {span.state_prev_hash, span.state_next_hash} \subseteq Hashes
    /\ span.mocked \in BOOLEAN

\* A span begins in the state the one before it ended in.
StepFollows(span, before) ==
    /\ {span.state_prev_hash, span.state_next_hash} \subseteq Hashes
    /\ span.mocked \in BOOLEAN
    /\ before # None => span.state_prev_hash = before.state_next_hash

States(spans) == UNION {{spans[i].state_prev_hash, spans[i].state_next_hash} : i \in DOMAIN spans}

\* The checks that stand between the second reading and the graph.
Compiles(spans, entries, final) ==
    /\ Loads(spans) /\ Loads(entries)
    /\ Len(spans) = verified.steps /\ Len(entries) = verified.steps
    /\ Contiguous(spans) /\ Contiguous(entries)
    /\ \A i \in DOMAIN spans : StepFollows(spans[i], IF i = 1 THEN None ELSE spans[i - 1])
    /\ final \in States(spans)

Path(spans) == [i \in DOMAIN spans |-> <<spans[i].state_prev_hash, spans[i].state_next_hash>>]

\* The first span that carries a receipt makes its node; a later one with the
\* same receipt adds none.
ReceiptNodes(spans) ==
    {[step |-> i, receipt_id |-> spans[i].receipt_id, mocked |-> spans[i].mocked] :
        i \in {j \in DOMAIN spans : \A k \in 1 .. j - 1 : spans[k].receipt_id # spans[j].receipt_id}}

\* steps and final are those verify_run returned, the rest is of the second reading.
Graph(spans, final) ==
    [steps |-> verified.steps, final |-> verified.final,
     path |-> Path(spans),
     receipts |-> ReceiptNodes(spans),
     postures |-> {spans[i].mocked : i \in DOMAIN spans},
     anchor |-> final]

-----------------------------------------------------------------------------
(* The compiler                                                            *)

Start ==
    /\ phase \in {"idle", "done", "failed"}
    /\ starts < MaxStarts
    /\ phase' = "verify" /\ todo' = Verifying /\ graph' = None
    /\ starts' = starts + 1
    /\ UNCHANGED <<chainVars, copy, verified, bundle>>

Read ==
    /\ phase \in {"verify", "compile"} /\ todo # <<>>
    /\ copy' = [copy EXCEPT ![Head(todo)] = Directory[Head(todo)]]
    /\ todo' = Tail(todo)
    /\ UNCHANGED <<chainVars, phase, verified, graph, bundle, starts>>

\* A refusal writes nothing; what an earlier start wrote stays.
Refuse ==
    /\ phase' = "failed" /\ todo' = <<>>
    /\ copy' = Unread /\ verified' = None
    /\ UNCHANGED <<chainVars, graph, bundle, starts>>

Verify ==
    /\ phase = "verify" /\ todo = <<>>
    /\ \/ /\ Copied!Verifies
          /\ phase' = "compile" /\ todo' = Compiling
          /\ copy' = Unread /\ verified' = Summary(copy.ledger)
          /\ UNCHANGED <<chainVars, graph, bundle, starts>>
       \/ ~Copied!Verifies /\ Refuse

\* Evidence or validators of a step may be missing: every run may be refused.
Compile ==
    /\ phase = "compile" /\ todo = <<>>
    /\ \/ /\ Compiles(copy.trace, copy.ledger, copy.manifest)
          /\ phase' = "write" /\ todo' = Writing
          /\ graph' = Graph(copy.trace, copy.manifest)
          /\ copy' = Unread /\ verified' = None
          /\ UNCHANGED <<chainVars, bundle, starts>>
       \/ Refuse

\* Mutant: the receipt covers the two projections only.
ReceiptOfProjections == [f \in {"markdown", "agents"} |-> graph]

\* The digests are of the bytes that were written, not of the files.
ReceiptOf == [f \in Artifacts |-> graph]

Write ==
    /\ phase = "write"
    /\ bundle' = [bundle EXCEPT ![Head(todo)] = IF Head(todo) = "receipt" THEN ReceiptOf ELSE graph]
    /\ todo' = Tail(todo)
    /\ phase' = IF todo' = <<>> THEN "done" ELSE "write"
    /\ UNCHANGED <<chainVars, copy, verified, graph, starts>>

\* The file being written is left torn, or not touched yet.
Crash ==
    /\ phase \in {"verify", "compile", "write"}
    /\ phase' = "idle" /\ todo' = <<>>
    /\ copy' = Unread /\ verified' = None /\ graph' = None
    /\ \/ phase = "write" /\ bundle' = [bundle EXCEPT ![Head(todo)] = Torn]
       \/ UNCHANGED bundle
    /\ UNCHANGED <<chainVars, starts>>

Compiler == Start \/ Read \/ Verify \/ Compile \/ Write \/ Crash

Next == Compiler \/ (ChainNext /\ UNCHANGED compilerVars)

Spec == Init /\ [][Next]_vars

-----------------------------------------------------------------------------
(* Properties                                                              *)

\* One edit, at any time, before, between or after the two readings, changes of
\* the graph's path only its two ends: the state the run began in, which nothing
\* repeats, and the one it ended in, when the anchor occurs elsewhere in the path.
\* Every state in between is the one that was published, on both sides of it; the
\* final hash reported as verified is the published one; an anchor that is not
\* that hash stands in a path nobody edited.
OneEditKeepsPath ==
    graph # None /\ published # NotPublished /\ edits <= 1 =>
        LET path == Path(published[2])
            n == Len(path)
        IN  /\ graph.steps = n /\ Len(graph.path) = n
            /\ graph.final = published[3]
            /\ \A i \in 1 .. n - 1 :
                  graph.path[i][2] = path[i][2] /\ graph.path[i + 1][1] = path[i + 1][1]
            /\ graph.anchor # graph.final => graph.path = path

\* A receipt matches the files beside it when their digests are those it lists.
Matches ==
    /\ bundle["receipt"] \notin {None, Torn}
    /\ \A f \in DOMAIN bundle["receipt"] : bundle[f] = bundle["receipt"][f]

\* A bundle whose receipt matches is of one graph, also after crashes between the
\* four writes and compilations of an edited run; one that was finished matches.
MatchingBundleIsOneGraph ==
    /\ Matches => \E f \in Artifacts : \A g \in Artifacts : bundle[g] = bundle[f]
    /\ phase = "done" => Matches /\ bundle["json"] = graph

=============================================================================
