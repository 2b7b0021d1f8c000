---------------------------- MODULE VerifyChain ----------------------------
(***************************************************************************)
(* scripts/verify_chain.py over a run directory that is recorded step by   *)
(* step, published, and then edited: files of the run are the variables,   *)
(* and Verifies is what verify_run decides about them.                     *)
(*                                                                         *)
(* Abstractions: a value of the wrong JSON type, in the wrong format or    *)
(* missing is Invalid; a line that is blank or no JSON object is Invalid   *)
(* as a whole; of the fields of a record only those verify_run reads are   *)
(* kept.  The recording of a run is not in the repository: Record and      *)
(* Publish make what the run in runs/ looks like.                          *)
(***************************************************************************)
EXTENDS Integers, Sequences, SequencesExt

CONSTANTS
    Hashes,      \* state hashes in the published format
    MaxSteps,    \* bound: steps of a run
    MaxEdits,    \* bound: edits after publication
    Invalid,     \* a value or a line that is not what it should be
    QuotedFalse, \* the JSON string "false", where a boolean should be
    Missing      \* a file that is not there

ASSUME BoundsAssumption == MaxSteps \in Nat \ {0} /\ MaxEdits \in Nat

VARIABLES
    ledger,       \* proof_ledger.jsonl
    trace,        \* trace.jsonl; its receipt_id and mocked are of decision_receipt
    manifest,     \* final_state_hash of run_manifest.json
    last,         \* last_receipt of decision_receipt.json
    published,    \* the files as they were published
    edits         \* number of edits since

files == <<ledger, trace, manifest, last>>

chainVars == <<ledger, trace, manifest, last, published, edits>>

\* A receipt is named by the step that issued it; 0 is one the run never issued.
Receipts == 0 .. MaxSteps
Steps == 0 .. MaxSteps + 1

Postures == BOOLEAN \cup {Invalid, QuotedFalse}

LedgerRecord == [step: Steps \cup {Invalid}, state_hash: Hashes \cup {Invalid}, receipt_id: Receipts]
TraceRecord == [step: Steps \cup {Invalid}, state_prev_hash: Hashes \cup {Invalid},
                state_next_hash: Hashes \cup {Invalid}, receipt_id: Receipts,
                mocked: Postures]
LastReceipt == [receipt_id: Receipts, mocked: Postures]

\* The marks are none of the values they stand in for.
ASSUME MarksAssumption ==
    /\ \A mark \in {Invalid, Missing} :
          mark \notin Hashes /\ mark \notin BOOLEAN /\ mark \notin LastReceipt
    /\ Invalid \notin Nat /\ Invalid \notin LedgerRecord /\ Invalid \notin TraceRecord
    /\ Invalid # Missing
    /\ QuotedFalse \notin BOOLEAN /\ QuotedFalse # Invalid

-----------------------------------------------------------------------------
(* verify_run                                                              *)

\* load_jsonl: every line is an object, and there is one.
Loads(records) == records # <<>> /\ \A i \in DOMAIN records : records[i] # Invalid

\* _check_contiguous_steps
Contiguous(records) == \A i \in DOMAIN records : records[i].step = i

\* The checks of step i, between the two files and to the span before it.
StepBinds(i) ==
    LET entry == ledger[i]
        span == trace[i]
    IN  /\ {entry.state_hash, span.state_prev_hash, span.state_next_hash} \subseteq Hashes
        /\ entry.receipt_id = span.receipt_id
        /\ span.mocked \in BOOLEAN
        /\ entry.state_hash = span.state_next_hash
        /\ i > 1 => span.state_prev_hash = trace[i - 1].state_next_hash

\* Mutant: the anchor is the first entry.
AnchoredFirst == manifest \in Hashes /\ manifest = Head(ledger).state_hash

\* The manifest names the state the run ended in.
Anchored == manifest \in Hashes /\ manifest = Last(ledger).state_hash

\* Mutant: the posture of the receipt is not compared.
ReceiptBindsId ==
    last # Missing => last # Invalid /\ last.receipt_id = Last(trace).receipt_id

\* A decision_receipt.json is optional, but is of the final span when it is there.
ReceiptBinds ==
    last # Missing =>
        /\ last # Invalid
        /\ last.mocked \in BOOLEAN
        /\ last.receipt_id = Last(trace).receipt_id
        /\ last.mocked = Last(trace).mocked

Verifies ==
    /\ Loads(ledger) /\ Loads(trace)
    /\ Contiguous(ledger) /\ Contiguous(trace)
    /\ Len(ledger) = Len(trace)
    /\ \A i \in DOMAIN ledger : StepBinds(i)
    /\ Anchored
    /\ ReceiptBinds

-----------------------------------------------------------------------------
(* The run directory                                                       *)

ChainTypeOK ==
    /\ \A i \in DOMAIN ledger : ledger[i] \in LedgerRecord \cup {Invalid}
    /\ \A i \in DOMAIN trace : trace[i] \in TraceRecord \cup {Invalid}
    /\ manifest \in Hashes \cup {Invalid, Missing}
    /\ last \in LastReceipt \cup {Invalid, Missing}
    /\ edits \in 0 .. MaxEdits

NotPublished == <<>>

ChainInit ==
    /\ ledger = <<>> /\ trace = <<>>
    /\ manifest = Missing /\ last = Missing
    /\ published = NotPublished
    /\ edits = 0

\* A step takes the state from `from`, where the step before it ended, to `to`.
Record(from, to, mocked) ==
    LET step == Len(ledger) + 1
    IN  /\ published = NotPublished
        /\ step <= MaxSteps
        /\ step > 1 => from = Last(trace).state_next_hash
        /\ ledger' = Append(ledger, [step |-> step, state_hash |-> to, receipt_id |-> step])
        /\ trace' = Append(trace, [step |-> step, state_prev_hash |-> from,
                                   state_next_hash |-> to, receipt_id |-> step, mocked |-> mocked])
        /\ UNCHANGED <<manifest, last, published, edits>>

Publish ==
    /\ published = NotPublished
    /\ ledger # <<>>
    /\ manifest' = Last(ledger).state_hash
    /\ last' = [receipt_id |-> Last(trace).receipt_id, mocked |-> Last(trace).mocked]
    /\ published' = <<ledger, trace, manifest', last'>>
    /\ UNCHANGED <<ledger, trace, edits>>

\* What one edit can make of a sequence of records: a line lost, broken, written
\* twice, out of order or made up, or one record changed to another one.
Dropped(s) == {RemoveAt(s, i) : i \in DOMAIN s}
Repeated(s) == {InsertAt(s, i, s[i]) : i \in DOMAIN s}
Swapped(s) == {[s EXCEPT ![i] = s[j], ![j] = s[i]] : i, j \in DOMAIN s}
Rewritten(s, i, values) == {[s EXCEPT ![i] = v] : v \in values}
EditsOf(s, changes(_)) ==
    Dropped(s) \cup Repeated(s) \cup Swapped(s)
    \cup UNION {Rewritten(s, i, {Invalid} \cup (IF s[i] = Invalid THEN {} ELSE changes(s[i]))) : i \in DOMAIN s}

LedgerChanges(e) ==
    {[e EXCEPT !.step = x] : x \in Steps \cup {Invalid}}
    \cup {[e EXCEPT !.state_hash = x] : x \in Hashes \cup {Invalid}}
    \cup {[e EXCEPT !.receipt_id = x] : x \in Receipts}

TraceChanges(e) ==
    {[e EXCEPT !.step = x] : x \in Steps \cup {Invalid}}
    \cup {[e EXCEPT !.state_prev_hash = x] : x \in Hashes \cup {Invalid}}
    \cup {[e EXCEPT !.state_next_hash = x] : x \in Hashes \cup {Invalid}}
    \cup {[e EXCEPT !.receipt_id = x] : x \in Receipts}
    \cup {[e EXCEPT !.mocked = x] : x \in Postures}

\* One file of a published run is changed.
Edit ==
    /\ published # NotPublished
    /\ edits < MaxEdits
    /\ edits' = edits + 1
    /\ \/ ledger' \in EditsOf(ledger, LedgerChanges) /\ UNCHANGED <<trace, manifest, last>>
       \/ trace' \in EditsOf(trace, TraceChanges) /\ UNCHANGED <<ledger, manifest, last>>
       \/ manifest' \in Hashes \cup {Invalid, Missing} /\ UNCHANGED <<ledger, trace, last>>
       \/ last' \in LastReceipt \cup {Invalid, Missing} /\ UNCHANGED <<ledger, trace, manifest>>
    /\ files' # files
    /\ UNCHANGED published

ChainNext ==
    \/ \E from, to \in Hashes, mocked \in BOOLEAN : Record(from, to, mocked)
    \/ Publish
    \/ Edit

-----------------------------------------------------------------------------
(* Properties                                                              *)

\* A run that was recorded in order and not edited verifies.
PublishedRunVerifies == published # NotPublished /\ edits = 0 => Verifies

\* What an edit cannot change unnoticed: the steps, the states they ended in,
\* the receipts they issued, the links between them, and the posture of the
\* last one (when decision_receipt.json is still there to compare with).
Bound(run) ==
    [steps |-> Len(run[1]),
     states |-> [i \in DOMAIN run[1] |-> run[1][i].state_hash],
     ends |-> [i \in DOMAIN run[2] |-> run[2][i].state_next_hash],
     issued |-> [i \in DOMAIN run[2] |-> run[2][i].receipt_id],
     links |-> [i \in DOMAIN run[2] \ {1} |-> run[2][i].state_prev_hash],
     posture |-> Last(run[2]).mocked,
     anchor |-> run[3]]

\* "Tampered, truncated or re-ordered records are rejected, never skipped": after
\* one edit, a run that still verifies is the published one in everything above.
OneEditKeepsBound ==
    edits = 1 /\ Verifies => Bound(files) = Bound(published)

\* The header's "any edit to one record breaks a cross-referenced invariant", but
\* for the first state_prev_hash, which a test says is not anchored.
AnyEditDetected ==
    /\ edits = 1
    /\ ledger # published[1] \/ trace # published[2]
    /\ \A x \in Hashes : trace # [published[2] EXCEPT ![1].state_prev_hash = x]
    => ~Verifies

=============================================================================
