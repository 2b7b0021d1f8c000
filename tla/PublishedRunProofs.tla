------------------------- MODULE PublishedRunProofs -------------------------
(***************************************************************************)
(* Proofs about PublishedRun: what verifier, script and compiler see of a  *)
(* run of any length over any states, published and edited at any moment.  *)
(***************************************************************************)
EXTENDS PublishedRun, SequenceTheorems, TLAPS

-----------------------------------------------------------------------------
(* The run directory                                                       *)

Lines == Seq(LedgerRecord \cup {Invalid})
Spans == Seq(TraceRecord \cup {Invalid})
Anchors == Hashes \cup {Invalid, Missing}
FinalReceipts == LastReceipt \cup {Invalid, Missing}

\* The two files of a run that was recorded in order, record by record.
Recorded(entries, spans) ==
    /\ entries \in Seq(LedgerRecord) /\ spans \in Seq(TraceRecord)
    /\ Len(entries) = Len(spans) /\ Len(entries) <= MaxSteps
    /\ \A i \in 1 .. Len(spans) :
          /\ entries[i].step = i /\ spans[i].step = i
          /\ entries[i].receipt_id = i /\ spans[i].receipt_id = i
          /\ entries[i].state_hash = spans[i].state_next_hash
          /\ {spans[i].state_prev_hash, spans[i].state_next_hash} \subseteq Hashes
          /\ spans[i].mocked \in BOOLEAN
          /\ i > 1 => spans[i].state_prev_hash = spans[i - 1].state_next_hash

\* The file that one edit changed, with the others as they were published.
OneFileEdited ==
    \/ ledger \in EditsOf(published[1], LedgerChanges)
       /\ trace = published[2] /\ manifest = published[3] /\ last = published[4]
    \/ trace \in EditsOf(published[2], TraceChanges)
       /\ ledger = published[1] /\ manifest = published[3] /\ last = published[4]
    \/ ledger = published[1] /\ trace = published[2] /\ last = published[4]
    \/ ledger = published[1] /\ trace = published[2] /\ manifest = published[3]

RecordingInv ==
    published = NotPublished =>
        Recorded(ledger, trace) /\ manifest = Missing /\ last = Missing /\ edits = 0

PublishedInv ==
    published # NotPublished =>
        /\ published = <<published[1], published[2], published[3], published[4]>>
        /\ Recorded(published[1], published[2]) /\ published[1] # <<>>
        /\ published[3] = Last(published[1]).state_hash
        /\ published[4] = [receipt_id |-> Last(published[2]).receipt_id,
                           mocked |-> Last(published[2]).mocked]
        /\ edits = 0 => files = published
        /\ edits = 1 => OneFileEdited

FilesInv ==
    /\ ledger \in Lines /\ trace \in Spans /\ manifest \in Anchors /\ last \in FinalReceipts
    /\ edits \in 0 .. MaxEdits
    /\ RecordingInv
    /\ PublishedInv

-----------------------------------------------------------------------------
(* The compiler                                                            *)

\* What is still to be read or written in each phase.
VerifyTodos == {Verifying, <<"trace", "manifest", "last">>, <<"manifest", "last">>, <<"last">>, <<>>}
CompileTodos == {Compiling, <<"ledger", "manifest">>, <<"manifest">>, <<>>}
WriteTodos == {Writing, <<"markdown", "agents", "receipt">>, <<"agents", "receipt">>, <<"receipt">>}

\* The types, and what each phase has in hand.
PhaseInv ==
    /\ phase \in Phases
    /\ todo \in CASE phase = "verify" -> VerifyTodos
                  [] phase = "compile" -> CompileTodos
                  [] phase = "write" -> WriteTodos
                  [] OTHER -> {<<>>}
    /\ copy \in [ledger: Lines, trace: Spans, manifest: Anchors, last: FinalReceipts]
    /\ phase \notin {"verify", "compile"} => copy = Unread
    /\ verified \in IF phase = "compile" THEN Summaries ELSE {None}
    /\ graph \in IF phase \in {"write", "done"} THEN Graphs ELSE {None}
    /\ bundle \in [Artifacts \cup {"receipt"} ->
                      Graphs \cup [Artifacts -> Graphs] \cup {None, Torn}]
    /\ starts \in 0 .. MaxStarts

\* A receipt lists one graph; what is written already is the present one.
BundleInv ==
    /\ bundle["receipt"] \notin {None, Torn} =>
          bundle["receipt"] = [f \in Artifacts |-> bundle["receipt"]["json"]]
    /\ phase = "write" =>
          /\ todo # Writing => bundle["json"] = graph
          /\ todo \in {<<"agents", "receipt">>, <<"receipt">>} => bundle["markdown"] = graph
          /\ todo = <<"receipt">> => bundle["agents"] = graph
    /\ phase = "done" =>
          (\A f \in Artifacts : bundle[f] = graph) /\ bundle["receipt"] = ReceiptOf

\* A file as it was read while the run was still recorded.
Begins(s, t) == Len(s) <= Len(t) /\ \A i \in 1 .. Len(s) : s[i] = t[i]

\* What the first reading can have seen: of every file the published form, a
\* beginning of it or the edited form; decision_receipt.json is read last, so
\* that it is there when the manifest was.
CopyInv ==
    /\ published = NotPublished =>
          /\ phase \in {"idle", "verify", "failed"}
          /\ Begins(copy.ledger, ledger) /\ Begins(copy.trace, trace)
          /\ copy.manifest = Missing /\ copy.last = Missing
    /\ published # NotPublished /\ edits <= 1 =>
          /\ copy.ledger = ledger \/ Begins(copy.ledger, published[1])
          /\ copy.trace = trace \/ Begins(copy.trace, published[2])
          /\ copy.manifest \in {Missing, published[3], manifest}
          /\ copy.last \in {Missing, published[4], last}
          /\ phase = "verify" /\ todo = <<>> /\ copy.manifest # Missing =>
                copy.last \in {published[4], last}

\* What is known of the second reading: verify_run found all the steps, unless
\* the one edit was of decision_receipt.json.
VerifiedInv ==
    phase = "compile" /\ edits <= 1 =>
        /\ verified.final = published[3]
        /\ \/ verified.steps = Len(published[1])
           \/ /\ edits = 1
              /\ ledger = published[1] /\ trace = published[2] /\ manifest = published[3]
        /\ todo # Compiling => copy.trace \in {published[2], trace}
        /\ todo = <<>> => copy.manifest \in {published[3], manifest}

\* The script decides on the receipt it fetched.
ScriptInv ==
    /\ step \in {"key", "receipt", "mocked", "dsse", "lean", "summary", "VERIFIED", "failed"}
    /\ key \in {"none", "szl-lake", "github"}
    /\ receipt \in FinalReceipts
    /\ signature \in {"none"} \cup Buyer!SigResults
    /\ lean \in {"unknown", "ok", "unreachable"}
    /\ step \notin {"key", "failed"} => key # "none"
    /\ step \in {"dsse", "lean", "summary", "VERIFIED"} =>
          receipt \in LastReceipt /\ Buyer!PrintsFalse(receipt)
    /\ step = "mocked" => receipt # Missing

IInv ==
    /\ audience \in Audiences
    /\ FilesInv /\ PhaseInv /\ BundleInv /\ CopyInv /\ VerifiedInv /\ OneEditKeepsPath
    /\ ScriptInv

-----------------------------------------------------------------------------
(* Sequences of records and their edits                                    *)

\* A function on the first n numbers is a sequence of length n.
LEMMA FunctionIsSeq ==
    ASSUME NEW S, NEW n \in Nat, NEW f \in [1 .. n -> S]
    PROVE  f \in Seq(S) /\ Len(f) = n
<1>1. f \in Seq(S)
  BY SeqDef
<1>2. Len(f) \in Nat /\ 1 .. Len(f) = 1 .. n
  BY <1>1, LenProperties
<1>3. QED
  BY <1>1, <1>2

\* A sequence without one of its elements is one shorter.
LEMMA RemoveAtSeq ==
    ASSUME NEW S, NEW s \in Seq(S), NEW i \in DOMAIN s
    PROVE  RemoveAt(s, i) \in Seq(S) /\ Len(RemoveAt(s, i)) = Len(s) - 1
<1> DEFINE before == SubSeq(s, 1, i - 1)
           after == SubSeq(s, i + 1, Len(s))
<1>1. i \in 1 .. Len(s) /\ Len(s) \in Nat
  BY LenProperties
<1>2. before \in Seq(S) /\ Len(before) = i - 1
  BY <1>1, SubSeqProperties
<1>3. after \in Seq(S) /\ Len(after) = Len(s) - i
  BY <1>1, SubSeqProperties
<1>4. RemoveAt(s, i) = before \o after
  BY DEF RemoveAt
<1> HIDE DEF before, after
<1>5. before \o after \in Seq(S) /\ Len(before \o after) = Len(before) + Len(after)
  BY <1>2, <1>3, ConcatProperties
<1>6. QED
  BY <1>1, <1>2, <1>3, <1>4, <1>5

\* A sequence with one more element is one longer.
LEMMA InsertAtSeq ==
    ASSUME NEW S, NEW s \in Seq(S), NEW i \in 1 .. Len(s) + 1, NEW e \in S
    PROVE  InsertAt(s, i, e) \in Seq(S) /\ Len(InsertAt(s, i, e)) = Len(s) + 1
<1> DEFINE before == SubSeq(s, 1, i - 1)
           after == SubSeq(s, i, Len(s))
<1>1. i \in 1 .. Len(s) + 1 /\ Len(s) \in Nat
  BY LenProperties
<1>2. before \in Seq(S) /\ Len(before) = i - 1
  BY <1>1, SubSeqProperties
<1>3. after \in Seq(S) /\ Len(after) = Len(s) - i + 1
  BY <1>1, SubSeqProperties
<1>4. InsertAt(s, i, e) = (before \o <<e>>) \o after
  BY DEF InsertAt
<1> HIDE DEF before, after
<1>5. before \o <<e>> \in Seq(S) /\ Len(before \o <<e>>) = i
  BY <1>1, <1>2, ConcatProperties
<1>6. /\ (before \o <<e>>) \o after \in Seq(S)
      /\ Len((before \o <<e>>) \o after) = Len(before \o <<e>>) + Len(after)
  BY <1>3, <1>5, ConcatProperties
<1>7. Len(before \o <<e>>) + Len(after) = Len(s) + 1
  BY <1>1, <1>3, <1>5
<1>8. QED
  BY <1>4, <1>6, <1>7, Zenon

\* A file whose lines are in S, after one edit.
Edited(S, s) ==
    Dropped(s) \cup Repeated(s) \cup Swapped(s) \cup UNION {Rewritten(s, i, S) : i \in DOMAIN s}

\* Two lines changed places, or one is another one.
Permuted(s, t) == \E i, j \in DOMAIN s : t = [s EXCEPT ![i] = s[j], ![j] = s[i]]
Replaced(S, s, t) == \E i \in DOMAIN s, v \in S : t = [s EXCEPT ![i] = v]

\* What one edit leaves of a file that is as long as it was.
LEMMA EditShape ==
    ASSUME NEW S, NEW s \in Seq(S), NEW t \in Edited(S, s)
    PROVE  /\ t \in Seq(S)
           /\ Len(t) = Len(s) => Permuted(s, t) \/ Replaced(S, s, t)
<1>1. DOMAIN s = 1 .. Len(s) /\ Len(s) \in Nat /\ \A i \in DOMAIN s : s[i] \in S
  BY LenProperties, ElementOfSeq
<1>2. CASE t \in Dropped(s)
  BY <1>1, <1>2, RemoveAtSeq DEF Dropped
<1>3. CASE t \in Repeated(s)
  BY <1>1, <1>3, InsertAtSeq DEF Repeated
<1>4. CASE t \in Swapped(s)
  <2>1. PICK i \in DOMAIN s, j \in DOMAIN s : t = [s EXCEPT ![i] = s[j], ![j] = s[i]]
    BY <1>4 DEF Swapped
  <2>2. t \in Seq(S)
    BY <1>1, <2>1, ExceptSeq
  <2>3. QED
    BY <2>1, <2>2 DEF Permuted
<1>5. CASE t \in UNION {Rewritten(s, i, S) : i \in DOMAIN s}
  <2>1. PICK i \in DOMAIN s, v \in S : t = [s EXCEPT ![i] = v]
    BY <1>5 DEF Rewritten
  <2>2. t \in Seq(S)
    BY <1>1, <2>1, ExceptSeq
  <2>3. QED
    BY <2>1, <2>2 DEF Replaced
<1>6. QED
  BY <1>2, <1>3, <1>4, <1>5 DEF Edited

\* An edit of proof_ledger.jsonl is one of these.
LEMMA LedgerEdits ==
    ASSUME NEW s \in Lines
    PROVE  EditsOf(s, LedgerChanges) \subseteq Edited(LedgerRecord \cup {Invalid}, s)
<1>1. \A i \in DOMAIN s : s[i] \in LedgerRecord \cup {Invalid}
  BY LenProperties, ElementOfSeq DEF Lines
<1>2. \A e \in LedgerRecord : LedgerChanges(e) \subseteq LedgerRecord
  BY DEF LedgerChanges, LedgerRecord
<1>3. QED
  BY <1>1, <1>2 DEF EditsOf, Edited, Rewritten

\* So is an edit of trace.jsonl.
LEMMA TraceEdits ==
    ASSUME NEW s \in Spans
    PROVE  EditsOf(s, TraceChanges) \subseteq Edited(TraceRecord \cup {Invalid}, s)
<1>1. \A i \in DOMAIN s : s[i] \in TraceRecord \cup {Invalid}
  BY LenProperties, ElementOfSeq DEF Spans
<1>2. \A e \in TraceRecord : TraceChanges(e) \subseteq TraceRecord
  BY DEF TraceChanges, TraceRecord
<1>3. QED
  BY <1>1, <1>2 DEF EditsOf, Edited, Rewritten

\* Two sequences differ in one element at most.
AllButOne(s, t) ==
    \E k \in 1 .. Len(s) : \A i \in 1 .. Len(s) : i # k => t[i] = s[i]

\* A recorded trace that was edited once, and still has its lines in order, is as
\* it was but for one line.
LEMMA EditedTrace ==
    ASSUME NEW entries, NEW spans, Recorded(entries, spans), spans # <<>>,
           NEW t \in Edited(TraceRecord \cup {Invalid}, spans),
           Contiguous(t), Len(t) = Len(spans)
    PROVE  AllButOne(spans, t)
<1>1. /\ spans \in Spans /\ DOMAIN spans = 1 .. Len(spans) /\ Len(spans) \in Nat \ {0}
      /\ \A i \in 1 .. Len(spans) : spans[i].step = i
  <2>1. spans \in Seq(TraceRecord)
    BY DEF Recorded
  <2>2. spans \in Spans
    BY <2>1, SeqMonotonic DEF Spans
  <2>3. QED
    BY <2>1, <2>2, LenProperties, EmptySeq DEF Recorded
<1>2. t \in Spans /\ (Permuted(spans, t) \/ Replaced(TraceRecord \cup {Invalid}, spans, t))
  BY <1>1, EditShape DEF Spans
<1>3. DOMAIN t = 1 .. Len(spans)
  BY <1>2, LenProperties DEF Spans
<1>4. CASE Permuted(spans, t)
  <2>1. PICK i \in DOMAIN spans, j \in DOMAIN spans :
              t = [spans EXCEPT ![i] = spans[j], ![j] = spans[i]]
    BY <1>4 DEF Permuted
  <2>2. t[j] = spans[i]
    BY <1>1, <2>1
  <2>3. t[j].step = j
    BY <1>1, <1>3 DEF Contiguous
  <2>4. i = j
    BY <1>1, <2>2, <2>3
  <2>5. QED
    BY <1>1, <2>1, <2>4 DEF AllButOne
<1>5. CASE Replaced(TraceRecord \cup {Invalid}, spans, t)
  BY <1>1, <1>5 DEF Replaced, AllButOne
<1>6. QED
  BY <1>2, <1>4, <1>5

-----------------------------------------------------------------------------
(* The run directory is recorded, published and edited                     *)

\* One step more, that begins where the one before it ended.
LEMMA RecordStep ==
    ASSUME FilesInv, NEW from \in Hashes, NEW to \in Hashes, NEW mocked \in BOOLEAN,
           Record(from, to, mocked)
    PROVE  FilesInv'
<1> DEFINE n == Len(ledger) + 1
           entry == [step |-> n, state_hash |-> to, receipt_id |-> n]
           span == [step |-> n, state_prev_hash |-> from, state_next_hash |-> to,
                    receipt_id |-> n, mocked |-> mocked]
<1>1. /\ published = NotPublished /\ n <= MaxSteps
      /\ n > 1 => from = Last(trace).state_next_hash
      /\ ledger' = Append(ledger, entry) /\ trace' = Append(trace, span)
      /\ UNCHANGED <<manifest, last, published, edits>>
  BY DEF Record
<1>2. Recorded(ledger, trace) /\ manifest = Missing /\ last = Missing /\ edits = 0
  BY <1>1 DEF FilesInv, RecordingInv
<1>3. /\ ledger \in Seq(LedgerRecord) /\ trace \in Seq(TraceRecord)
      /\ Len(ledger) \in Nat /\ Len(trace) = Len(ledger)
  BY <1>2, LenProperties DEF Recorded
<1>4. n \in Steps /\ n \in Receipts
  BY <1>1, <1>3, BoundsAssumption DEF Steps, Receipts
<1>5. entry \in LedgerRecord /\ span \in TraceRecord
  BY <1>4 DEF LedgerRecord, TraceRecord, Postures
<1> HIDE DEF entry, span
<1>6. /\ ledger' \in Seq(LedgerRecord) /\ Len(ledger') = n
      /\ trace' \in Seq(TraceRecord) /\ Len(trace') = n
      /\ \A i \in 1 .. n : /\ ledger'[i] = IF i = n THEN entry ELSE ledger[i]
                           /\ trace'[i] = IF i = n THEN span ELSE trace[i]
  BY <1>1, <1>3, <1>5, AppendProperties
<1>7. Recorded(ledger', trace')
  <2> SUFFICES ASSUME NEW i \in 1 .. n
               PROVE  /\ ledger'[i].step = i /\ trace'[i].step = i
                      /\ ledger'[i].receipt_id = i /\ trace'[i].receipt_id = i
                      /\ ledger'[i].state_hash = trace'[i].state_next_hash
                      /\ {trace'[i].state_prev_hash, trace'[i].state_next_hash} \subseteq Hashes
                      /\ trace'[i].mocked \in BOOLEAN
                      /\ i > 1 => trace'[i].state_prev_hash = trace'[i - 1].state_next_hash
    BY <1>1, <1>6 DEF Recorded
  <2>1. CASE i = n
    <3>1. ledger'[i] = entry /\ trace'[i] = span
      BY <1>6, <2>1
    <3>2. i > 1 => trace'[i - 1] = trace[Len(trace)]
      BY <1>3, <1>6, <2>1
    <3>3. /\ entry.step = n /\ entry.receipt_id = n /\ entry.state_hash = to
          /\ span.step = n /\ span.receipt_id = n /\ span.mocked = mocked
          /\ span.state_prev_hash = from /\ span.state_next_hash = to
      BY DEF entry, span
    <3>4. i > 1 => span.state_prev_hash = trace[Len(trace)].state_next_hash
      BY <1>1, <2>1, <3>3 DEF Last
    <3>5. QED
      BY <2>1, <3>1, <3>2, <3>3, <3>4
  <2>2. CASE i # n
    <3>1. i \in 1 .. Len(trace) /\ (i > 1 => i - 1 \in 1 .. n /\ i - 1 # n)
      BY <1>3, <2>2
    <3>2. /\ ledger'[i] = ledger[i] /\ trace'[i] = trace[i]
          /\ i > 1 => trace'[i - 1] = trace[i - 1]
      BY <1>6, <2>2, <3>1
    <3>3. QED
      BY <1>2, <3>1, <3>2 DEF Recorded
  <2>3. QED
    BY <2>1, <2>2
<1>8. ledger' \in Lines /\ trace' \in Spans
  BY <1>6, SeqMonotonic DEF Lines, Spans
<1>9. QED
  BY <1>1, <1>2, <1>7, <1>8 DEF FilesInv, RecordingInv, PublishedInv

\* What is published repeats what was recorded.
LEMMA PublishStep == FilesInv /\ Publish => FilesInv'
<1> SUFFICES ASSUME FilesInv, Publish
             PROVE  FilesInv'
  OBVIOUS
<1>1. /\ Recorded(ledger, trace) /\ edits = 0
      /\ published = NotPublished /\ ledger # <<>>
  BY DEF Publish, FilesInv, RecordingInv
<1>2. /\ manifest' = Last(ledger).state_hash
      /\ last' = [receipt_id |-> Last(trace).receipt_id, mocked |-> Last(trace).mocked]
      /\ published' = <<ledger, trace, manifest', last'>>
      /\ UNCHANGED <<ledger, trace, edits>>
  BY DEF Publish
<1>3. Len(trace) \in 1 .. Len(trace) /\ Len(trace) = Len(ledger) /\ Len(trace) <= MaxSteps
  BY <1>1, EmptySeq DEF Recorded
<1>4. /\ Last(ledger).state_hash \in Hashes
      /\ Last(trace).receipt_id = Len(trace) /\ Last(trace).mocked \in BOOLEAN
  BY <1>1, <1>3 DEF Recorded, Last
<1>5. Last(trace).receipt_id \in Receipts
  BY <1>3, <1>4, BoundsAssumption DEF Receipts
<1>6. last' \in LastReceipt
  BY <1>2, <1>4, <1>5 DEF LastReceipt, Postures
<1>7. published' # NotPublished /\ files' = published'
  BY <1>2 DEF NotPublished, files
<1>8. /\ published'[1] = ledger /\ published'[2] = trace
      /\ published'[3] = manifest' /\ published'[4] = last'
      /\ published' = <<published'[1], published'[2], published'[3], published'[4]>>
  BY <1>2
<1>9. PublishedInv'
  BY <1>1, <1>2, <1>7, <1>8 DEF PublishedInv
<1>10. QED
  BY <1>1, <1>2, <1>4, <1>6, <1>7, <1>9
  DEF FilesInv, RecordingInv, Anchors, FinalReceipts

\* An edit leaves three of the four files as they were.
LEMMA EditStep == FilesInv /\ Edit => FilesInv'
<1> SUFFICES ASSUME FilesInv, Edit
             PROVE  FilesInv'
  OBVIOUS
<1>1. /\ published # NotPublished /\ UNCHANGED published
      /\ edits < MaxEdits /\ edits' = edits + 1
  BY DEF Edit
<1>2. edits \in Nat /\ edits' \in 0 .. MaxEdits /\ edits' # 0
  BY <1>1, BoundsAssumption DEF FilesInv
<1>3. \A s \in Lines : EditsOf(s, LedgerChanges) \subseteq Lines
  BY LedgerEdits, EditShape DEF Lines
<1>4. \A s \in Spans : EditsOf(s, TraceChanges) \subseteq Spans
  BY TraceEdits, EditShape DEF Spans
<1>5. ledger' \in Lines /\ trace' \in Spans /\ manifest' \in Anchors /\ last' \in FinalReceipts
  BY <1>3, <1>4 DEF Edit, FilesInv, Anchors, FinalReceipts
<1>6. ASSUME edits = 0
      PROVE  OneFileEdited'
  <2>1. /\ ledger = published[1] /\ trace = published[2]
        /\ manifest = published[3] /\ last = published[4]
    BY <1>1, <1>6 DEF FilesInv, PublishedInv, files
  <2>2. QED
    BY <1>1, <2>1 DEF Edit, OneFileEdited
<1>7. PublishedInv'
  BY <1>1, <1>2, <1>6 DEF FilesInv, PublishedInv
<1>8. QED
  BY <1>1, <1>2, <1>5, <1>7 DEF FilesInv, RecordingInv

\* Nobody else writes the files.
LEMMA FilesKept == FilesInv /\ UNCHANGED chainVars => FilesInv'
<1> SUFFICES ASSUME FilesInv, UNCHANGED chainVars
             PROVE  FilesInv'
  OBVIOUS
<1>1. UNCHANGED <<ledger, trace, manifest, last, published, edits>>
  BY DEF chainVars
<1>2. QED
  BY <1>1 DEF FilesInv, RecordingInv, PublishedInv, OneFileEdited, files

\* A step of the whole is one of the run directory, or leaves it as it is.
LEMMA ChainOrNot == [RunNext]_runVars => ChainNext \/ UNCHANGED chainVars
<1>1. Buyer!Script => UNCHANGED chainVars
  BY DEF Buyer!Script, Buyer!FetchKey, Buyer!FetchReceipt, Buyer!CheckMocked,
         Buyer!CheckSignature, Buyer!ProbeKernel, Buyer!Summary, Buyer!chainVars, chainVars
<1>2. Compiler => UNCHANGED chainVars
  BY DEF Compiler, Start, Read, Verify, Compile, Refuse, Write, Crash
<1>3. UNCHANGED runVars => UNCHANGED chainVars
  BY DEF runVars, vars
<1>4. QED
  BY <1>1, <1>2, <1>3 DEF RunNext

LEMMA FilesInit == Init => FilesInv
<1> SUFFICES ASSUME Init
             PROVE  FilesInv
  OBVIOUS
<1>1. /\ ledger = <<>> /\ trace = <<>> /\ manifest = Missing /\ last = Missing
      /\ published = NotPublished /\ edits = 0
  BY DEF Init, ChainInit
<1>2. Recorded(<<>>, <<>>)
  BY EmptySeq, BoundsAssumption DEF Recorded
<1>3. QED
  BY <1>1, <1>2, EmptySeq, BoundsAssumption
  DEF FilesInv, Lines, Spans, Anchors, FinalReceipts, RecordingInv, PublishedInv

LEMMA FilesStep == FilesInv /\ [RunNext]_runVars => FilesInv'
BY ChainOrNot, RecordStep, PublishStep, EditStep, FilesKept DEF ChainNext

-----------------------------------------------------------------------------
(* The verifier                                                            *)

\* The decision receipt that is published is one.
LEMMA PublishedReceipt ==
    ASSUME FilesInv, published # NotPublished
    PROVE  published[4] \in LastReceipt /\ published[4] \notin {Invalid, Missing}
<1> DEFINE spans == published[2]
<1>1. /\ Recorded(published[1], spans) /\ published[1] # <<>>
      /\ published[4] = [receipt_id |-> Last(spans).receipt_id, mocked |-> Last(spans).mocked]
  BY DEF FilesInv, PublishedInv
<1>2. Len(spans) \in 1 .. Len(spans) /\ Len(spans) \in 0 .. MaxSteps
  BY <1>1, EmptySeq, BoundsAssumption DEF Recorded
<1>3. Last(spans).receipt_id \in Receipts /\ Last(spans).mocked \in Postures
  BY <1>1, <1>2 DEF Recorded, Last, Receipts, Postures
<1>4. published[4] \in LastReceipt
  BY <1>1, <1>3 DEF LastReceipt
<1>5. QED
  BY <1>4, MarksAssumption

\* A recorded run that is as it was published passes every check.
LEMMA RecordedVerifies == FilesInv => PublishedRunVerifies
<1> SUFFICES ASSUME FilesInv, published # NotPublished, edits = 0
             PROVE  Verifies
  BY DEF PublishedRunVerifies
<1>1. /\ Recorded(ledger, trace) /\ ledger # <<>>
      /\ manifest = Last(ledger).state_hash
      /\ last = [receipt_id |-> Last(trace).receipt_id, mocked |-> Last(trace).mocked]
  BY DEF FilesInv, PublishedInv, files
<1>2. /\ ledger \in Seq(LedgerRecord) /\ trace \in Seq(TraceRecord)
      /\ Len(trace) = Len(ledger) /\ Len(trace) \in 1 .. Len(trace)
      /\ DOMAIN ledger = 1 .. Len(trace) /\ DOMAIN trace = 1 .. Len(trace)
  BY <1>1, EmptySeq, LenProperties DEF Recorded
<1>3. Loads(ledger) /\ Loads(trace)
  BY <1>1, <1>2, ElementOfSeq, EmptySeq, MarksAssumption DEF Loads
<1>4. Contiguous(ledger) /\ Contiguous(trace)
  BY <1>1, <1>2 DEF Contiguous, Recorded
<1>5. \A i \in DOMAIN ledger : StepBinds(i)
  BY <1>1, <1>2 DEF StepBinds, Recorded
<1>6. Anchored
  BY <1>1, <1>2 DEF Anchored, Recorded, Last
<1>7. ReceiptBinds
  <2>1. Last(trace).mocked \in BOOLEAN
    BY <1>1, <1>2 DEF Last, Recorded
  <2>2. last.mocked = Last(trace).mocked /\ last.receipt_id = Last(trace).receipt_id
    BY <1>1
  <2>3. last \notin {Invalid, Missing}
    BY PublishedReceipt DEF FilesInv, PublishedInv, files
  <2>4. QED
    BY <2>1, <2>2, <2>3 DEF ReceiptBinds
<1>8. QED
  BY <1>2, <1>3, <1>4, <1>5, <1>6, <1>7 DEF Verifies

\* After one edit, a run that verifies is bound as it was: whichever file was
\* edited, the ones that were not repeat what it may not change.
LEMMA OneEditBound == FilesInv => OneEditKeepsBound
<1> SUFFICES ASSUME FilesInv, edits = 1, Verifies
             PROVE  Bound(files) = Bound(published)
  BY DEF OneEditKeepsBound
<1> DEFINE entries == published[1]
           spans == published[2]
           n == Len(spans)
<1>1. published # NotPublished
  BY DEF FilesInv, RecordingInv
<1>2. /\ Recorded(entries, spans) /\ entries # <<>>
      /\ published[3] = Last(entries).state_hash
      /\ published[4] = [receipt_id |-> Last(spans).receipt_id, mocked |-> Last(spans).mocked]
      /\ OneFileEdited
  BY <1>1 DEF FilesInv, PublishedInv
<1>3. /\ entries \in Seq(LedgerRecord) /\ spans \in Seq(TraceRecord)
      /\ Len(entries) = n /\ n \in Nat /\ n \in 1 .. n
      /\ DOMAIN entries = 1 .. n /\ DOMAIN spans = 1 .. n
  BY <1>2, EmptySeq, LenProperties DEF Recorded
<1>4. /\ Len(ledger) = Len(trace) /\ DOMAIN ledger = 1 .. Len(ledger)
      /\ DOMAIN trace = 1 .. Len(trace) /\ Len(trace) \in Nat
      /\ \A i \in 1 .. Len(trace) : StepBinds(i)
      /\ Anchored /\ ReceiptBinds
  BY LenProperties DEF Verifies, FilesInv, Lines, Spans
<1>5. Len(ledger) = n /\ Len(trace) = n
  BY <1>2, <1>3, <1>4 DEF OneFileEdited
<1>6. /\ \A i \in 1 .. n : /\ ledger[i].state_hash = entries[i].state_hash
                          /\ trace[i].state_next_hash = spans[i].state_next_hash
                          /\ trace[i].receipt_id = spans[i].receipt_id
      /\ \A i \in (1 .. n) \ {1} : trace[i].state_prev_hash = spans[i].state_prev_hash
  <2>1. CASE ledger = entries
    <3>1. \A i \in 1 .. n : /\ trace[i].state_next_hash = spans[i].state_next_hash
                           /\ trace[i].receipt_id = spans[i].receipt_id
      BY <1>2, <1>4, <1>5, <2>1 DEF StepBinds, Recorded
    <3>2. ASSUME NEW i \in (1 .. n) \ {1}
          PROVE  trace[i].state_prev_hash = spans[i].state_prev_hash
      <4>1. i - 1 \in 1 .. n /\ i > 1
        BY <1>3
      <4>2. trace[i].state_prev_hash = trace[i - 1].state_next_hash
        BY <1>4, <1>5, <4>1 DEF StepBinds
      <4>3. spans[i].state_prev_hash = spans[i - 1].state_next_hash
        BY <1>2, <4>1 DEF Recorded
      <4>4. QED
        BY <3>1, <4>1, <4>2, <4>3
    <3>3. QED
      BY <2>1, <3>1, <3>2
  <2>2. CASE trace = spans
    BY <1>2, <1>4, <1>5, <2>2 DEF StepBinds, Recorded
  <2>3. QED
    BY <1>2, <2>1, <2>2 DEF OneFileEdited
<1>7. Last(trace).mocked = Last(spans).mocked
  <2>1. CASE trace = spans
    BY <2>1
  <2>2. CASE last = published[4]
    <3>1. last \in LastReceipt
      BY <1>1, <2>2, PublishedReceipt
    <3>2. QED
      BY <1>2, <1>4, <2>2, <3>1, MarksAssumption DEF ReceiptBinds
  <2>3. QED
    BY <1>2, <2>1, <2>2 DEF OneFileEdited
<1>8. manifest = published[3]
  BY <1>2, <1>3, <1>4, <1>5, <1>6 DEF Anchored, Last
<1>9. QED
  BY <1>3, <1>4, <1>5, <1>6, <1>7, <1>8 DEF Bound, files

-----------------------------------------------------------------------------
(* The script                                                              *)

\* A receipt flagged as mocked does not print "false".
LEMMA MockedIsSeen ==
    ASSUME NEW r \in LastReceipt, r.mocked = TRUE
    PROVE  ~Buyer!PrintsFalse(r)
<1>1. TRUE # Missing /\ TRUE # QuotedFalse
  BY MarksAssumption
<1>2. Buyer!Mocked(r) = TRUE
  BY <1>1 DEF Buyer!Mocked, Buyer!Alternative
<1>3. QED
  BY <1>1, <1>2 DEF Buyer!PrintsFalse

LEMMA ScriptStep == FilesInv /\ ScriptInv /\ [RunNext]_runVars => ScriptInv'
<1> SUFFICES ASSUME FilesInv, ScriptInv, [RunNext]_runVars
             PROVE  ScriptInv'
  OBVIOUS
<1>1. CASE UNCHANGED scriptVars
  BY <1>1 DEF ScriptInv, scriptVars, Buyer!PrintsFalse, Buyer!Mocked
<1>2. CASE Buyer!FetchKey
  BY <1>2 DEF ScriptInv, Buyer!FetchKey
<1>3. CASE Buyer!FetchReceipt
  BY <1>3 DEF ScriptInv, FilesInv, FinalReceipts, Buyer!FetchReceipt
<1>4. CASE Buyer!CheckMocked
  BY <1>4 DEF ScriptInv, FinalReceipts, Buyer!CheckMocked, Buyer!PrintsFalse, Buyer!Mocked
<1>5. CASE Buyer!CheckSignature
  BY <1>5 DEF ScriptInv, Buyer!CheckSignature, Buyer!PrintsFalse, Buyer!Mocked
<1>6. CASE Buyer!ProbeKernel
  BY <1>6 DEF ScriptInv, Buyer!ProbeKernel, Buyer!PrintsFalse, Buyer!Mocked
<1>7. CASE Buyer!Summary
  BY <1>7 DEF ScriptInv, Buyer!Summary, Buyer!PrintsFalse, Buyer!Mocked
<1>8. QED
  BY <1>1, <1>2, <1>3, <1>4, <1>5, <1>6, <1>7 DEF RunNext, runVars, Buyer!Script

LEMMA ScriptVouches == ScriptInv => NeverVouchesForMocked
<1> SUFFICES ASSUME ScriptInv, step = "VERIFIED"
             PROVE  key # "none" /\ receipt \in LastReceipt /\ receipt.mocked # TRUE
  BY DEF NeverVouchesForMocked, Buyer!NeverVouchesForMocked, Buyer!LastReceipt,
         Buyer!Receipts, Buyer!Postures, LastReceipt, Receipts, Postures
<1>1. key # "none" /\ receipt \in LastReceipt /\ Buyer!PrintsFalse(receipt)
  BY DEF ScriptInv
<1>2. QED
  BY <1>1, MockedIsSeen

-----------------------------------------------------------------------------
(* The compiler: types and phases                                          *)

\* What verify_run found of the four files it read.
LEMMA CopiedChecks ==
    ASSUME copy \in [ledger: Lines, trace: Spans, manifest: Anchors, last: FinalReceipts],
           Copied!Verifies,
           NEW n, n = Len(copy.ledger)
    PROVE  /\ n \in Steps \ {0} /\ n \in 1 .. n /\ Len(copy.trace) = n
           /\ \A i \in 1 .. n : /\ copy.ledger[i].step = i /\ copy.trace[i].step = i
                               /\ copy.ledger[i].receipt_id = copy.trace[i].receipt_id
           /\ copy.manifest \in Hashes /\ copy.manifest = copy.ledger[n].state_hash
           /\ copy.last # Missing =>
                 copy.last # Invalid /\ copy.last.receipt_id = copy.trace[n].receipt_id
<1>1. /\ copy.ledger \in Seq(LedgerRecord \cup {Invalid})
      /\ copy.trace \in Seq(TraceRecord \cup {Invalid})
  BY DEF Lines, Spans
<1>2. /\ n \in Nat /\ DOMAIN copy.ledger = 1 .. n
      /\ Len(copy.trace) \in Nat /\ DOMAIN copy.trace = 1 .. Len(copy.trace)
  BY <1>1, LenProperties
<1>3. /\ Copied!Loads(copy.ledger) /\ Len(copy.ledger) = Len(copy.trace)
      /\ Copied!Contiguous(copy.ledger) /\ Copied!Contiguous(copy.trace)
      /\ \A i \in DOMAIN copy.ledger : Copied!StepBinds(i)
      /\ Copied!Anchored /\ Copied!ReceiptBinds
  BY DEF Copied!Verifies
<1>4. n \in 1 .. n
  BY <1>1, <1>2, <1>3, EmptySeq DEF Copied!Loads
<1>5. n \in Steps \ {0}
  <2>1. copy.ledger[n] \in LedgerRecord /\ copy.ledger[n].step = n
    BY <1>1, <1>2, <1>3, <1>4, ElementOfSeq DEF Copied!Loads, Copied!Contiguous
  <2>2. n \in Steps \cup {Invalid}
    BY <2>1 DEF LedgerRecord
  <2>3. QED
    BY <1>2, <1>4, <2>2, MarksAssumption
<1>6. \A i \in 1 .. n : /\ copy.ledger[i].step = i /\ copy.trace[i].step = i
                       /\ copy.ledger[i].receipt_id = copy.trace[i].receipt_id
  BY <1>2, <1>3 DEF Copied!Contiguous, Copied!StepBinds
<1>7. QED
  BY <1>3, <1>4, <1>5, <1>6 DEF Copied!Anchored, Copied!ReceiptBinds, Copied!Last

\* What compile_trajectory found of the three files it read again.
LEMMA CompiledChecks ==
    ASSUME copy \in [ledger: Lines, trace: Spans, manifest: Anchors, last: FinalReceipts],
           Compiles(copy.trace, copy.ledger, copy.manifest),
           verified \in Summaries,
           NEW n, n = Len(copy.trace)
    PROVE  /\ n = verified.steps /\ n \in 1 .. n
           /\ copy.trace \in Seq(TraceRecord) /\ DOMAIN copy.trace = 1 .. n
           /\ Contiguous(copy.trace)
           /\ \A i \in 1 .. n :
                 /\ copy.trace[i].state_prev_hash \in Hashes
                 /\ copy.trace[i].state_next_hash \in Hashes
                 /\ copy.trace[i].mocked \in BOOLEAN
                 /\ i > 1 => copy.trace[i].state_prev_hash = copy.trace[i - 1].state_next_hash
           /\ copy.manifest \in States(copy.trace)
<1>1. copy.trace \in Seq(TraceRecord \cup {Invalid})
  BY DEF Spans
<1>2. n \in Nat /\ DOMAIN copy.trace = 1 .. n
  BY <1>1, LenProperties
<1>3. n = verified.steps /\ n \in 1 .. n
  BY <1>2, BoundsAssumption DEF Compiles, Summaries, Steps
<1>4. \A i \in 1 .. n : copy.trace[i] \in TraceRecord
  BY <1>1, <1>2, ElementOfSeq DEF Compiles, Loads
<1>5. copy.trace \in Seq(TraceRecord)
  <2>1. copy.trace \in [1 .. n -> TraceRecord]
    BY <1>1, <1>2, <1>4, LenProperties
  <2>2. QED
    BY <1>2, <2>1, FunctionIsSeq
<1>6. \A i \in 1 .. n :
         StepFollows(copy.trace[i], IF i = 1 THEN None ELSE copy.trace[i - 1])
  BY <1>2 DEF Compiles
<1>7. ASSUME NEW i \in 1 .. n
      PROVE  /\ copy.trace[i].state_prev_hash \in Hashes
             /\ copy.trace[i].state_next_hash \in Hashes
             /\ copy.trace[i].mocked \in BOOLEAN
             /\ i > 1 => copy.trace[i].state_prev_hash = copy.trace[i - 1].state_next_hash
  <2>1. /\ copy.trace[i].state_prev_hash \in Hashes
        /\ copy.trace[i].state_next_hash \in Hashes
        /\ copy.trace[i].mocked \in BOOLEAN
    BY <1>6 DEF StepFollows
  <2>2. ASSUME i > 1
        PROVE  copy.trace[i].state_prev_hash = copy.trace[i - 1].state_next_hash
    <3>1. i - 1 \in 1 .. n /\ i # 1
      BY <1>2, <2>2
    <3>2. copy.trace[i - 1] # None
      BY <1>4, <3>1, FilesAssumption
    <3>3. QED
      BY <1>6, <3>1, <3>2 DEF StepFollows
  <2>3. QED
    BY <2>1, <2>2
<1>8. QED
  BY <1>2, <1>3, <1>5, <1>7 DEF Compiles

\* compile_trajectory returns a graph.
LEMMA GraphType ==
    ASSUME copy \in [ledger: Lines, trace: Spans, manifest: Anchors, last: FinalReceipts],
           Compiles(copy.trace, copy.ledger, copy.manifest),
           verified \in Summaries
    PROVE  Graph(copy.trace, copy.manifest) \in Graphs
<1> DEFINE spans == copy.trace
           n == Len(spans)
<1>1. /\ n = verified.steps /\ n \in 1 .. n
      /\ spans \in Seq(TraceRecord) /\ DOMAIN spans = 1 .. n
      /\ \A i \in 1 .. n : /\ spans[i].state_prev_hash \in Hashes
                          /\ spans[i].state_next_hash \in Hashes
                          /\ spans[i].mocked \in BOOLEAN
      /\ copy.manifest \in States(spans)
  BY CompiledChecks
<1>2. Path(spans) \in Seq(Hashes \X Hashes)
  <2>1. n \in Nat
    BY <1>1
  <2>2. Path(spans) \in [1 .. n -> Hashes \X Hashes]
    BY <1>1 DEF Path
  <2>3. QED
    BY <2>1, <2>2, FunctionIsSeq
<1>3. ReceiptNodes(spans) \in SUBSET [step: Steps, receipt_id: Receipts, mocked: BOOLEAN]
  <2> SUFFICES ASSUME NEW i \in 1 .. n
               PROVE  [step |-> i, receipt_id |-> spans[i].receipt_id, mocked |-> spans[i].mocked]
                         \in [step: Steps, receipt_id: Receipts, mocked: BOOLEAN]
    BY <1>1 DEF ReceiptNodes
  <2>1. spans[i] \in TraceRecord
    BY <1>1, ElementOfSeq
  <2>2. spans[i].receipt_id \in Receipts
    BY <2>1 DEF TraceRecord
  <2>3. n \in 1 .. MaxSteps + 1
    BY <1>1, BoundsAssumption DEF Summaries, Steps
  <2>4. i \in Steps
    BY <2>3, BoundsAssumption DEF Steps
  <2>5. QED
    BY <1>1, <2>2, <2>4
<1>4. {spans[i].mocked : i \in DOMAIN spans} \in SUBSET BOOLEAN
  BY <1>1
<1>5. copy.manifest \in Hashes
  BY <1>1 DEF States
<1>6. verified.steps \in Steps \ {0} /\ verified.final \in Hashes
  BY DEF Summaries
<1>7. QED
  BY <1>2, <1>3, <1>4, <1>5, <1>6 DEF Graph, Graphs

\* What is left to do after each file.
LEMMA Tails ==
    /\ Tail(Verifying) = <<"trace", "manifest", "last">> /\ Head(Verifying) = "ledger"
    /\ Tail(<<"trace", "manifest", "last">>) = <<"manifest", "last">>
    /\ Head(<<"trace", "manifest", "last">>) = "trace"
    /\ Tail(<<"manifest", "last">>) = <<"last">> /\ Head(<<"manifest", "last">>) = "manifest"
    /\ Tail(<<"last">>) = <<>> /\ Head(<<"last">>) = "last"
    /\ Tail(Compiling) = <<"ledger", "manifest">> /\ Head(Compiling) = "trace"
    /\ Tail(<<"ledger", "manifest">>) = <<"manifest">> /\ Head(<<"ledger", "manifest">>) = "ledger"
    /\ Tail(<<"manifest">>) = <<>> /\ Head(<<"manifest">>) = "manifest"
    /\ Tail(Writing) = <<"markdown", "agents", "receipt">> /\ Head(Writing) = "json"
    /\ Tail(<<"markdown", "agents", "receipt">>) = <<"agents", "receipt">>
    /\ Head(<<"markdown", "agents", "receipt">>) = "markdown"
    /\ Tail(<<"agents", "receipt">>) = <<"receipt">> /\ Head(<<"agents", "receipt">>) = "agents"
    /\ Tail(<<"receipt">>) = <<>> /\ Head(<<"receipt">>) = "receipt"
BY DEF Verifying, Compiling, Writing

LEMMA Orders ==
    /\ \A s \in VerifyTodos \ {<<>>} :
          Tail(s) \in VerifyTodos /\ Head(s) \in {"ledger", "trace", "manifest", "last"}
    /\ \A s \in CompileTodos \ {<<>>} :
          Tail(s) \in CompileTodos /\ Head(s) \in {"ledger", "trace", "manifest"}
    /\ \A s \in WriteTodos :
          Tail(s) \in WriteTodos \cup {<<>>} /\ Head(s) \in Artifacts \cup {"receipt"}
    /\ <<>> \notin WriteTodos
<1>1. <<>> \notin WriteTodos
  BY DEF WriteTodos, Writing
<1>2. QED
  BY <1>1, Tails DEF VerifyTodos, CompileTodos, WriteTodos, Artifacts

\* Each action of the compiler keeps the types and what its phase has in hand.
LEMMA PhaseStep == FilesInv /\ PhaseInv /\ [RunNext]_runVars => PhaseInv'
<1> SUFFICES ASSUME FilesInv, PhaseInv, [RunNext]_runVars
             PROVE  PhaseInv'
  OBVIOUS
<1>1. CASE UNCHANGED compilerVars
  BY <1>1 DEF PhaseInv, compilerVars
<1>2. CASE Start
  <2>1. copy = Unread /\ verified = None
    BY <1>2 DEF Start, PhaseInv
  <2>2. starts' \in 0 .. MaxStarts
    BY <1>2, StartsAssumption DEF Start, PhaseInv
  <2>3. QED
    BY <1>2, <2>1, <2>2 DEF Start, PhaseInv, Phases, VerifyTodos
<1>3. CASE Read
  <2>1. copy' \in [ledger: Lines, trace: Spans, manifest: Anchors, last: FinalReceipts]
    <3>1. Head(todo) \in {"ledger", "trace", "manifest", "last"}
      BY <1>3, Orders DEF Read, PhaseInv
    <3>2. QED
      BY <1>3, <3>1 DEF Read, PhaseInv, FilesInv, Directory
  <2>2. CASE phase = "verify"
    BY <1>3, <2>1, <2>2, Orders DEF Read, PhaseInv
  <2>3. CASE phase = "compile"
    BY <1>3, <2>1, <2>3, Orders DEF Read, PhaseInv
  <2>4. QED
    BY <1>3, <2>2, <2>3 DEF Read
<1> DEFINE Refused == phase \in {"verify", "compile"} /\ Refuse
<1>4. CASE Refused
  <2>1. Unread \in [ledger: Lines, trace: Spans, manifest: Anchors, last: FinalReceipts]
    BY EmptySeq DEF Unread, Lines, Spans, Anchors, FinalReceipts
  <2>2. QED
    BY <1>4, <2>1 DEF Refuse, PhaseInv, Phases
<1>5. CASE Verify /\ ~Refused
  <2>1. /\ phase = "verify" /\ Copied!Verifies
        /\ phase' = "compile" /\ todo' = Compiling
        /\ copy' = Unread /\ verified' = Summary(copy.ledger)
        /\ UNCHANGED <<graph, bundle, starts>>
    BY <1>5 DEF Verify
  <2>2. Summary(copy.ledger) \in Summaries
    BY <2>1, CopiedChecks DEF PhaseInv, Summary, Summaries, Last
  <2>3. Unread \in [ledger: Lines, trace: Spans, manifest: Anchors, last: FinalReceipts]
    BY EmptySeq DEF Unread, Lines, Spans, Anchors, FinalReceipts
  <2>4. QED
    BY <2>1, <2>2, <2>3 DEF PhaseInv, Phases, CompileTodos
<1>6. CASE Compile /\ ~Refused
  <2>1. /\ phase = "compile" /\ Compiles(copy.trace, copy.ledger, copy.manifest)
        /\ phase' = "write" /\ todo' = Writing
        /\ graph' = Graph(copy.trace, copy.manifest)
        /\ copy' = Unread /\ verified' = None
        /\ UNCHANGED <<bundle, starts>>
    BY <1>6 DEF Compile
  <2>2. graph' \in Graphs
    BY <2>1, GraphType DEF PhaseInv
  <2>3. Unread \in [ledger: Lines, trace: Spans, manifest: Anchors, last: FinalReceipts]
    BY EmptySeq DEF Unread, Lines, Spans, Anchors, FinalReceipts
  <2>4. QED
    BY <2>1, <2>2, <2>3 DEF PhaseInv, Phases, WriteTodos
<1>7. CASE Write
  <2>1. /\ phase = "write" /\ graph \in Graphs /\ todo \in WriteTodos
        /\ UNCHANGED <<copy, verified, graph, starts>>
    BY <1>7 DEF Write, PhaseInv
  <2>2. bundle' \in [Artifacts \cup {"receipt"} ->
                        Graphs \cup [Artifacts -> Graphs] \cup {None, Torn}]
    BY <1>7, <2>1 DEF Write, PhaseInv, ReceiptOf
  <2>3. IF todo' = <<>> THEN phase' = "done" ELSE phase' = "write" /\ todo' \in WriteTodos
    BY <1>7, <2>1, Orders DEF Write
  <2>4. QED
    BY <2>1, <2>2, <2>3 DEF PhaseInv, Phases
<1>8. CASE Crash
  <2>1. Unread \in [ledger: Lines, trace: Spans, manifest: Anchors, last: FinalReceipts]
    BY EmptySeq DEF Unread, Lines, Spans, Anchors, FinalReceipts
  <2>2. bundle' \in [Artifacts \cup {"receipt"} ->
                        Graphs \cup [Artifacts -> Graphs] \cup {None, Torn}]
    BY <1>8 DEF Crash, PhaseInv
  <2>3. QED
    BY <1>8, <2>1, <2>2 DEF Crash, PhaseInv, Phases
<1>9. QED
  <2>1. Compiler => \/ Start \/ Read \/ Write \/ Crash \/ Refused
                    \/ (Verify /\ ~Refused) \/ (Compile /\ ~Refused)
    BY DEF Compiler
  <2>2. QED
    BY <1>1, <1>2, <1>3, <1>4, <1>5, <1>6, <1>7, <1>8, <2>1
    DEF RunNext, runVars, vars

-----------------------------------------------------------------------------
(* The compiler: the bundle                                                *)

\* A bundle is written for one graph, in order; a crash leaves a torn file.
LEMMA BundleStep == PhaseInv /\ BundleInv /\ [RunNext]_runVars => BundleInv'
<1> SUFFICES ASSUME PhaseInv, BundleInv, [RunNext]_runVars
             PROVE  BundleInv'
  OBVIOUS
<1>1. CASE UNCHANGED compilerVars
  BY <1>1 DEF BundleInv, ReceiptOf, compilerVars
<1>2. CASE Start \/ Read \/ (Verify /\ UNCHANGED graph)
  <2>1. UNCHANGED bundle /\ phase' \in {"verify", "compile", "failed"}
    BY <1>2 DEF Start, Read, Verify, Refuse
  <2>2. QED
    BY <2>1 DEF BundleInv
<1>3. CASE Compile
  <2>1. UNCHANGED bundle
    BY <1>3 DEF Compile, Refuse
  <2>2. phase' = "failed" \/ (phase' = "write" /\ todo' = Writing)
    BY <1>3 DEF Compile, Refuse
  <2>3. Writing \notin {<<"agents", "receipt">>, <<"receipt">>}
    BY DEF Writing
  <2>4. QED
    BY <2>1, <2>2, <2>3 DEF BundleInv
<1>4. CASE Write
  <2>1. /\ phase = "write" /\ todo \in WriteTodos /\ todo' = Tail(todo)
        /\ bundle' = [bundle EXCEPT ![Head(todo)] = IF Head(todo) = "receipt" THEN ReceiptOf ELSE graph]
        /\ phase' = IF todo' = <<>> THEN "done" ELSE "write"
        /\ graph' = graph /\ DOMAIN bundle = Artifacts \cup {"receipt"}
    BY <1>4 DEF Write, PhaseInv
  <2>2. CASE todo = Writing
    <3>1. /\ Head(todo) = "json" /\ todo' = <<"markdown", "agents", "receipt">> /\ phase' = "write"
          /\ todo' \notin {<<"agents", "receipt">>, <<"receipt">>}
      BY <2>1, <2>2, Tails
    <3>2. bundle'["json"] = graph /\ bundle'["receipt"] = bundle["receipt"]
      BY <2>1, <3>1 DEF Artifacts
    <3>3. QED
      BY <2>1, <3>1, <3>2 DEF BundleInv
  <2>3. CASE todo = <<"markdown", "agents", "receipt">>
    <3>1. /\ Head(todo) = "markdown" /\ todo' = <<"agents", "receipt">> /\ phase' = "write"
          /\ todo # Writing /\ todo' # <<"receipt">>
      BY <2>1, <2>3, Tails DEF Writing
    <3>2. /\ bundle'["markdown"] = graph /\ bundle'["json"] = bundle["json"]
          /\ bundle'["receipt"] = bundle["receipt"]
      BY <2>1, <3>1 DEF Artifacts
    <3>3. QED
      BY <2>1, <3>1, <3>2 DEF BundleInv
  <2>4. CASE todo = <<"agents", "receipt">>
    <3>1. /\ Head(todo) = "agents" /\ todo' = <<"receipt">> /\ phase' = "write"
          /\ todo # Writing
      BY <2>1, <2>4, Tails DEF Writing
    <3>2. /\ bundle'["agents"] = graph /\ bundle'["json"] = bundle["json"]
          /\ bundle'["markdown"] = bundle["markdown"] /\ bundle'["receipt"] = bundle["receipt"]
      BY <2>1, <3>1 DEF Artifacts
    <3>3. QED
      BY <2>1, <2>4, <3>1, <3>2 DEF BundleInv
  <2>5. CASE todo = <<"receipt">>
    <3>1. Head(todo) = "receipt" /\ todo' = <<>> /\ phase' = "done" /\ todo # Writing
      BY <2>1, <2>5, Tails DEF Writing
    <3>2. /\ bundle'["receipt"] = ReceiptOf
          /\ \A f \in Artifacts : bundle'[f] = bundle[f]
      BY <2>1, <3>1 DEF Artifacts
    <3>3. \A f \in Artifacts : bundle[f] = graph
      BY <2>1, <2>5, <3>1 DEF BundleInv, Artifacts
    <3>4. ReceiptOf = [f \in Artifacts |-> ReceiptOf["json"]] /\ ReceiptOf' = ReceiptOf
      BY <2>1 DEF ReceiptOf, Artifacts
    <3>5. QED
      BY <2>1, <3>1, <3>2, <3>3, <3>4 DEF BundleInv
  <2>6. QED
    BY <2>1, <2>2, <2>3, <2>4, <2>5 DEF WriteTodos
<1>5. CASE Crash
  <2>1. phase' = "idle"
    BY <1>5 DEF Crash
  <2>2. bundle'["receipt"] \in {bundle["receipt"], Torn}
    BY <1>5 DEF Crash, PhaseInv
  <2>3. QED
    BY <2>1, <2>2 DEF BundleInv
<1>6. QED
  <2>1. Verify => UNCHANGED graph
    BY DEF Verify, Refuse
  <2>2. QED
    BY <1>1, <1>2, <1>3, <1>4, <1>5, <2>1 DEF RunNext, runVars, vars, Compiler

\* When the digests match, all three artefacts are of the graph the receipt lists.
LEMMA BundleMatches == PhaseInv /\ BundleInv => MatchingBundleIsOneGraph
<1> SUFFICES ASSUME PhaseInv, BundleInv
             PROVE  MatchingBundleIsOneGraph
  OBVIOUS
<1>1. ASSUME Matches
      PROVE  \A f \in Artifacts : bundle[f] = bundle["json"]
  <2>1. bundle["receipt"] = [f \in Artifacts |-> bundle["receipt"]["json"]]
    BY <1>1 DEF Matches, BundleInv
  <2>2. \A f \in Artifacts : bundle[f] = bundle["receipt"]["json"]
    BY <1>1, <2>1 DEF Matches
  <2>3. QED
    BY <2>2 DEF Artifacts
<1>2. ASSUME phase = "done"
      PROVE  Matches /\ bundle["json"] = graph
  <2>1. /\ graph \in Graphs /\ bundle["receipt"] = ReceiptOf
        /\ \A f \in Artifacts : bundle[f] = graph
    BY <1>2 DEF PhaseInv, BundleInv
  <2>2. ReceiptOf \in [Artifacts -> Graphs]
    BY <2>1 DEF ReceiptOf
  <2>3. bundle["receipt"] \notin {None, Torn}
    BY <2>1, <2>2, FilesAssumption
  <2>4. QED
    BY <2>1, <2>3 DEF Matches, ReceiptOf, Artifacts
<1>3. "json" \in Artifacts
  BY DEF Artifacts
<1>4. QED
  BY <1>1, <1>2, <1>3 DEF MatchingBundleIsOneGraph

-----------------------------------------------------------------------------
(* Types                                                                   *)

FileNames == {"ledger", "trace", "manifest", "last", "json", "markdown", "agents", "receipt"}

\* The elements of s are the last ones of t.
Ends(s, t) ==
    /\ s \in Seq(FileNames) /\ t \in Seq(FileNames) /\ Len(s) <= Len(t)
    /\ \A i \in 1 .. Len(s) : s[Len(s) - i + 1] = t[Len(t) - i + 1]

LEMMA EndsSuffix == ASSUME NEW s, NEW t, Ends(s, t) PROVE IsSuffix(s, t)
<1> DEFINE r == Reverse(s)
           q == Reverse(t)
           m == Len(s)
           n == Len(t)
<1>1. /\ s \in Seq(FileNames) /\ t \in Seq(FileNames) /\ m \in Nat /\ n \in Nat /\ m <= n
      /\ \A i \in 1 .. m : s[m - i + 1] = t[n - i + 1]
  BY LenProperties DEF Ends
<1>2. r \in [1 .. m -> FileNames] /\ q \in [1 .. n -> FileNames]
  BY <1>1, ElementOfSeq DEF Reverse
<1>3. \A i \in 1 .. m : r[i] = q[i]
  BY <1>1 DEF Reverse
<1>4. IsSuffix(s, t) <=> IsPrefix(r, q)
  BY DEF IsSuffix
<1> HIDE DEF r, q
<1> HIDE DEF m, n
<1>5. /\ r \in Seq(FileNames) /\ Len(r) = m
      /\ q \in Seq(FileNames) /\ Len(q) = n
  BY <1>1, <1>2, FunctionIsSeq
<1>6. \A i \in 1 .. m : r[i] \in FileNames /\ q[i] \in FileNames
  BY <1>1, <1>2
<1>7. /\ SubSeq(r, 1, m) \in Seq(FileNames) /\ Len(SubSeq(r, 1, m)) = m
      /\ \A i \in 1 .. m : SubSeq(r, 1, m)[i] = r[i]
  BY <1>1, <1>6, SubSeqProperties
<1>8. /\ SubSeq(q, 1, m) \in Seq(FileNames) /\ Len(SubSeq(q, 1, m)) = m
      /\ \A i \in 1 .. m : SubSeq(q, 1, m)[i] = q[i]
  BY <1>1, <1>6, SubSeqProperties
<1>9. SubSeq(r, 1, m) = SubSeq(q, 1, m)
  BY <1>3, <1>7, <1>8, SeqEqual
<1>10. QED
  BY <1>1, <1>4, <1>5, <1>9 DEF IsPrefix, m

LEMMA EndsTail == ASSUME NEW s, NEW t, Ends(s, t), s # <<>> PROVE Ends(Tail(s), t)
<1>1. /\ Tail(s) \in Seq(FileNames) /\ Len(Tail(s)) = Len(s) - 1
      /\ \A i \in 1 .. Len(Tail(s)) : Tail(s)[i] = s[i + 1]
      /\ Len(s) \in Nat /\ Len(t) \in Nat
  BY HeadTailProperties, LenProperties DEF Ends
<1> DEFINE r == Tail(s)
<1> HIDE DEF r
<1>2. ASSUME NEW i \in 1 .. Len(s) - 1
      PROVE  r[Len(s) - 1 - i + 1] = t[Len(t) - i + 1]
  <2>1. Len(s) - 1 - i + 1 \in 1 .. Len(s) - 1 /\ i \in 1 .. Len(s)
    BY <1>1
  <2>2. r[Len(s) - 1 - i + 1] = s[(Len(s) - 1 - i + 1) + 1]
    BY <1>1, <2>1 DEF r
  <2>3. (Len(s) - 1 - i + 1) + 1 = Len(s) - i + 1
    BY <1>1
  <2>4. s[Len(s) - i + 1] = t[Len(t) - i + 1]
    BY <2>1 DEF Ends
  <2>5. QED
    BY <2>2, <2>3, <2>4
<1>3. /\ r \in Seq(FileNames) /\ Len(r) = Len(s) - 1
      /\ t \in Seq(FileNames) /\ Len(r) <= Len(t)
  BY <1>1 DEF r, Ends
<1>4. \A i \in 1 .. Len(r) : r[Len(r) - i + 1] = t[Len(t) - i + 1]
  BY <1>2, <1>3
<1>5. Ends(r, t)
  BY <1>3, <1>4 DEF Ends
<1>6. QED
  BY <1>5 DEF r

\* Files are read and written in order.
LEMMA InOrder ==
    /\ \A s \in VerifyTodos : IsSuffix(s, Verifying)
    /\ \A s \in CompileTodos : IsSuffix(s, Compiling)
    /\ \A s \in WriteTodos : IsSuffix(s, Writing)
<1>1. Ends(Verifying, Verifying) /\ Ends(Compiling, Compiling) /\ Ends(Writing, Writing)
  <2>1. ASSUME NEW s \in Seq(FileNames)
        PROVE  Ends(s, s)
    BY LenProperties DEF Ends
  <2>2. Verifying \in Seq(FileNames) /\ Compiling \in Seq(FileNames) /\ Writing \in Seq(FileNames)
    BY DEF Verifying, Compiling, Writing, FileNames
  <2>3. QED
    BY <2>1, <2>2
<1>2. /\ Verifying # <<>> /\ <<"trace", "manifest", "last">> # <<>>
      /\ <<"manifest", "last">> # <<>> /\ <<"last">> # <<>>
      /\ Compiling # <<>> /\ <<"ledger", "manifest">> # <<>> /\ <<"manifest">> # <<>>
      /\ Writing # <<>> /\ <<"markdown", "agents", "receipt">> # <<>>
      /\ <<"agents", "receipt">> # <<>> /\ <<"receipt">> # <<>>
  BY DEF Verifying, Compiling, Writing
<1>3. \A s \in VerifyTodos : Ends(s, Verifying)
  <2>1. Ends(<<"trace", "manifest", "last">>, Verifying)
    BY <1>1, <1>2, EndsTail, Tails, Zenon
  <2>2. Ends(<<"manifest", "last">>, Verifying)
    BY <2>1, <1>2, EndsTail, Tails, Zenon
  <2>3. Ends(<<"last">>, Verifying)
    BY <2>2, <1>2, EndsTail, Tails, Zenon
  <2>4. Ends(<<>>, Verifying)
    BY <2>3, <1>2, EndsTail, Tails, Zenon
  <2>5. QED
    BY <1>1, <2>1, <2>2, <2>3, <2>4 DEF VerifyTodos
<1>4. \A s \in CompileTodos : Ends(s, Compiling)
  <2>1. Ends(<<"ledger", "manifest">>, Compiling)
    BY <1>1, <1>2, EndsTail, Tails, Zenon
  <2>2. Ends(<<"manifest">>, Compiling)
    BY <2>1, <1>2, EndsTail, Tails, Zenon
  <2>3. Ends(<<>>, Compiling)
    BY <2>2, <1>2, EndsTail, Tails, Zenon
  <2>4. QED
    BY <1>1, <2>1, <2>2, <2>3 DEF CompileTodos
<1>5. \A s \in WriteTodos : Ends(s, Writing)
  <2>1. Ends(<<"markdown", "agents", "receipt">>, Writing)
    BY <1>1, <1>2, EndsTail, Tails, Zenon
  <2>2. Ends(<<"agents", "receipt">>, Writing)
    BY <2>1, <1>2, EndsTail, Tails, Zenon
  <2>3. Ends(<<"receipt">>, Writing)
    BY <2>2, <1>2, EndsTail, Tails, Zenon
  <2>4. QED
    BY <1>1, <2>1, <2>2, <2>3 DEF WriteTodos
<1>6. QED
  BY <1>3, <1>4, <1>5, EndsSuffix

LEMMA WellTyped ==
    audience \in Audiences /\ FilesInv /\ PhaseInv /\ ScriptInv => RunTypeOK
<1> SUFFICES ASSUME audience \in Audiences, FilesInv, PhaseInv, ScriptInv
             PROVE  RunTypeOK
  OBVIOUS
<1>1. \E order \in {Verifying, Compiling, Writing} : IsSuffix(todo, order)
  <2>1. todo \in VerifyTodos \cup CompileTodos \cup WriteTodos
    BY DEF PhaseInv, VerifyTodos
  <2>2. QED
    BY <2>1, InOrder
<1>2. TypeOK
  BY <1>1 DEF PhaseInv, TypeOK
<1>3. Buyer!ChainTypeOK
  BY LenProperties, ElementOfSeq
  DEF FilesInv, Lines, Spans, Anchors, FinalReceipts, Buyer!ChainTypeOK,
      Buyer!LedgerRecord, Buyer!TraceRecord, Buyer!LastReceipt, Buyer!Steps, Buyer!Receipts,
      Buyer!Postures, LedgerRecord, TraceRecord, LastReceipt, Steps, Receipts, Postures
<1>4. Buyer!TypeOK
  BY <1>3 DEF ScriptInv, Buyer!TypeOK, FinalReceipts, Buyer!LastReceipt, Buyer!Receipts,
      Buyer!Postures, LastReceipt, Receipts, Postures
<1>5. QED
  BY <1>2, <1>4 DEF RunTypeOK

-----------------------------------------------------------------------------
(* The compiler: what the two readings see                                 *)

\* What the published files are, for every later step.
LEMMA PublishedFiles ==
    ASSUME FilesInv, published # NotPublished,
           NEW n, n = Len(published[1])
    PROVE  /\ Recorded(published[1], published[2])
           /\ n \in 1 .. n /\ Len(published[2]) = n
           /\ published[1] \in Seq(LedgerRecord) /\ published[2] \in Seq(TraceRecord)
           /\ DOMAIN published[1] = 1 .. n /\ DOMAIN published[2] = 1 .. n
           /\ published[3] = published[1][n].state_hash /\ published[3] \in Hashes
           /\ published[4].receipt_id = n
<1>1. /\ Recorded(published[1], published[2]) /\ published[1] # <<>>
      /\ published[3] = Last(published[1]).state_hash
      /\ published[4] = [receipt_id |-> Last(published[2]).receipt_id,
                         mocked |-> Last(published[2]).mocked]
  BY DEF FilesInv, PublishedInv
<1>2. /\ n \in 1 .. n /\ Len(published[2]) = n
      /\ published[1] \in Seq(LedgerRecord) /\ published[2] \in Seq(TraceRecord)
      /\ DOMAIN published[1] = 1 .. n /\ DOMAIN published[2] = 1 .. n
  BY <1>1, EmptySeq, LenProperties DEF Recorded
<1>3. /\ published[1][n].state_hash \in Hashes
      /\ published[2][n].receipt_id = n
  BY <1>1, <1>2 DEF Recorded
<1>4. published[3] = published[1][n].state_hash
  BY <1>1 DEF Last
<1>5. published[4].receipt_id = n
  BY <1>1, <1>2, <1>3 DEF Last
<1>6. QED
  BY <1>1, <1>2, <1>3, <1>4, <1>5

\* Publication is final, and edits are counted.
LEMMA Monotone ==
    FilesInv /\ [RunNext]_runVars =>
        /\ edits \in Nat /\ edits' \in Nat /\ edits <= edits'
        /\ published # NotPublished => published' = published
<1> SUFFICES ASSUME FilesInv, [RunNext]_runVars
             PROVE  /\ edits \in Nat /\ edits' \in Nat /\ edits <= edits'
                    /\ published # NotPublished => published' = published
  OBVIOUS
<1>1. edits \in Nat
  BY BoundsAssumption DEF FilesInv
<1>2. CASE \E from, to \in Hashes, mocked \in BOOLEAN : Record(from, to, mocked)
  BY <1>1, <1>2 DEF Record
<1>3. CASE Publish
  BY <1>1, <1>3 DEF Publish
<1>4. CASE Edit
  <2>1. edits' = edits + 1 /\ published' = published
    BY <1>4 DEF Edit
  <2>2. QED
    BY <1>1, <2>1
<1>5. CASE UNCHANGED chainVars
  BY <1>1, <1>5 DEF chainVars
<1>6. QED
  BY <1>2, <1>3, <1>4, <1>5, ChainOrNot DEF ChainNext

\* Before the one edit, everything is as it was published.
LEMMA Unedited ==
    ASSUME FilesInv, published # NotPublished, edits = 0
    PROVE  /\ ledger = published[1] /\ trace = published[2]
           /\ manifest = published[3] /\ last = published[4]
BY DEF FilesInv, PublishedInv, files

LEMMA CopyStep == FilesInv /\ PhaseInv /\ CopyInv /\ [RunNext]_runVars => CopyInv'
<1> SUFFICES ASSUME FilesInv, PhaseInv, CopyInv, [RunNext]_runVars
             PROVE  CopyInv'
  OBVIOUS
<1>1. Len(ledger) \in Nat /\ Len(trace) \in Nat
  BY LenProperties DEF FilesInv, Lines, Spans
<1>2. /\ copy.ledger \in Lines /\ copy.trace \in Spans
      /\ Len(copy.ledger) \in Nat /\ Len(copy.trace) \in Nat
  BY LenProperties DEF PhaseInv, Lines, Spans
<1>3. ASSUME NEW from \in Hashes, NEW to \in Hashes, NEW mocked \in BOOLEAN,
             Record(from, to, mocked), UNCHANGED compilerVars
      PROVE  CopyInv'
  <2>1. /\ published = NotPublished /\ published' = published
        /\ UNCHANGED <<phase, copy>>
    BY <1>3 DEF Record, compilerVars
  <2>2. /\ Len(ledger') = Len(ledger) + 1 /\ Len(trace') = Len(trace) + 1
        /\ \A i \in 1 .. Len(ledger) : ledger'[i] = ledger[i]
        /\ \A i \in 1 .. Len(trace) : trace'[i] = trace[i]
    <3>1. \E e : ledger' = Append(ledger, e)
      BY <1>3 DEF Record
    <3>2. \E e : trace' = Append(trace, e)
      BY <1>3 DEF Record
    <3>3. QED
      BY <1>1, <3>1, <3>2, AppendProperties DEF FilesInv, Lines, Spans
  <2>3. Begins(copy.ledger, ledger') /\ Begins(copy.trace, trace')
    BY <1>1, <1>2, <2>1, <2>2 DEF CopyInv, Begins
  <2>4. QED
    BY <2>1, <2>3 DEF CopyInv
<1>4. CASE Publish /\ UNCHANGED compilerVars
  <2>1. /\ published = NotPublished /\ published' # NotPublished
        /\ published'[1] = ledger /\ published'[2] = trace
        /\ UNCHANGED <<phase, copy, todo>>
    BY <1>4 DEF Publish, NotPublished, compilerVars
  <2>2. QED
    BY <2>1 DEF CopyInv
<1>5. CASE Edit /\ UNCHANGED compilerVars
  <2>1. /\ published # NotPublished /\ published' = published
        /\ edits' = edits + 1 /\ UNCHANGED <<phase, copy, todo>>
    BY <1>5 DEF Edit, compilerVars
  <2>2. ASSUME edits' <= 1
        PROVE  CopyInv'
    <3>1. edits = 0
      BY <2>1, <2>2, BoundsAssumption DEF FilesInv
    <3>2. \A s \in {copy.ledger, copy.trace} : Begins(s, s)
      BY <1>2 DEF Begins
    <3>3. QED
      BY <2>1, <3>1, <3>2, Unedited DEF CopyInv
  <2>3. QED
    BY <2>1, <2>2 DEF CopyInv
<1>6. CASE UNCHANGED <<chainVars, compilerVars>>
  BY <1>6 DEF CopyInv, chainVars, compilerVars
<1>7. CASE Read
  <2>1. /\ phase \in {"verify", "compile"} /\ todo # <<>> /\ phase' = phase
        /\ Head(todo) \in {"ledger", "trace", "manifest", "last"}
        /\ UNCHANGED <<ledger, trace, manifest, last, published, edits>>
    BY <1>7, Orders DEF Read, PhaseInv, chainVars
  <2>2. /\ copy'.ledger \in {copy.ledger, ledger} /\ copy'.trace \in {copy.trace, trace}
        /\ copy'.manifest \in {copy.manifest, manifest}
        /\ copy'.last \in {copy.last, last}
    BY <1>7, <2>1 DEF Read, PhaseInv, Directory
  <2>3. CASE published = NotPublished
    <3>1. manifest = Missing /\ last = Missing
      BY <2>3 DEF FilesInv, RecordingInv
    <3>2. Begins(ledger, ledger) /\ Begins(trace, trace)
      BY <1>1 DEF Begins
    <3>3. QED
      BY <2>1, <2>2, <2>3, <3>1, <3>2 DEF CopyInv
  <2>4. CASE published # NotPublished
    <3>1. ASSUME phase' = "verify", todo' = <<>>
          PROVE  copy'.last = last
      <4>1. todo \in VerifyTodos /\ todo # <<>> /\ Tail(todo) = <<>>
        BY <1>7, <2>1, <3>1 DEF Read, PhaseInv
      <4>2. <<"trace", "manifest", "last">> # <<>> /\ <<"manifest", "last">> # <<>> /\ <<"last">> # <<>>
        OBVIOUS
      <4>3. todo = <<"last">>
        BY <4>1, <4>2, Tails, Zenon DEF VerifyTodos
      <4>4. QED
        BY <1>7, <4>3, Tails DEF Read, PhaseInv, Directory
    <3>2. QED
      BY <2>1, <2>2, <2>4, <3>1 DEF CopyInv
  <2>5. QED
    BY <2>3, <2>4
<1>8. CASE Start
  <2>1. /\ UNCHANGED <<ledger, trace, manifest, last, published, edits, copy>>
        /\ phase' = "verify" /\ todo' # <<>>
    BY <1>8 DEF Start, Verifying, chainVars
  <2>2. QED
    BY <2>1 DEF CopyInv
<1>9. CASE Write
  <2>1. /\ UNCHANGED <<ledger, trace, manifest, last, published, edits, copy>>
        /\ phase = "write" /\ phase' \in {"write", "done"}
    BY <1>9 DEF Write, chainVars
  <2>2. QED
    BY <2>1 DEF CopyInv
<1>10. CASE Verify \/ Compile \/ Crash
  <2>1. /\ UNCHANGED <<ledger, trace, manifest, last, published, edits>>
        /\ copy' = Unread /\ phase' # "verify"
    BY <1>10 DEF Verify, Compile, Refuse, Crash, chainVars
  <2>2. ASSUME NEW s, Len(s) \in Nat
        PROVE  Begins(<<>>, s)
    BY <2>2 DEF Begins
  <2>3. CASE published = NotPublished
    <3>1. copy.manifest = Missing /\ phase # "compile"
      BY <2>3 DEF CopyInv
    <3>2. ~(phase = "verify" /\ Copied!Verifies)
      BY <3>1, MarksAssumption DEF Copied!Verifies, Copied!Anchored
    <3>3. phase' \in {"idle", "failed"}
      BY <1>10, <3>1, <3>2 DEF Verify, Compile, Refuse, Crash
    <3>4. QED
      BY <1>1, <2>1, <2>2, <2>3, <3>3 DEF CopyInv, Unread
  <2>4. CASE published # NotPublished
    <3>1. Len(published[1]) \in Nat /\ Len(published[2]) \in Nat
      BY <2>4, PublishedFiles
    <3>2. QED
      BY <2>1, <2>2, <2>4, <3>1 DEF CopyInv, Unread
  <2>5. QED
    BY <2>3, <2>4
<1>11. QED
  <2>1. Buyer!Script => UNCHANGED chainVars
    BY DEF Buyer!Script, Buyer!FetchKey, Buyer!FetchReceipt, Buyer!CheckMocked,
           Buyer!CheckSignature, Buyer!ProbeKernel, Buyer!Summary, Buyer!chainVars, chainVars
  <2>2. QED
    BY <1>3, <1>4, <1>5, <1>6, <1>7, <1>8, <1>9, <1>10, <2>1
    DEF RunNext, runVars, vars, ChainNext, Compiler

\* What verify_run accepted is all of the run and ends in the published state,
\* unless the one edit was of decision_receipt.json and is over.
LEMMA FirstReading ==
    ASSUME FilesInv, PhaseInv, CopyInv, edits <= 1,
           phase = "verify", todo = <<>>, Copied!Verifies
    PROVE  /\ published # NotPublished
           /\ Last(copy.ledger).state_hash = published[3]
           /\ \/ Len(copy.ledger) = Len(published[1])
              \/ /\ edits = 1
                 /\ ledger = published[1] /\ trace = published[2] /\ manifest = published[3]
<1> DEFINE m == Len(copy.ledger)
           n == Len(published[1])
           entries == published[1]
           spans == published[2]
<1>1. /\ m \in 1 .. m /\ Len(copy.trace) = m
      /\ copy.ledger[m].receipt_id = copy.trace[m].receipt_id
      /\ copy.manifest \in Hashes /\ copy.manifest = copy.ledger[m].state_hash
      /\ copy.last # Missing => copy.last.receipt_id = copy.trace[m].receipt_id
  BY CopiedChecks DEF PhaseInv
<1>2. copy.manifest # Missing
  BY <1>1, MarksAssumption
<1>3. published # NotPublished
  BY <1>2 DEF CopyInv
<1>4. /\ Recorded(entries, spans) /\ n \in 1 .. n /\ Len(spans) = n
      /\ published[3] = entries[n].state_hash /\ published[4].receipt_id = n
      /\ published[4] # Missing
  BY <1>3, PublishedFiles, PublishedReceipt
<1>5. /\ copy.ledger = ledger \/ Begins(copy.ledger, entries)
      /\ copy.trace = trace \/ Begins(copy.trace, spans)
      /\ copy.manifest \in {published[3], manifest}
      /\ copy.last \in {published[4], last}
  BY <1>2, <1>3 DEF CopyInv
<1>6. \A i \in 1 .. n : entries[i].receipt_id = i /\ spans[i].receipt_id = i
  BY <1>4 DEF Recorded
<1> HIDE DEF m, n, entries, spans
<1>7. ledger = entries => m <= n /\ copy.ledger[m] = entries[m]
  BY <1>1, <1>4, <1>5 DEF Begins, m, n, entries
<1>8. trace = spans => m <= n /\ copy.trace[m] = spans[m]
  BY <1>1, <1>4, <1>5 DEF Begins, m, n
<1>9. ASSUME last = published[4], ledger = entries \/ trace = spans
      PROVE  m = n
  <2>1. copy.trace[m].receipt_id = n
    BY <1>1, <1>4, <1>5, <1>9
  <2>2. copy.trace[m].receipt_id = m
    BY <1>1, <1>4, <1>6, <1>7, <1>8, <1>9
  <2>3. QED
    BY <2>1, <2>2
<1>10. \/ last = published[4] /\ (ledger = entries \/ trace = spans)
       \/ edits = 1 /\ ledger = entries /\ trace = spans /\ manifest = published[3]
  BY <1>3, Unedited DEF FilesInv, PublishedInv, OneFileEdited, entries, spans
<1>11. manifest = published[3] \/ (last = published[4] /\ ledger = entries)
  BY <1>3, Unedited DEF FilesInv, PublishedInv, OneFileEdited, entries, spans
<1>12. copy.ledger[m].state_hash = published[3]
  <2>1. CASE manifest = published[3]
    BY <1>1, <1>5, <2>1
  <2>2. CASE last = published[4] /\ ledger = entries
    BY <1>4, <1>7, <1>9, <2>2
  <2>3. QED
    BY <1>11, <2>1, <2>2
<1>13. QED
  BY <1>3, <1>9, <1>10, <1>12 DEF Last, m, n, entries, spans

LEMMA VerifiedStep ==
    FilesInv /\ PhaseInv /\ CopyInv /\ VerifiedInv /\ [RunNext]_runVars => VerifiedInv'
<1> SUFFICES ASSUME FilesInv, PhaseInv, CopyInv, VerifiedInv, [RunNext]_runVars,
                    phase' = "compile", edits' <= 1
             PROVE  VerifiedInv'
  BY DEF VerifiedInv
<1>1. edits \in Nat /\ edits <= 1
  BY Monotone
<1>2. CASE UNCHANGED compilerVars
  <2>1. phase = "compile" /\ UNCHANGED <<copy, todo, verified>>
    BY <1>2 DEF compilerVars
  <2>2. published # NotPublished
    BY <2>1 DEF CopyInv
  <2>3. published' = published
    BY <2>2, Monotone
  <2>4. CASE UNCHANGED chainVars
    BY <1>1, <2>1, <2>3, <2>4 DEF VerifiedInv, chainVars
  <2>5. CASE Edit
    <3>1. edits = 0
      BY <1>1, <2>5 DEF Edit
    <3>2. QED
      BY <2>1, <2>2, <2>3, <3>1, Unedited DEF VerifiedInv
  <2>6. QED
    BY <2>2, <2>4, <2>5, ChainOrNot DEF ChainNext, Record, Publish
<1>3. CASE Read
  <2>1. /\ phase = "compile" /\ UNCHANGED <<ledger, trace, manifest, last, published, edits, verified>>
        /\ todo \in CompileTodos /\ todo # <<>> /\ todo' = Tail(todo)
        /\ copy' = [copy EXCEPT ![Head(todo)] = Directory[Head(todo)]]
        /\ DOMAIN copy = {"ledger", "trace", "manifest", "last"}
    BY <1>3 DEF Read, PhaseInv, chainVars
  <2>2. CASE todo = Compiling
    <3>1. Head(todo) = "trace" /\ todo' = <<"ledger", "manifest">>
      BY <2>1, <2>2, Tails
    <3>2. todo' # <<>>
      BY <3>1
    <3>3. copy'.trace = trace
      BY <2>1, <3>1 DEF Directory
    <3>4. QED
      BY <1>1, <2>1, <3>2, <3>3 DEF VerifiedInv
  <2>3. CASE todo = <<"ledger", "manifest">>
    <3>1. Head(todo) = "ledger" /\ todo' = <<"manifest">> /\ todo # Compiling
      BY <2>1, <2>3, Tails DEF Compiling
    <3>2. todo' # <<>>
      BY <3>1
    <3>3. copy'.trace = copy.trace
      BY <2>1, <3>1, Zenon
    <3>4. QED
      BY <1>1, <2>1, <3>1, <3>2, <3>3 DEF VerifiedInv
  <2>4. CASE todo = <<"manifest">>
    <3>1. Head(todo) = "manifest" /\ todo # Compiling
      BY <2>1, <2>4, Tails DEF Compiling
    <3>2. copy'.trace = copy.trace /\ copy'.manifest = manifest
      BY <2>1, <3>1 DEF Directory
    <3>3. QED
      BY <1>1, <2>1, <3>1, <3>2 DEF VerifiedInv
  <2>5. QED
    BY <2>1, <2>2, <2>3, <2>4 DEF CompileTodos
<1>4. CASE Verify
  <2>1. /\ phase = "verify" /\ todo = <<>> /\ Copied!Verifies
        /\ todo' = Compiling /\ verified' = Summary(copy.ledger)
        /\ UNCHANGED <<ledger, trace, manifest, last, published, edits>>
    BY <1>4 DEF Verify, Refuse, chainVars
  <2>2. Compiling # <<>>
    BY DEF Compiling
  <2>3. /\ verified'.final = published[3]
        /\ \/ verified'.steps = Len(published[1])
           \/ /\ edits = 1
              /\ ledger = published[1] /\ trace = published[2] /\ manifest = published[3]
    BY <1>1, <2>1, FirstReading DEF Summary
  <2>4. QED
    BY <2>1, <2>2, <2>3 DEF VerifiedInv
<1>5. QED
  <2>1. Start \/ Compile \/ Write \/ Crash => phase' # "compile"
    BY DEF Start, Compile, Refuse, Write, Crash
  <2>2. QED
    BY <1>2, <1>3, <1>4, <2>1 DEF RunNext, runVars, vars, Compiler

\* The trace that compile_trajectory accepted is as long as the published one and
\* has its inner states; whichever span was edited, its neighbours repeat both of
\* its states.  The anchor is the published one unless the edit was of it.
LEMMA SecondReading ==
    ASSUME FilesInv, PhaseInv, CopyInv, VerifiedInv, edits <= 1, phase = "compile", todo = <<>>,
           Compiles(copy.trace, copy.ledger, copy.manifest),
           NEW n, n = Len(published[2])
    PROVE  /\ published # NotPublished
           /\ verified.steps = n /\ verified.final = published[3]
           /\ DOMAIN copy.trace = 1 .. n
           /\ \A i \in 1 .. n - 1 :
                 /\ copy.trace[i].state_next_hash = published[2][i].state_next_hash
                 /\ copy.trace[i + 1].state_prev_hash = published[2][i + 1].state_prev_hash
           /\ copy.manifest # published[3] => copy.trace = published[2]
<1> DEFINE spans == published[2]
<1>1. published # NotPublished
  BY DEF CopyInv
<1>2. /\ Recorded(published[1], spans) /\ n \in 1 .. n /\ Len(published[1]) = n
      /\ DOMAIN spans = 1 .. n
  BY <1>1, PublishedFiles
<1>3. /\ verified.steps = Len(copy.trace) /\ Contiguous(copy.trace)
      /\ DOMAIN copy.trace = 1 .. Len(copy.trace)
      /\ \A i \in 1 .. Len(copy.trace) :
            i > 1 => copy.trace[i].state_prev_hash = copy.trace[i - 1].state_next_hash
  BY CompiledChecks DEF PhaseInv
<1>4. /\ verified.final = published[3]
      /\ verified.steps = n \/ trace = spans
      /\ copy.trace \in {spans, trace}
      /\ copy.manifest \in {published[3], manifest}
  <2>1. <<>> # Compiling
    BY DEF Compiling
  <2>2. QED
    BY <1>2, <2>1 DEF VerifiedInv
<1>5. Len(copy.trace) = n /\ verified.steps = n
  BY <1>3, <1>4
<1>6. CASE copy.trace = spans
  BY <1>1, <1>2, <1>4, <1>5, <1>6
<1>7. CASE copy.trace # spans
  <2>1. /\ trace \in EditsOf(spans, TraceChanges) /\ manifest = published[3]
        /\ copy.trace = trace
    <3>1. copy.trace = trace /\ trace # spans
      BY <1>4, <1>7
    <3>2. edits = 1
      BY <1>1, <3>1, Unedited, Monotone, BoundsAssumption DEF FilesInv
    <3>3. QED
      BY <1>1, <3>1, <3>2 DEF FilesInv, PublishedInv, OneFileEdited
  <2>2. PICK k \in 1 .. n : \A i \in 1 .. n : i # k => copy.trace[i] = spans[i]
    <3>1. spans # <<>>
      BY <1>2, EmptySeq
    <3>2. copy.trace \in Edited(TraceRecord \cup {Invalid}, spans)
      <4>1. spans \in Spans
        BY <1>2, SeqMonotonic DEF Recorded, Spans
      <4>2. QED
        BY <2>1, <4>1, TraceEdits
    <3>3. AllButOne(spans, copy.trace)
      BY <1>2, <1>3, <1>5, <3>1, <3>2, EditedTrace
    <3>4. QED
      BY <3>3 DEF AllButOne
  <2>3. ASSUME NEW i \in 1 .. n - 1
        PROVE  /\ copy.trace[i].state_next_hash = spans[i].state_next_hash
               /\ copy.trace[i + 1].state_prev_hash = spans[i + 1].state_prev_hash
    <3>1. i \in 1 .. n /\ i + 1 \in 1 .. n /\ i + 1 > 1 /\ (i + 1) - 1 = i
      BY <1>2
    <3>2. copy.trace[i + 1].state_prev_hash = copy.trace[i].state_next_hash
      BY <1>3, <1>5, <3>1
    <3>3. spans[i + 1].state_prev_hash = spans[i].state_next_hash
      <4>1. spans[i + 1].state_prev_hash = spans[(i + 1) - 1].state_next_hash
        BY <1>2, <3>1 DEF Recorded
      <4>2. QED
        BY <3>1, <4>1
    <3>4. copy.trace[i] = spans[i] \/ copy.trace[i + 1] = spans[i + 1]
      BY <2>2, <3>1
    <3>5. QED
      BY <3>2, <3>3, <3>4
  <2>4. copy.manifest = published[3]
    BY <1>4, <2>1
  <2>5. QED
    BY <1>1, <1>3, <1>4, <1>5, <2>3, <2>4
<1>8. QED
  BY <1>6, <1>7

LEMMA PathStep ==
    FilesInv /\ PhaseInv /\ CopyInv /\ VerifiedInv /\ OneEditKeepsPath /\ [RunNext]_runVars
        => OneEditKeepsPath'
<1> SUFFICES ASSUME FilesInv, PhaseInv, CopyInv, VerifiedInv, OneEditKeepsPath, [RunNext]_runVars,
                    graph' # None, edits' <= 1
             PROVE  OneEditKeepsPath'
  BY DEF OneEditKeepsPath
<1>1. edits \in Nat /\ edits <= 1
  BY Monotone
<1>2. CASE graph' = graph
  <2>1. published # NotPublished
    BY <1>2 DEF PhaseInv, CopyInv
  <2>2. published' = published
    BY <2>1, Monotone
  <2>3. QED
    BY <1>1, <1>2, <2>1, <2>2 DEF OneEditKeepsPath
<1>3. CASE Compile /\ graph' # graph
  <2> DEFINE spans == published[2]
             n == Len(spans)
  <2>1. /\ phase = "compile" /\ todo = <<>>
        /\ Compiles(copy.trace, copy.ledger, copy.manifest)
        /\ graph' = Graph(copy.trace, copy.manifest)
        /\ published' = published
    BY <1>3 DEF Compile, Refuse, chainVars
  <2>2. /\ published # NotPublished
        /\ verified.steps = n /\ verified.final = published[3]
        /\ DOMAIN copy.trace = 1 .. n
        /\ \A i \in 1 .. n - 1 :
              /\ copy.trace[i].state_next_hash = spans[i].state_next_hash
              /\ copy.trace[i + 1].state_prev_hash = spans[i + 1].state_prev_hash
        /\ copy.manifest # published[3] => copy.trace = spans
    BY <1>1, <2>1, SecondReading
  <2>3. /\ graph'.steps = n /\ graph'.final = published[3]
        /\ graph'.path = Path(copy.trace) /\ graph'.anchor = copy.manifest
    BY <2>1, <2>2 DEF Graph
  <2>4. n \in Nat /\ DOMAIN spans = 1 .. n
    BY <2>2, PublishedFiles
  <2>5. Len(Path(spans)) = n /\ Len(Path(copy.trace)) = n
    <3>1. /\ Path(spans) \in [1 .. n -> {Path(spans)[i] : i \in 1 .. n}]
          /\ Path(copy.trace) \in [1 .. n -> {Path(copy.trace)[i] : i \in 1 .. n}]
      BY <2>2, <2>4 DEF Path
    <3>2. QED
      BY <2>4, <3>1, FunctionIsSeq
  <2>6. ASSUME NEW i \in 1 .. n - 1
        PROVE  /\ Path(copy.trace)[i][2] = Path(spans)[i][2]
               /\ Path(copy.trace)[i + 1][1] = Path(spans)[i + 1][1]
    <3>1. i \in 1 .. n /\ i + 1 \in 1 .. n
      BY <2>4
    <3>2. QED
      BY <2>2, <2>4, <3>1 DEF Path
  <2>7. QED
    BY <2>1, <2>2, <2>3, <2>5, <2>6 DEF OneEditKeepsPath
<1>4. QED
  <2>1. UNCHANGED compilerVars \/ Read \/ Verify \/ Write => graph' = graph
    BY DEF compilerVars, Read, Verify, Refuse, Write
  <2>2. Start \/ Crash => graph' = None
    BY DEF Start, Crash
  <2>3. QED
    BY <1>2, <1>3, <2>1, <2>2 DEF RunNext, runVars, vars, Compiler

-----------------------------------------------------------------------------
(* Theorems                                                                *)

\* Nothing is recorded, read or written at first.
LEMMA InvInit == RunInit => IInv
<1> SUFFICES ASSUME RunInit
             PROVE  IInv
  OBVIOUS
<1>1. /\ audience \in Audiences /\ Init
      /\ phase = "idle" /\ todo = <<>> /\ copy = Unread /\ verified = None /\ graph = None
      /\ bundle = [f \in Artifacts \cup {"receipt"} |-> None] /\ starts = 0
      /\ step = "key" /\ key = "none" /\ receipt = Missing /\ signature = "none" /\ lean = "unknown"
      /\ published = NotPublished /\ ledger = <<>> /\ trace = <<>>
  BY DEF RunInit, Init, ChainInit, Buyer!Init
<1>2. FilesInv
  BY <1>1, FilesInit
<1>3. PhaseInv
  <2>1. Unread \in [ledger: Lines, trace: Spans, manifest: Anchors, last: FinalReceipts]
    BY EmptySeq DEF Unread, Lines, Spans, Anchors, FinalReceipts
  <2>2. QED
    BY <1>1, <2>1, StartsAssumption DEF PhaseInv, Phases
<1>4. BundleInv
  BY <1>1 DEF BundleInv
<1>5. CopyInv
  BY <1>1, EmptySeq DEF CopyInv, Unread, Begins
<1>6. VerifiedInv /\ OneEditKeepsPath
  BY <1>1 DEF VerifiedInv, OneEditKeepsPath
<1>7. ScriptInv
  BY <1>1 DEF ScriptInv, FinalReceipts
<1>8. QED
  BY <1>1, <1>2, <1>3, <1>4, <1>5, <1>6, <1>7 DEF IInv

LEMMA InvStep == IInv /\ [RunNext]_runVars => IInv'
<1>1. [RunNext]_runVars => audience' = audience
  BY DEF RunNext, runVars
<1>2. QED
  BY <1>1, FilesStep, PhaseStep, BundleStep, CopyStep, VerifiedStep, PathStep, ScriptStep DEF IInv

LEMMA Invariant == RunSpec => []IInv
BY InvInit, InvStep, PTL DEF RunSpec

\* Every reachable state of run, script and compiler is well typed: a summary is
\* in hand exactly between the two readings, a graph from then on.
THEOREM TypeCorrect == RunSpec => []RunTypeOK
<1>1. IInv => RunTypeOK
  BY WellTyped DEF IInv
<1>2. QED
  BY <1>1, Invariant, PTL

\* A run that was recorded in order and is not edited verifies.
THEOREM RecordedRunsVerify == RunSpec => []PublishedRunVerifies
<1>1. IInv => PublishedRunVerifies
  BY RecordedVerifies DEF IInv
<1>2. QED
  BY <1>1, Invariant, PTL

\* One edit of one file changes nothing that the other files repeat, or the run
\* does not verify any more.
THEOREM BoundByTheOthers == RunSpec => []OneEditKeepsBound
<1>1. IInv => OneEditKeepsBound
  BY OneEditBound DEF IInv
<1>2. QED
  BY <1>1, Invariant, PTL

\* The buyer's script vouches only with a key, for a receipt that is not flagged
\* as mocked.
THEOREM MockedNeverVouched == RunSpec => []NeverVouchesForMocked
<1>1. IInv => NeverVouchesForMocked
  BY ScriptVouches DEF IInv
<1>2. QED
  BY <1>1, Invariant, PTL

\* Whenever the one edit happens, the compiled graph has all the steps, the inner
\* states and the verified final hash of the published run.
THEOREM PathKept == RunSpec => []OneEditKeepsPath
<1>1. IInv => OneEditKeepsPath
  BY DEF IInv
<1>2. QED
  BY <1>1, Invariant, PTL

\* A bundle whose receipt matches is of one graph, after any crashes and edits.
THEOREM OneGraphPerBundle == RunSpec => []MatchingBundleIsOneGraph
<1>1. IInv => MatchingBundleIsOneGraph
  BY BundleMatches DEF IInv
<1>2. QED
  BY <1>1, Invariant, PTL

=============================================================================
