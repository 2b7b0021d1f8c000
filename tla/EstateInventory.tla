--------------------------- MODULE EstateInventory ---------------------------
(***************************************************************************)
(* tools/estate_inventory.py: collect walks the repository list of GitHub  *)
(* and the lists of Hugging Face page by page along the links the server   *)
(* sends, while items are created and deleted, and a server may send       *)
(* anything else instead of the page it should.                            *)
(*                                                                         *)
(* Abstractions: a URL is the path form and the page it asks for; of an    *)
(* answer that is no list of objects only the kind is kept; a list that is *)
(* not being walked does not matter, so the list exists from the begin of  *)
(* its walk to the next one.  Items are numbered as they are created and   *)
(* may appear anywhere in the list.                                        *)
(***************************************************************************)
EXTENDS Integers, FiniteSets, Sequences, SequencesExt

CONSTANTS
    Scopes,       \* the lists, in the order collect walks them
    Domains,      \* the domains it probes afterwards
    Tokens,       \* the providers whose token may be absent
    PageSize,     \* PAGE_SIZE
    MaxPages,     \* MAX_PAGES
    MaxItems,     \* bound: items a list begins with
    MaxChanges    \* bound: items created or deleted during one walk

ASSUME ScopesAssumption == Scopes \in Seq(STRING) /\ IsInjective(Scopes)
ASSUME SizesAssumption ==
    PageSize \in Nat \ {0} /\ MaxPages \in Nat \ {0} /\ MaxItems \in Nat /\ MaxChanges \in Nat

VARIABLES
    turn,       \* number of the scope that is walked or was walked last
    verdict,    \* "walking", or how the last walk ended, or the script
    list,       \* the list on the server
    url, seen,  \* the URL that is asked for next, and those that were
    page,       \* the page counter
    rows,       \* what the walk reports
    errors,     \* the scopes with an error, and the tokens that are absent
    kept,       \* history of a walk: the items that were listed all along, ...
    created,    \* ... the items created and deleted since it began, ...
    deleted,
    strayed     \* ... and whether the server sent something else than the page

tally == <<kept, created, deleted, strayed>>
vars == <<turn, verdict, list, url, seen, page, rows, errors, tally>>

\* GitHub redirects an organisation's list to a numbered form of its path, and
\* the links of the first page are already in that form.
Paths == {"named", "numbered"}
URL(path, n) == [path |-> path, page |-> n]
URLs == {URL(path, n) : path \in Paths, n \in 1 .. MaxPages + 1}

\* A link header that is absent, that leads somewhere else, or that is no link.
NoLink == URL("none", 0)
Foreign == URL("foreign", 0)
Malformed == URL("malformed", 0)

\* What a server sends: a list of objects and a link, or an answer that is refused.
Answer(kind, items, link) == [kind |-> kind, items |-> items, link |-> link]
Refusals == {"FetchFailed", "UnexpectedResponse", "UnexpectedPageSize"}
LinkErrors == {"InvalidPaginationLink", "PaginationOriginChanged"}
WalkErrors == Refusals \cup LinkErrors
    \cup {"PaginationCycle", "FullPageWithoutNext", "PageLimitExceeded"}

Items == 1 .. MaxItems + MaxChanges

TypeOK ==
    /\ turn \in 0 .. Len(Scopes) + 1
    /\ verdict \in {"walking", "finished", "aborted"} \cup WalkErrors
    /\ list \in Seq(Items) /\ IsInjective(list)
    /\ url \in URLs /\ seen \subseteq URLs
    /\ page = Cardinality(seen) + 1 /\ page <= MaxPages + 1
    /\ rows \in Seq(Items) /\ Len(rows) <= MaxPages * PageSize
    /\ errors \subseteq ToSet(Scopes) \cup Domains \cup Tokens
    /\ kept \subseteq ToSet(list) /\ strayed \in BOOLEAN
    /\ created + deleted \in 0 .. MaxChanges

\* A walk begins with a list of n items.
Lists(n) ==
    /\ list' = [i \in 1 .. n |-> i]
    /\ url' = URL("named", 1) /\ seen' = {} /\ page' = 1
    /\ rows' = <<>> /\ verdict' = "walking"
    /\ kept' = 1 .. n /\ created' = 0 /\ deleted' = 0 /\ strayed' = FALSE

\* Only a missing token is an error; the lists are asked for without it.
Init ==
    /\ turn = 0 /\ verdict = "finished"
    /\ list = <<>> /\ url = URL("named", 1) /\ seen = {} /\ page = 1 /\ rows = <<>>
    /\ errors \in SUBSET Tokens
    /\ kept = {} /\ created = 0 /\ deleted = 0 /\ strayed = FALSE

-----------------------------------------------------------------------------
(* The server                                                              *)

\* What belongs on the page a URL asks for.
PageOf(u) ==
    SubSeq(list, (u.page - 1) * PageSize + 1,
           IF u.page * PageSize < Len(list) THEN u.page * PageSize ELSE Len(list))

\* The answer of a server that keeps to its own protocol.
Regular(scope, u) ==
    Answer("list", PageOf(u),
           IF u.page * PageSize >= Len(list) THEN NoLink
           ELSE URL(IF scope = "github.repositories" THEN "numbered" ELSE "named", u.page + 1))

\* Any other answer: a wrong link, or one that is refused; of an answer with
\* entries that are no objects the others still count.
Answers(u) ==
    {Answer("list", PageOf(u), link) : link \in URLs \cup {NoLink, Foreign, Malformed}}
    \cup {Answer(kind, <<>>, NoLink) : kind \in Refusals}
    \cup {Answer("UnexpectedResponse", PageOf(u), NoLink)}

Walking == verdict = "walking"

Create(i) ==
    /\ Walking /\ ~strayed /\ created + deleted < MaxChanges
    /\ list' = InsertAt(list, i, MaxItems + created + 1)
    /\ created' = created + 1
    /\ UNCHANGED <<turn, verdict, url, seen, page, rows, errors, kept, deleted, strayed>>

Delete(i) ==
    /\ Walking /\ ~strayed /\ created + deleted < MaxChanges
    /\ list' = RemoveAt(list, i)
    /\ kept' = kept \ {list[i]}
    /\ deleted' = deleted + 1
    /\ UNCHANGED <<turn, verdict, url, seen, page, rows, errors, created, strayed>>

-----------------------------------------------------------------------------
(* pages and collect                                                       *)

\* Mutant: a link may change the path of no list.
NextTargetSamePath(scope, link, u) ==
    IF link \in URLs /\ link.path # u.path THEN Foreign ELSE link

\* next_target: a link that leaves the path is taken for foreign, but for the
\* one GitHub rewrites.
NextTarget(scope, link, u) ==
    IF /\ link \in URLs /\ link.path # u.path
       /\ ~(scope = "github.repositories" /\ u.path = "named" /\ link.path = "numbered")
    THEN Foreign ELSE link

\* Mutants: the limit is the end of the list, or comes one page late.
LimitVerdictEnds == IF page = MaxPages THEN "finished" ELSE "walking"
LimitVerdictLate == IF page > MaxPages THEN "PageLimitExceeded" ELSE "walking"

\* With a next URL the loop goes on until its range is used up.
LimitVerdict == IF page = MaxPages THEN "PageLimitExceeded" ELSE "walking"

\* How the walk goes on after answer a, whose link leads to `target`.
PageVerdict(a, target) ==
    CASE a.kind # "list" -> a.kind
      [] a.kind = "list" /\ target = Malformed -> "InvalidPaginationLink"
      [] a.kind = "list" /\ target = Foreign -> "PaginationOriginChanged"
      [] a.kind = "list" /\ target = NoLink ->
            IF Len(a.items) = PageSize THEN "FullPageWithoutNext" ELSE "finished"
      [] a.kind = "list" /\ target \in URLs -> LimitVerdict

\* The walk of a scope is over, with these rows; Hugging Face's are dropped
\* after an error.
Conclude(scope, how, found) ==
    /\ verdict' = how
    /\ rows' = IF scope # "github.repositories" /\ how \in WalkErrors THEN <<>> ELSE found
    /\ errors' = IF how \in WalkErrors THEN errors \cup {scope} ELSE errors

Begin ==
    /\ ~Walking /\ turn < Len(Scopes)
    /\ turn' = turn + 1
    /\ \E n \in 0 .. MaxItems : Lists(n)
    /\ UNCHANGED errors

\* Mutant: a URL that was asked for already is asked for again and again.
CycleRetried ==
    /\ Walking /\ url \in seen
    /\ UNCHANGED vars

\* One turn of the loop: a URL that was asked for already ends it, ...
Cycle ==
    /\ Walking /\ url \in seen
    /\ Conclude(Scopes[turn], "PaginationCycle", rows)
    /\ UNCHANGED <<turn, list, url, seen, page, tally>>

\* ... any other one is fetched, and the answer decides.
Fetch(a) ==
    LET scope == Scopes[turn]
        target == NextTarget(scope, a.link, url)
        how == PageVerdict(a, target)
    IN  /\ Walking /\ url \notin seen
        /\ seen' = seen \cup {url}
        /\ Conclude(scope, how, rows \o a.items)
        /\ url' = IF how = "walking" THEN target ELSE url
        /\ page' = page + 1
        /\ strayed' = (strayed \/ a # Regular(scope, url))
        /\ UNCHANGED <<turn, list, kept, created, deleted>>

\* The domains are probed, and main ends.
Probe ==
    /\ ~Walking /\ turn = Len(Scopes)
    /\ \E failing \in SUBSET Domains : errors' = errors \cup failing
    /\ turn' = turn + 1
    /\ UNCHANGED <<verdict, list, url, seen, page, rows, tally>>

\* An exception of a fetch or a probe that is not among the ones that are caught,
\* like a connection that is reset or an answer that is no HTTP, ends the script,
\* and nothing is reported.
Abort ==
    /\ \/ Walking /\ url \notin seen
       \/ ~Walking /\ turn = Len(Scopes)
    /\ verdict' = "aborted" /\ turn' = Len(Scopes) + 1
    /\ rows' = <<>>
    /\ UNCHANGED <<list, url, seen, page, errors, tally>>

Inventory ==
    \/ Begin
    \/ Cycle
    \/ Walking /\ \E a \in Answers(url) : Fetch(a)
    \/ Probe
    \/ Abort

Next ==
    \/ Inventory
    \/ \E i \in 1 .. Len(list) + 1 : Create(i)
    \/ \E i \in 1 .. Len(list) : Delete(i)

Spec == Init /\ [][Next]_vars

\* The script runs, and every fetch ends, with an answer or its timeout.
FairSpec == Spec /\ WF_vars(Inventory)

-----------------------------------------------------------------------------
(* Properties                                                              *)

\* The scope of the walk that is under way, or was the last one.
Scope == Scopes[turn]

\* A walk without an error reads the list it was shown although the list moves
\* under it: of the items that were listed all along it misses at most one per
\* deletion, and it repeats at most one item per creation.
FaithfulUnderChanges ==
    verdict = "finished" /\ ~strayed =>
        /\ Cardinality(kept \ ToSet(rows)) <= deleted
        /\ Len(rows) - Cardinality(ToSet(rows)) <= created

\* What becomes of a list that stands still, for every length around the limits:
\* it is reported whole unless it fills its last page or exceeds the page limit,
\* and then GitHub's rows are what was read and those of Hugging Face are gone.
QuietWalkVerdict ==
    ~Walking /\ turn \in DOMAIN Scopes /\ ~strayed /\ created + deleted = 0 =>
        LET n == Len(list)
            capacity == MaxPages * PageSize
        IN  /\ verdict = IF n > capacity THEN "PageLimitExceeded"
                         ELSE IF n > 0 /\ n % PageSize = 0 THEN "FullPageWithoutNext"
                         ELSE "finished"
            /\ rows = IF verdict # "finished" /\ Scope # "github.repositories" THEN <<>>
                      ELSE SubSeq(list, 1, IF n > capacity THEN capacity ELSE n)

\* The inventory ends whatever the servers send: links in circles, pages without
\* an end, or failures, though an uncaught one ends it without a report.
InventoryEnds == <>(turn = Len(Scopes) + 1)

=============================================================================
