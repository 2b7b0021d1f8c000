------------------------------ MODULE Billing ------------------------------
(***************************************************************************)
(* What the usage ledger promises to the operator who bills from it, with  *)
(* no admission rules, digests or indexes: every (tenant, request) is      *)
(* billed by at most one event, revenue is recognised for work that was    *)
(* delivered and at a price within the quote, a dispute or a closing takes *)
(* it back, and a closed bill stays closed.                                *)
(***************************************************************************)
EXTENDS Integers

CONSTANTS EventIds, Requests, Cap, None

VARIABLE bills   \* the bill of each event

Stages == {"none", "open", "delivered", "recognized", "disputed", "closed"}

Bill(stage, request, limit, price) ==
    [stage |-> stage, request |-> request, limit |-> limit, price |-> price]

\* The bill of an event nobody admitted yet.
NoBill == Bill("none", None, 0, None)

Init == bills = [e \in EventIds |-> NoBill]

\* The bill of event e moves from one of the stages `from` to `to`.
Move(e, from, to, price) ==
    /\ bills[e].stage \in from
    /\ bills' = [bills EXCEPT ![e] = Bill(to, @.request, @.limit, price)]

Open(e, r, limit) ==
    /\ bills[e] = NoBill
    /\ \A d \in EventIds : bills[d].request # r
    /\ bills' = [bills EXCEPT ![e] = Bill("open", r, limit, None)]

Deliver(e) == Move(e, {"open"}, "delivered", None)

\* A settlement may leave the price unmeasured: revenue is then on hold.
Recognize(e) ==
    \E price \in (0 .. bills[e].limit) \cup {None} :
        Move(e, {"delivered", "disputed"}, "recognized", price)

Dispute(e) == Move(e, {"delivered", "recognized"}, "disputed", None)

Close(e) == Move(e, Stages \ {"none", "closed"}, "closed", None)

Next ==
    \E e \in EventIds :
        \/ \E r \in Requests, limit \in 0 .. Cap : Open(e, r, limit)
        \/ Deliver(e)
        \/ Recognize(e)
        \/ Dispute(e)
        \/ Close(e)

Spec == Init /\ [][Next]_bills

=============================================================================
