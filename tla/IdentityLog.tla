---------------------------- MODULE IdentityLog ----------------------------
(***************************************************************************)
(* What the decisions on identity resolutions promise: each resolution has *)
(* a log to which one decision at a time is appended, until one closes it. *)
(***************************************************************************)
EXTENDS Sequences, Naturals

CONSTANTS Resolutions, Candidates, Owner, Confirmable, NoCandidate

VARIABLE log

Init == log = [x \in Resolutions |-> <<>>]

Closed(x) ==
    \E i \in DOMAIN log[x] : log[x][i].type \in {"confirmed", "resolution_rejected"}

Rejected(x, c) ==
    \E i \in DOMAIN log[x] : log[x][i].candidate = c

Decide(x, type, c) ==
    /\ ~Closed(x)
    /\ log' = [log EXCEPT ![x] = Append(@, [type |-> type, candidate |-> c])]

RejectCandidate(x, c) ==
    /\ Owner[c] = x /\ ~Rejected(x, c)
    /\ Decide(x, "candidate_rejected", c)

RejectResolution(x) == Decide(x, "resolution_rejected", NoCandidate)

Confirm(x, c) ==
    /\ Owner[c] = x /\ c \in Confirmable /\ ~Rejected(x, c)
    /\ Decide(x, "confirmed", c)

Next == \E x \in Resolutions :
           \/ RejectResolution(x)
           \/ \E c \in Candidates : RejectCandidate(x, c) \/ Confirm(x, c)

Spec == Init /\ [][Next]_log
=============================================================================
