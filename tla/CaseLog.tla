------------------------------ MODULE CaseLog -------------------------------
(***************************************************************************)
(* What the personal cases of one user promise: they change by one legal    *)
(* act at a time, each of a session that has not been logged out.           *)
(***************************************************************************)
EXTENDS Naturals, Sequences

CONSTANTS Sessions, ImportKeys, Digests

VARIABLES cases,    \* the user's cases, deleted ones included, in their order
          revoked,  \* sessions that have been logged out
          last      \* the last act, its session and the revision its author had seen

vars == <<cases, revoked, last>>

New(i, d) == [import |-> i, digest |-> d, revision |-> 1, deleted |-> FALSE]

Init == cases = <<>> /\ revoked = {} /\ last = [op |-> "none"]

Act(op, s, v) == last' = [op |-> op, session |-> s, seen |-> v]

\* An import key makes one case, for good.
Import(s, i, d) ==
    /\ \A c \in DOMAIN cases : cases[c].import # i
    /\ cases' = Append(cases, New(i, d))
    /\ Act("create", s, 0) /\ UNCHANGED revoked

\* A change is made to the revision its author has seen.
Edit(s, c) ==
    /\ ~cases[c].deleted
    /\ cases' = [cases EXCEPT ![c].revision = @ + 1]
    /\ Act("edit", s, cases[c].revision) /\ UNCHANGED revoked

Delete(s, c) ==
    /\ ~cases[c].deleted
    /\ cases' = [cases EXCEPT ![c].revision = @ + 1, ![c].deleted = TRUE]
    /\ Act("delete", s, cases[c].revision) /\ UNCHANGED revoked

Logout(s) ==
    /\ revoked' = revoked \cup {s}
    /\ Act("logout", s, 0) /\ UNCHANGED cases

Next ==
    \E s \in Sessions \ revoked :
        \/ \E i \in ImportKeys, d \in Digests : Import(s, i, d)
        \/ \E c \in DOMAIN cases : Edit(s, c) \/ Delete(s, c)
        \/ Logout(s)

Spec == Init /\ [][Next]_vars
=============================================================================
