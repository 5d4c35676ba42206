------------------------------ MODULE AdminLog ------------------------------
(***************************************************************************)
(* What the Admin control plane promises: administrators act one at a time, *)
(* each while an administrator; a change of the quota policy is accepted    *)
(* for one usage database first and made there at most once; an             *)
(* administrator's key stands for one command.                              *)
(***************************************************************************)
EXTENDS Naturals

CONSTANTS Users, FirstAccounts, DefaultPolicy, Submissions, MaxInstances

VARIABLES accounts, commands, claims, instance, policy, applied
vars == <<accounts, commands, claims, instance, policy, applied>>

Init ==
    /\ accounts = FirstAccounts
    /\ commands = {} /\ claims = {} /\ applied = {}
    /\ instance = 1 /\ policy = DefaultPolicy

IsAdmin(u) == accounts[u] = [status |-> "active", role |-> "platform_admin"]

Used(c) ==
    \/ \E d \in commands : d.actor = c.actor /\ d.key = c.key
    \/ \E d \in claims : d.cmd.actor = c.actor /\ d.cmd.key = c.key

\* One account changes in one field, by another user who is an administrator.
Change(c) ==
    /\ c.op = "account" /\ IsAdmin(c.actor) /\ ~Used(c) /\ c.actor # c.target
    /\ accounts' = [accounts EXCEPT ![c.target][c.field] = c.value]
    /\ commands' = commands \cup {c}
    /\ UNCHANGED <<claims, instance, policy, applied>>

Accept(c) ==
    /\ c.op = "quota" /\ IsAdmin(c.actor) /\ ~Used(c)
    /\ \E i \in 1 .. instance : claims' = claims \cup {[cmd |-> c, owner |-> i]}
    /\ UNCHANGED <<accounts, commands, instance, policy, applied>>

\* An accepted change is made, also after its actor has lost the role.
Apply(d) ==
    /\ d.owner = instance /\ d \notin applied
    /\ policy' = d.cmd.quota
    /\ applied' = applied \cup {d}
    /\ UNCHANGED <<accounts, commands, claims, instance>>

Replace ==
    /\ instance < MaxInstances
    /\ instance' = instance + 1 /\ policy' = DefaultPolicy
    /\ UNCHANGED <<accounts, commands, claims, applied>>

Next ==
    \/ \E c \in Submissions : Change(c) \/ Accept(c)
    \/ \E d \in claims : Apply(d)
    \/ Replace

Spec == Init /\ [][Next]_vars
=============================================================================
