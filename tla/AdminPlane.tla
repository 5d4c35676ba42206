----------------------------- MODULE AdminPlane -----------------------------
(***************************************************************************)
(* The Admin control plane: AdminStore.command over migration 022, with the *)
(* usage database apart from the account database.                          *)
(*                                                                         *)
(* An account command is one transaction on the account database.  A quota  *)
(* command is three: it reads which usage database there is, has the change *)
(* accepted on the account database, and makes it on the usage database.    *)
(* Every mutation takes advisory lock (832,1) of its database until its     *)
(* transaction ends; the administrator may have been demoted by then.       *)
(*                                                                         *)
(* A slot r is a command being handled; "mutated", "accepting" and          *)
(* "applying" are transactions that have written and not ended.  The audit  *)
(* rows, which are written along with the rows of commands, are left out.   *)
(* Operators marked (slip) are wrong variants of the one that follows.      *)
(***************************************************************************)
EXTENDS Naturals

CONSTANTS Users,
          FirstAccounts,  \* the accounts at first
          DefaultPolicy,  \* the policy of a new usage database
          Submissions,    \* the commands administrators may send
          Slots,          \* commands in flight
          MaxInstances    \* bound: usage databases, one after the other

Accounts == [status : {"active", "suspended"}, role : {"consumer", "platform_admin"}]

ASSUME AdminAssumption ==
    /\ FirstAccounts \in [Users -> Accounts]
    /\ MaxInstances \in Nat
    /\ \A c \in Submissions :
          /\ c.op \in {"account", "quota"} /\ c.actor \in Users
          /\ c.op = "account" =>
                /\ c.target \in Users
                /\ \/ c.field = "status" /\ c.value \in {"active", "suspended"}
                   \/ c.field = "role" /\ c.value \in {"consumer", "platform_admin"}

VARIABLES accounts,  \* vnext_private.consumer_accounts
          commands,  \* admin_plane.commands of the account database
          claims,    \* admin_plane.claims
          instance,  \* which usage database there is: its admin_plane.instance
          policy,    \* its api_usage.quota_policy
          applied,   \* admin_plane.commands of the usage databases
          pc, req,
          owner      \* the usage database a quota command has read

vars == <<accounts, commands, claims, instance, policy, applied, pc, req, owner>>

NoCommand == [op |-> "none"]

Init ==
    /\ accounts = FirstAccounts
    /\ commands = {} /\ claims = {} /\ applied = {}
    /\ instance = 1 /\ policy = DefaultPolicy
    /\ pc = [r \in Slots |-> "idle"]
    /\ req = [r \in Slots |-> NoCommand]
    /\ owner = [r \in Slots |-> 0]

-----------------------------------------------------------------------------
Admin == [status |-> "active", role |-> "platform_admin"]

IsAdmin(u) == accounts[u] = Admin

\* The payload of an actor's key in a table of commands, if it has one.
Uses(d, c) == d.actor = c.actor /\ d.key = c.key

Claimed(c) == \E d \in claims : Uses(d.cmd, c)

\* (slip) without pg_advisory_xact_lock(832,1)
Unlocked(r, held) == TRUE

\* No other transaction of the database has the lock.
LockFree(r, held) == \A q \in Slots \ {r} : pc[q] \notin held

AccountLock == {"mutated", "accepting"}
UsageLock == {"applying"}

Goto(r, l) == pc' = [pc EXCEPT ![r] = l] /\ UNCHANGED <<req, owner>>

\* The command is over, with an answer, an error, or nobody left to answer.
End(r) ==
    /\ pc' = [pc EXCEPT ![r] = "idle"]
    /\ req' = [req EXCEPT ![r] = NoCommand]
    /\ owner' = [owner EXCEPT ![r] = 0]

db == <<accounts, commands, claims, instance, policy, applied>>

\* The first transaction finds an administrator; that of a quota command ends
\* with the usage database's owner string.
Begin(r) ==
    /\ pc[r] = "idle"
    /\ \E c \in Submissions :
          /\ IsAdmin(c.actor)
          /\ req' = [req EXCEPT ![r] = c]
          /\ \/ c.op = "account"
                /\ pc' = [pc EXCEPT ![r] = "account"] /\ UNCHANGED owner
             \/ c.op = "quota"
                /\ pc' = [pc EXCEPT ![r] = "accept"]
                /\ owner' = [owner EXCEPT ![r] = instance]
    /\ UNCHANGED db

\* The change would leave no active administrator.
LastAdmin(c) ==
    /\ IsAdmin(c.target) /\ c.value \in {"suspended", "consumer"}
    /\ \A u \in Users \ {c.target} : ~IsAdmin(u)

MayMutate(c) ==
    /\ IsAdmin(c.actor) /\ c.actor # c.target
    /\ ~Claimed(c) /\ ~LastAdmin(c)
    /\ \A d \in commands : ~Uses(d, c)

\* mutate_account: denied, a conflict, a replay, or the change.
Mutate(r) ==
    /\ pc[r] = "account"
    /\ LockFree(r, AccountLock)
    /\ IF MayMutate(req[r]) THEN Goto(r, "mutated") ELSE End(r)
    /\ UNCHANGED db

CommitMutation(r) ==
    /\ pc[r] = "mutated"
    /\ LET c == req[r]
       IN /\ accounts' = [accounts EXCEPT ![c.target][c.field] = c.value]
          /\ commands' = commands \cup {c}
    /\ End(r)
    /\ UNCHANGED <<claims, instance, policy, applied>>

Claim(r) == [cmd |-> req[r], owner |-> owner[r]]

\* accept_quota: the claim is there already, exactly, or the key is free.
MayAccept(r) ==
    /\ IsAdmin(req[r].actor)
    /\ \A d \in commands : ~Uses(d, req[r])
    /\ Claim(r) \in claims \/ ~Claimed(req[r])

Accept(r) ==
    /\ pc[r] = "accept"
    /\ LockFree(r, AccountLock)
    /\ IF MayAccept(r) THEN Goto(r, "accepting") ELSE End(r)
    /\ UNCHANGED db

\* The commit is acknowledged, or its answer is lost and the client may retry.
CommitAccept(r) ==
    /\ pc[r] = "accepting"
    /\ claims' = claims \cup {Claim(r)}
    /\ Goto(r, "dispatch") \/ End(r)
    /\ UNCHANGED <<accounts, commands, instance, policy, applied>>

\* (slip) the usage database is not asked again who it is
AnyOwner(r) == TRUE

SameOwner(r) == owner[r] = instance

\* (slip) mutate_quota does not look its own key up
NeverMade(r) == TRUE

\* The usage database at hand has not made a change under the key.
NotMade(r) == \A d \in applied : d.owner = instance => ~Uses(d.cmd, req[r])

\* mutate_quota on a new connection, if it leads to the database that was read.
Dispatch(r) ==
    /\ pc[r] = "dispatch"
    /\ LockFree(r, UsageLock)
    /\ IF SameOwner(r) /\ NotMade(r) THEN Goto(r, "applying") ELSE End(r)
    /\ UNCHANGED db

CommitApply(r) ==
    /\ pc[r] = "applying"
    /\ policy' = req[r].quota
    /\ applied' = applied \cup {[cmd |-> req[r], owner |-> instance]}
    /\ End(r)
    /\ UNCHANGED <<accounts, commands, claims, instance>>

\* The process dies, a lock is waited for too long, a connection breaks: what
\* has not been committed is rolled back.
Abort(r) ==
    /\ pc[r] # "idle"
    /\ End(r)
    /\ UNCHANGED db

\* Another usage database takes the place of this one.
ReplaceUsage ==
    /\ instance < MaxInstances
    /\ instance' = instance + 1
    /\ policy' = DefaultPolicy
    /\ pc' = [r \in Slots |-> IF pc[r] = "applying" THEN "idle" ELSE pc[r]]
    /\ req' = [r \in Slots |-> IF pc[r] = "applying" THEN NoCommand ELSE req[r]]
    /\ owner' = [r \in Slots |-> IF pc[r] = "applying" THEN 0 ELSE owner[r]]
    /\ UNCHANGED <<accounts, commands, claims, applied>>

Step ==
    \E r \in Slots :
        \/ Begin(r) \/ Mutate(r) \/ CommitMutation(r) \/ Accept(r) \/ CommitAccept(r)
        \/ Dispatch(r) \/ CommitApply(r) \/ Abort(r)

Next == Step \/ ReplaceUsage

Spec == Init /\ [][Next]_vars

-----------------------------------------------------------------------------
\* Two administrators who demote or suspend each other at the same time never
\* leave the platform without an active one (mutate_account's lock, and what
\* it reads under it).
AnAdminRemains == \E u \in Users : IsAdmin(u)

Log == INSTANCE AdminLog

\* Exactly what was accepted is done, once, by those who were administrators
\* when it was accepted: whatever crashes, answers lost, retries, demotions
\* and replaced databases come between the steps of a command.
ActsAreSerial == Log!Spec
=============================================================================
