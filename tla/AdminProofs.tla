----------------------------- MODULE AdminProofs -----------------------------
(***************************************************************************)
(* The Admin control plane keeps an administrator and implements AdminLog,  *)
(* by itself and together with the quota it controls.                       *)
(*                                                                         *)
(* The argument: between the checks of a mutation and its commit nobody     *)
(* else has the lock of its database, so what was checked still holds.  An  *)
(* account's actor is then an administrator, and not the target, when the   *)
(* change is made: the actor remains.  A change of the policy has its claim *)
(* by then, and no other change under the key in the database at hand.      *)
(*                                                                         *)
(* The quota's counters are those of its ledger, and an admission stays     *)
(* within its policy: the second half, with an argument of its own.         *)
(***************************************************************************)
EXTENDS QuotaControl, Functions, FiniteSetTheorems, WellFoundedInduction, TLAPS

SomeAdmin == \E u \in Users : FirstAccounts[u] = Admin

States == {"idle", "account", "mutated", "accept", "accepting", "dispatch", "applying"}

QuotaStates == {"accept", "accepting", "dispatch", "applying"}

Typed ==
    /\ accounts \in [Users -> Accounts]
    /\ pc \in [Slots -> States]
    /\ DOMAIN req = Slots /\ owner \in [Slots -> Nat]
    /\ instance \in Nat \ {0}
    /\ \A r \in Slots : pc[r] # "idle" => req[r] \in Submissions
    /\ \A r \in Slots : pc[r] \in {"account", "mutated"} => req[r].op = "account"
    /\ \A r \in Slots : pc[r] \in QuotaStates =>
          req[r].op = "quota" /\ owner[r] \in 1 .. instance

OneHolder ==
    \A held \in {AccountLock, UsageLock} : \A r, q \in Slots :
        pc[r] \in held /\ pc[q] \in held => r = q

StillAllowed ==
    \A r \in Slots :
        /\ pc[r] = "mutated" => MayMutate(req[r])
        /\ pc[r] = "accepting" => MayAccept(r)
        /\ pc[r] \in {"dispatch", "applying"} => Claim(r) \in claims
        /\ pc[r] = "applying" => SameOwner(r) /\ NotMade(r)

Inv == Typed /\ OneHolder /\ StillAllowed /\ AnAdminRemains

-----------------------------------------------------------------------------
LEMMA InitHolds ==
  ASSUME SomeAdmin
  PROVE  Init => Inv
<1>. SUFFICES ASSUME Init PROVE Inv
  OBVIOUS
<1>. USE DEF Init
<1>1. Typed
  BY AdminAssumption DEF Typed, States, QuotaStates
<1>2. OneHolder
  BY DEF OneHolder, AccountLock, UsageLock
<1>3. StillAllowed
  BY DEF StillAllowed
<1>4. AnAdminRemains
  BY DEF SomeAdmin, AnAdminRemains, IsAdmin
<1>. QED
  BY <1>1, <1>2, <1>3, <1>4 DEF Inv

\* A slot that moves without a change of either database.
LEMMA MoveKeeps ==
  ASSUME Inv, NEW r \in Slots, UNCHANGED db,
         pc' = [pc EXCEPT ![r] = pc'[r]], pc'[r] \in States,
         DOMAIN req' = Slots, owner' \in [Slots -> Nat],
         \A q \in Slots \ {r} : req'[q] = req[q] /\ owner'[q] = owner[q],
         pc'[r] # "idle" => req'[r] \in Submissions,
         pc'[r] \in {"account", "mutated"} => req'[r].op = "account",
         pc'[r] \in QuotaStates => req'[r].op = "quota" /\ owner'[r] \in 1 .. instance,
         pc'[r] \in AccountLock => LockFree(r, AccountLock),
         pc'[r] \in UsageLock => LockFree(r, UsageLock),
         pc'[r] = "mutated" => MayMutate(req'[r]),
         pc'[r] = "accepting" => MayAccept(r)',
         pc'[r] \in {"dispatch", "applying"} => Claim(r)' \in claims,
         pc'[r] = "applying" => SameOwner(r)' /\ NotMade(r)'
  PROVE  Inv'
<1>. USE DEF Inv
<1>0. \A q \in Slots \ {r} : pc'[q] = pc[q]
  BY DEF Typed
<1>1. Typed'
  <2>1. pc' \in [Slots -> States] /\ accounts' \in [Users -> Accounts] /\ instance' \in Nat \ {0}
    BY DEF Typed, db
  <2>2. \A q \in Slots : pc'[q] # "idle" => req'[q] \in Submissions
    BY <1>0 DEF Typed
  <2>3. \A q \in Slots : pc'[q] \in {"account", "mutated"} => req'[q].op = "account"
    BY <1>0 DEF Typed
  <2>4. \A q \in Slots : pc'[q] \in QuotaStates => req'[q].op = "quota" /\ owner'[q] \in 1 .. instance'
    BY <1>0 DEF Typed, db
  <2>. QED
    BY <2>1, <2>2, <2>3, <2>4 DEF Typed
<1>2. OneHolder'
  BY <1>0 DEF OneHolder, LockFree, AccountLock, UsageLock
<1>3. StillAllowed'
  BY <1>0 DEF StillAllowed, MayMutate, MayAccept, IsAdmin, Claimed, LastAdmin, Claim, SameOwner, NotMade, db
<1>4. AnAdminRemains'
  BY DEF AnAdminRemains, IsAdmin, db
<1>. QED
  BY <1>1, <1>2, <1>3, <1>4

\* A slot whose command is over, whatever it has committed.
LEMMA EndKeeps ==
  ASSUME Inv, NEW r \in Slots, End(r)
  PROVE  /\ pc' \in [Slots -> States] /\ DOMAIN req' = Slots /\ owner' \in [Slots -> Nat]
         /\ pc'[r] = "idle"
         /\ \A q \in Slots \ {r} : pc'[q] = pc[q] /\ req'[q] = req[q] /\ owner'[q] = owner[q]
BY DEF Inv, Typed, End, States

LEMMA EndsKeeps ==
  ASSUME Inv, NEW r \in Slots, End(r), UNCHANGED db
  PROVE  Inv'
<1>1. pc' = [pc EXCEPT ![r] = pc'[r]]
  BY DEF End, Inv, Typed
<1>2. pc'[r] = "idle"
  BY EndKeeps
<1>. QED
  BY <1>1, <1>2, EndKeeps, MoveKeeps DEF QuotaStates, AccountLock, UsageLock, States

\* A slot that takes a step of its command.
LEMMA GotoKeeps ==
  ASSUME Inv, NEW r \in Slots, NEW l \in States, pc[r] # "idle", Goto(r, l), UNCHANGED db,
         l \in {"account", "mutated"} => req[r].op = "account",
         l \in QuotaStates => pc[r] \in QuotaStates,
         l \in AccountLock => LockFree(r, AccountLock),
         l \in UsageLock => LockFree(r, UsageLock),
         l = "mutated" => MayMutate(req[r]),
         l = "accepting" => MayAccept(r),
         l \in {"dispatch", "applying"} => Claim(r) \in claims,
         l = "applying" => SameOwner(r) /\ NotMade(r)
  PROVE  Inv'
<1>1. pc' = [pc EXCEPT ![r] = pc'[r]] /\ pc'[r] = l /\ UNCHANGED <<req, owner>>
  BY DEF Goto, Inv, Typed
<1>2. /\ MayAccept(r)' = MayAccept(r) /\ Claim(r)' = Claim(r)
      /\ SameOwner(r)' = SameOwner(r) /\ NotMade(r)' = NotMade(r)
  BY <1>1 DEF MayAccept, IsAdmin, Claim, Claimed, SameOwner, NotMade, db
<1>3. claims' = claims
  BY DEF db
<1>. HIDE DEF MayAccept, Claim, SameOwner, NotMade
<1>4. DOMAIN req' = Slots /\ owner' \in [Slots -> Nat]
  BY <1>1 DEF Inv, Typed
<1>5. /\ req[r] \in Submissions
      /\ l \in QuotaStates => req[r].op = "quota" /\ owner[r] \in 1 .. instance
  BY DEF Inv, Typed
<1>. QED
  BY <1>1, <1>2, <1>3, <1>4, <1>5, MoveKeeps

-----------------------------------------------------------------------------
\* What has been checked under a lock is not undone by the commits of others,
\* who do not have it.
LEMMA CommitMutationKeeps ==
  ASSUME Inv, NEW r \in Slots, CommitMutation(r)
  PROVE  Inv'
<1>. DEFINE c == req[r]
<1>0. /\ pc[r] = "mutated" /\ End(r)
      /\ accounts' = [accounts EXCEPT ![c.target][c.field] = c.value]
      /\ commands' = commands \cup {c}
      /\ UNCHANGED <<claims, instance, policy, applied>>
  BY DEF CommitMutation
<1>1. c \in Submissions /\ c.op = "account" /\ MayMutate(c)
  BY <1>0 DEF Inv, Typed, StillAllowed
<1>2. /\ c.actor \in Users /\ c.target \in Users
      /\ \/ c.field = "status" /\ c.value \in {"active", "suspended"}
         \/ c.field = "role" /\ c.value \in {"consumer", "platform_admin"}
  BY <1>1, AdminAssumption
<1>3. /\ pc' \in [Slots -> States] /\ DOMAIN req' = Slots /\ owner' \in [Slots -> Nat]
      /\ pc'[r] = "idle"
      /\ \A q \in Slots \ {r} : pc'[q] = pc[q] /\ req'[q] = req[q] /\ owner'[q] = owner[q]
  BY <1>0, EndKeeps
<1>4. accounts \in [Users -> Accounts] /\ accounts[c.target] \in Accounts
  BY <1>2 DEF Inv, Typed
<1>5. accounts' \in [Users -> Accounts]
  BY <1>0, <1>2, <1>4 DEF Accounts
<1>6. Typed'
  BY <1>0, <1>3, <1>5 DEF Typed, Inv, QuotaStates
<1>7. OneHolder'
  BY <1>3 DEF Inv, OneHolder, AccountLock, UsageLock
<1>8. \A q \in Slots \ {r} : pc'[q] \notin AccountLock
  BY <1>0, <1>3 DEF Inv, OneHolder, AccountLock
<1>9. StillAllowed'
  BY <1>0, <1>3, <1>8 DEF Inv, StillAllowed, AccountLock, Claim, SameOwner, NotMade
<1>10. AnAdminRemains'
  <2>1. IsAdmin(c.actor) /\ c.actor # c.target
    BY <1>1 DEF MayMutate
  <2>2. accounts'[c.actor] = accounts[c.actor]
    BY <1>0, <1>2, <1>4, <2>1
  <2>. QED
    BY <1>2, <2>1, <2>2 DEF AnAdminRemains, IsAdmin
<1>. QED
  BY <1>6, <1>7, <1>9, <1>10 DEF Inv

LEMMA CommitAcceptKeeps ==
  ASSUME Inv, NEW r \in Slots, CommitAccept(r)
  PROVE  Inv'
<1>0. /\ pc[r] = "accepting" /\ claims' = claims \cup {Claim(r)}
      /\ UNCHANGED <<accounts, commands, instance, policy, applied>>
  BY DEF CommitAccept
<1>1. /\ pc' \in [Slots -> States] /\ DOMAIN req' = Slots /\ owner' \in [Slots -> Nat]
      /\ \/ pc'[r] = "idle"
         \/ pc'[r] = "dispatch" /\ req' = req /\ owner' = owner
      /\ \A q \in Slots \ {r} : pc'[q] = pc[q] /\ req'[q] = req[q] /\ owner'[q] = owner[q]
  <2>1. CASE End(r)
    BY <2>1, EndKeeps
  <2>2. CASE Goto(r, "dispatch")
    BY <2>2 DEF Goto, Inv, Typed, States
  <2>. QED
    BY <2>1, <2>2 DEF CommitAccept
<1>2. Typed'
  BY <1>0, <1>1 DEF Typed, Inv, QuotaStates
<1>3. OneHolder'
  BY <1>1 DEF Inv, OneHolder, AccountLock, UsageLock
<1>4. \A q \in Slots \ {r} : pc'[q] \notin AccountLock
  BY <1>0, <1>1 DEF Inv, OneHolder, AccountLock
<1>5. StillAllowed'
  <2>1. \A q \in Slots : pc'[q] # "mutated" /\ pc'[q] # "accepting"
    BY <1>1, <1>4 DEF AccountLock
  <2>2. \A q \in Slots \ {r} :
           /\ pc'[q] \in {"dispatch", "applying"} => Claim(q)' \in claims'
           /\ pc'[q] = "applying" => SameOwner(q)' /\ NotMade(q)'
    BY <1>0, <1>1 DEF Inv, StillAllowed, Claim, SameOwner, NotMade
  <2>3. pc'[r] = "dispatch" => Claim(r)' \in claims'
    BY <1>0, <1>1 DEF Claim
  <2>. QED
    BY <1>1, <2>1, <2>2, <2>3 DEF StillAllowed
<1>6. AnAdminRemains'
  BY <1>0 DEF Inv, AnAdminRemains, IsAdmin
<1>. QED
  BY <1>2, <1>3, <1>5, <1>6 DEF Inv

LEMMA CommitApplyKeeps ==
  ASSUME Inv, NEW r \in Slots, CommitApply(r)
  PROVE  Inv'
<1>0. /\ pc[r] = "applying" /\ End(r)
      /\ UNCHANGED <<accounts, commands, claims, instance>>
  BY DEF CommitApply
<1>1. /\ pc' \in [Slots -> States] /\ DOMAIN req' = Slots /\ owner' \in [Slots -> Nat]
      /\ pc'[r] = "idle"
      /\ \A q \in Slots \ {r} : pc'[q] = pc[q] /\ req'[q] = req[q] /\ owner'[q] = owner[q]
  BY <1>0, EndKeeps
<1>2. Typed'
  BY <1>0, <1>1 DEF Typed, Inv, QuotaStates
<1>3. OneHolder'
  BY <1>1 DEF Inv, OneHolder, AccountLock, UsageLock
<1>4. \A q \in Slots \ {r} : pc'[q] \notin UsageLock
  BY <1>0, <1>1 DEF Inv, OneHolder, UsageLock
<1>5. StillAllowed'
  BY <1>0, <1>1, <1>4 DEF Inv, StillAllowed, UsageLock, MayMutate, MayAccept, IsAdmin, Claimed, LastAdmin, Claim
<1>6. AnAdminRemains'
  BY <1>0 DEF Inv, AnAdminRemains, IsAdmin
<1>. QED
  BY <1>2, <1>3, <1>5, <1>6 DEF Inv

LEMMA ReplaceKeeps ==
  ASSUME Inv, ReplaceUsage
  PROVE  Inv'
<1>0. /\ instance' = instance + 1 /\ UNCHANGED <<accounts, commands, claims, applied>>
      /\ \A r \in Slots :
           \/ pc'[r] = "idle"
           \/ pc'[r] = pc[r] /\ pc[r] # "applying" /\ req'[r] = req[r] /\ owner'[r] = owner[r]
      /\ \A r \in Slots : pc'[r] \in States /\ pc'[r] # "applying"
      /\ DOMAIN req' = Slots /\ owner' \in [Slots -> Nat] /\ pc' \in [Slots -> States]
  BY DEF ReplaceUsage, Inv, Typed, States
<1>1. Typed'
  BY <1>0 DEF Typed, Inv, QuotaStates
<1>2. OneHolder'
  BY <1>0 DEF Inv, OneHolder, AccountLock, UsageLock
<1>3. StillAllowed'
  BY <1>0 DEF Inv, StillAllowed, MayMutate, MayAccept, IsAdmin, Claimed, LastAdmin, Claim
<1>4. AnAdminRemains'
  BY <1>0 DEF Inv, AnAdminRemains, IsAdmin
<1>. QED
  BY <1>1, <1>2, <1>3, <1>4 DEF Inv

LEMMA StepKeeps ==
  ASSUME Inv, NEW r \in Slots,
         \/ Begin(r) \/ Mutate(r) \/ CommitMutation(r) \/ Accept(r) \/ CommitAccept(r)
         \/ Dispatch(r) \/ CommitApply(r) \/ Abort(r)
  PROVE  Inv'
<1>1. CASE Begin(r)
  <2>1. PICK c \in Submissions :
          /\ req' = [req EXCEPT ![r] = c]
          /\ \/ c.op = "account" /\ pc' = [pc EXCEPT ![r] = "account"] /\ UNCHANGED owner
             \/ /\ c.op = "quota" /\ pc' = [pc EXCEPT ![r] = "accept"]
                /\ owner' = [owner EXCEPT ![r] = instance]
    BY <1>1 DEF Begin
  <2>2. /\ DOMAIN req' = Slots /\ owner' \in [Slots -> Nat]
        /\ pc'[r] \in {"account", "accept"} /\ pc' = [pc EXCEPT ![r] = pc'[r]]
        /\ req'[r] = c
        /\ \A q \in Slots \ {r} : req'[q] = req[q] /\ owner'[q] = owner[q]
        /\ pc'[r] = "account" => c.op = "account"
        /\ pc'[r] = "accept" => c.op = "quota" /\ owner'[r] \in 1 .. instance
    BY <2>1 DEF Inv, Typed
  <2>3. UNCHANGED db
    BY <1>1 DEF Begin
  <2>. QED
    BY <2>2, <2>3, MoveKeeps DEF States, QuotaStates, AccountLock, UsageLock
<1>2. CASE Mutate(r)
  <2>1. CASE End(r) /\ UNCHANGED db
    BY <2>1, EndsKeeps
  <2>2. CASE Goto(r, "mutated") /\ UNCHANGED db /\ MayMutate(req[r]) /\ LockFree(r, AccountLock)
    <3>1. pc[r] = "account" /\ req[r].op = "account"
      BY <1>2 DEF Mutate, Inv, Typed
    <3>. QED
      BY <2>2, <3>1, GotoKeeps DEF States, QuotaStates, UsageLock
  <2>. QED
    BY <1>2, <2>1, <2>2 DEF Mutate
<1>3. CASE Accept(r)
  <2>1. CASE End(r) /\ UNCHANGED db
    BY <2>1, EndsKeeps
  <2>2. CASE Goto(r, "accepting") /\ UNCHANGED db /\ MayAccept(r) /\ LockFree(r, AccountLock)
    <3>1. pc[r] = "accept"
      BY <1>3 DEF Accept
    <3>. QED
      BY <2>2, <3>1, GotoKeeps DEF States, QuotaStates, UsageLock
  <2>. QED
    BY <1>3, <2>1, <2>2 DEF Accept
<1>4. CASE Dispatch(r)
  <2>1. CASE End(r) /\ UNCHANGED db
    BY <2>1, EndsKeeps
  <2>2. CASE /\ Goto(r, "applying") /\ UNCHANGED db
             /\ SameOwner(r) /\ NotMade(r) /\ LockFree(r, UsageLock)
    <3>1. pc[r] = "dispatch" /\ Claim(r) \in claims
      BY <1>4 DEF Dispatch, Inv, StillAllowed
    <3>. QED
      BY <2>2, <3>1, GotoKeeps DEF States, QuotaStates, AccountLock
  <2>. QED
    BY <1>4, <2>1, <2>2 DEF Dispatch
<1>5. CASE Abort(r)
  BY <1>5, EndsKeeps DEF Abort
<1>. QED
  BY <1>1, <1>2, <1>3, <1>4, <1>5, CommitMutationKeeps, CommitAcceptKeeps, CommitApplyKeeps

LEMMA InvKept ==
  ASSUME Inv, [Next]_vars
  PROVE  Inv'
<1>1. CASE UNCHANGED vars
  BY <1>1 DEF vars, Inv, Typed, OneHolder, StillAllowed, AnAdminRemains, IsAdmin, MayMutate,
              MayAccept, Claimed, LastAdmin, Claim, SameOwner, NotMade
<1>2. CASE Step
  BY <1>2, StepKeeps DEF Step
<1>3. CASE ReplaceUsage
  BY <1>3, ReplaceKeeps
<1>. QED
  BY <1>1, <1>2, <1>3 DEF Next

-----------------------------------------------------------------------------
\* Every step is one of the log, or none.
LEMMA StepMaps ==
  ASSUME Inv, [Next]_vars
  PROVE  [Log!Next]_Log!vars
<1>1. CASE UNCHANGED <<accounts, commands, claims, instance, policy, applied>>
  BY <1>1 DEF Log!vars
<1>2. CASE ReplaceUsage
  BY <1>2 DEF ReplaceUsage, Log!Replace, Log!Next
<1>3. ASSUME NEW r \in Slots, CommitMutation(r)
      PROVE  Log!Next
  <2>1. req[r] \in Submissions /\ req[r].op = "account" /\ MayMutate(req[r])
    BY <1>3 DEF CommitMutation, Inv, Typed, StillAllowed
  <2>2. Log!Change(req[r])
    BY <1>3, <2>1 DEF CommitMutation, Log!Change, Log!IsAdmin, Log!Used, MayMutate, IsAdmin, Admin, Claimed, Uses
  <2>. QED
    BY <2>1, <2>2 DEF Log!Next
<1>4. ASSUME NEW r \in Slots, CommitAccept(r)
      PROVE  [Log!Next]_Log!vars
  <2>1. req[r] \in Submissions /\ req[r].op = "quota" /\ owner[r] \in 1 .. instance /\ MayAccept(r)
    BY <1>4 DEF CommitAccept, Inv, Typed, StillAllowed, QuotaStates
  <2>2. CASE Claim(r) \in claims
    BY <1>4, <2>2 DEF CommitAccept, Log!vars
  <2>3. CASE Claim(r) \notin claims
    <3>1. Log!Accept(req[r])
      BY <1>4, <2>1, <2>3 DEF CommitAccept, Log!Accept, Log!IsAdmin, Log!Used, MayAccept, IsAdmin, Admin, Claimed, Uses, Claim
    <3>. QED
      BY <2>1, <3>1 DEF Log!Next
  <2>. QED
    BY <2>2, <2>3
<1>5. ASSUME NEW r \in Slots, CommitApply(r)
      PROVE  Log!Next
  <2>. DEFINE d == Claim(r)
  <2>1. d \in claims /\ SameOwner(r) /\ NotMade(r)
    BY <1>5 DEF CommitApply, Inv, StillAllowed
  <2>2. d = [cmd |-> req[r], owner |-> instance]
    BY <2>1 DEF Claim, SameOwner
  <2>3. d \notin applied
    BY <2>1, <2>2 DEF NotMade, Uses
  <2>4. Log!Apply(d)
    BY <1>5, <2>2, <2>3 DEF CommitApply, Log!Apply
  <2>. QED
    BY <2>1, <2>4 DEF Log!Next
<1>6. CASE \E r \in Slots : Begin(r) \/ Mutate(r) \/ Accept(r) \/ Dispatch(r) \/ Abort(r)
  BY <1>6, <1>1 DEF Begin, Mutate, Accept, Dispatch, Abort, db
<1>7. CASE UNCHANGED vars
  BY <1>1, <1>7 DEF vars
<1>. QED
  BY <1>2, <1>3, <1>4, <1>5, <1>6, <1>7 DEF Next, Step

LEMMA InitMaps == Init => Log!Init
BY DEF Init, Log!Init

-----------------------------------------------------------------------------
\* The quota's steps are none of the control plane's.
LEMMA QuotaIsApart ==
  ASSUME [ControlNext]_<<vars, quota>>
  PROVE  [Next]_vars
<1>1. Guard!Next => UNCHANGED policy
  BY DEF Guard!Next, Guard!Arrive, Guard!Lock, Guard!Commit, Guard!Fail, Guard!Tick,
         Guard!PruneMarkers, Guard!PruneSubject
<1>. QED
  BY <1>1 DEF ControlNext, Replace, Next, vars

\* Two administrators who demote or suspend each other never leave the platform
\* without an active one, for every number of users, commands and slots, if
\* there is one at first (mutate_account of migration 022).
THEOREM TheLastAdminStays ==
  ASSUME SomeAdmin
  PROVE  ControlSpec => []AnAdminRemains
<1>1. ControlInit => Inv
  BY InitHolds DEF ControlInit
<1>2. Inv /\ [ControlNext]_<<vars, quota>> => Inv'
  BY QuotaIsApart, InvKept
<1>3. Inv => AnAdminRemains
  BY DEF Inv
<1>. QED
  BY <1>1, <1>2, <1>3, PTL DEF ControlSpec

\* What administrators do is serial: exactly what was accepted is done, at most
\* once, in the usage database it was accepted for (accept_quota and
\* mutate_quota of migration 022, AdminStore.command).
THEOREM AdministrationIsSerial ==
  ASSUME SomeAdmin
  PROVE  ControlSpec => ActsAreSerial
<1>1. ControlInit => Inv /\ Log!Init
  BY InitHolds, InitMaps DEF ControlInit
<1>2. Inv /\ [ControlNext]_<<vars, quota>> => Inv' /\ [Log!Next]_Log!vars
  BY QuotaIsApart, InvKept, StepMaps
<1>. QED
  BY <1>1, <1>2, PTL DEF ControlSpec, ActsAreSerial, Log!Spec

-----------------------------------------------------------------------------
(* The day's total is a sum over the hours of the ledger: sums over finite  *)
(* sets, by induction on a smallest counterexample.                         *)

\* A set of numbers has a smallest member.
LEMMA SmallestNumber ==
    ASSUME NEW N, N \subseteq Nat, N # {}
    PROVE  \E n \in N : \A k \in N : n <= k
<1>1. PICK n \in N : \A k \in N : ~(<<k, n>> \in OpToRel(<, Nat))
  BY WFMin, NatLessThanWellFounded
<1>2. \A k \in N : ~(k < n)
  BY <1>1 DEF OpToRel
<1> QED BY <1>2

\* A set of finite sets has a smallest member.
LEMMA SmallestSet ==
    ASSUME NEW B, B # {}, \A s \in B : IsFiniteSet(s)
    PROVE  \E s \in B : \A u \in SUBSET s : u # s => u \notin B
<1> DEFINE Counts == {Cardinality(s) : s \in B}
<1>1. Counts \subseteq Nat /\ Counts # {}
  BY FS_CardinalityType
<1>2. PICK n \in Counts : \A k \in Counts : n <= k
  <2> HIDE DEF Counts
  <2> QED BY <1>1, SmallestNumber
<1>3. PICK s \in B : n = Cardinality(s)
  BY <1>2
<1>4. ASSUME NEW u \in SUBSET s, u # s, u \in B PROVE FALSE
  <2>1. Cardinality(u) <= Cardinality(s) /\ Cardinality(u) # Cardinality(s)
    BY <1>4, FS_Subset
  <2>2. Cardinality(u) \in Counts /\ Cardinality(u) \in Nat /\ Cardinality(s) \in Nat
    BY <1>1, <1>4
  <2> HIDE DEF Counts
  <2> QED BY <2>1, <2>2, <1>2, <1>3
<1>5. \A u \in SUBSET s : u # s => u \notin B
  BY <1>4
<1> QED BY <1>5, <1>3

\* The recursion of SumFunctionOnSet, over the subsets of a set.
Adds(sum, f, S) ==
    sum = [s \in SUBSET S |->
             IF s = {} THEN 0
             ELSE f[CHOOSE x \in s : TRUE] + sum[s \ {CHOOSE x \in s : TRUE}]]

LEMMA AddsOnce ==
    ASSUME NEW f, NEW S, IsFiniteSet(S), NEW T \in SUBSET S,
           NEW g, Adds(g, f, S), NEW h, Adds(h, f, T)
    PROVE  \A s \in SUBSET T : g[s] = h[s]
<1> DEFINE B == {s \in SUBSET T : g[s] # h[s]}
<1> SUFFICES ASSUME B # {} PROVE FALSE
  OBVIOUS
<1>1. \A s \in B : IsFiniteSet(s)
  BY FS_Subset
<1>2. PICK s \in B : \A u \in SUBSET s : u # s => u \notin B
  BY <1>1, SmallestSet
<1> DEFINE x == CHOOSE x \in s : TRUE
<1>3. g[s] = (IF s = {} THEN 0 ELSE f[x] + g[s \ {x}])
  BY DEF Adds
<1>4. h[s] = (IF s = {} THEN 0 ELSE f[x] + h[s \ {x}])
  BY DEF Adds
<1>5. s # {}
  BY <1>3, <1>4
<1>6. x \in s
  BY <1>5
<1> HIDE DEF x
<1>7. g[s \ {x}] = h[s \ {x}]
  BY <1>2, <1>6
<1> QED BY <1>3, <1>4, <1>5, <1>7

SumsOf(f, S) == CHOOSE sum : Adds(sum, f, S)

LEMMA AddsExists ==
    ASSUME NEW f, NEW S, IsFiniteSet(S) PROVE \E sum : Adds(sum, f, S)
<1> DEFINE B == {s \in SUBSET S : ~\E sum : Adds(sum, f, s)}
<1> SUFFICES ASSUME B # {} PROVE FALSE
  OBVIOUS
<1>1. \A s \in B : IsFiniteSet(s)
  BY FS_Subset
<1>2. PICK T \in B : \A u \in SUBSET T : u # T => u \notin B
  BY <1>1, SmallestSet
<1>3. \A u \in SUBSET T : u # T => Adds(SumsOf(f, u), f, u)
  BY <1>2 DEF SumsOf
<1> DEFINE c(s) == CHOOSE x \in s : TRUE
           it == [s \in SUBSET T |-> IF s = {} THEN 0 ELSE f[c(s)] + SumsOf(f, s \ {c(s)})[s \ {c(s)}]]
<1>4. ASSUME NEW s \in SUBSET T, s # {} PROVE it[s \ {c(s)}] = SumsOf(f, s \ {c(s)})[s \ {c(s)}]
  <2> DEFINE u == s \ {c(s)}
  <2>1. c(s) \in s
    BY <1>4
  <2>2. u \in SUBSET T /\ u # T
    BY <2>1
  <2> HIDE DEF u, c, it
  <2>3. Adds(SumsOf(f, u), f, u)
    BY <2>2, <1>3
  <2>4. it[u] = IF u = {} THEN 0 ELSE f[c(u)] + SumsOf(f, u \ {c(u)})[u \ {c(u)}]
    BY <2>2 DEF it
  <2>5. SumsOf(f, u)[u] = IF u = {} THEN 0 ELSE f[c(u)] + SumsOf(f, u)[u \ {c(u)}]
    BY <2>3 DEF Adds, c
  <2>6. CASE u # {}
    <3>1. c(u) \in u
      BY <2>6 DEF c
    <3>2. (u \ {c(u)}) \in SUBSET T /\ u \ {c(u)} # T /\ (u \ {c(u)}) \in SUBSET u
      BY <2>2
    <3>3. Adds(SumsOf(f, u \ {c(u)}), f, u \ {c(u)})
      BY <3>2, <1>3
    <3>4. IsFiniteSet(u)
      BY <2>2, FS_Subset
    <3>5. SumsOf(f, u)[u \ {c(u)}] = SumsOf(f, u \ {c(u)})[u \ {c(u)}]
      BY <3>2, <3>3, <3>4, <2>3, AddsOnce
    <3> QED BY <2>4, <2>5, <2>6, <3>5 DEF u
  <2>7. CASE u = {}
    BY <2>4, <2>5, <2>7 DEF u
  <2> QED BY <2>6, <2>7
<1>5. it = [s \in SUBSET T |-> IF s = {} THEN 0 ELSE f[c(s)] + it[s \ {c(s)}]]
  <2> HIDE DEF c
  <2>1. \A s \in SUBSET T : it[s] = (IF s = {} THEN 0 ELSE f[c(s)] + it[s \ {c(s)}])
    BY <1>4
  <2> QED BY <2>1
<1>6. Adds(it, f, T)
  BY <1>5 DEF Adds
<1> QED BY <1>6

LEMMA SumUnfolds ==
    ASSUME NEW f, NEW S, IsFiniteSet(S)
    PROVE  /\ Adds(SumsOf(f, S), f, S)
           /\ SumFunctionOnSet(f, S) = SumsOf(f, S)[S]
<1>1. Adds(SumsOf(f, S), f, S)
  <2>1. \E sum : Adds(sum, f, S)
    BY AddsExists
  <2> QED BY <2>1 DEF SumsOf
<1>2. SumFunctionOnSet(f, S) = SumsOf(f, S)[S]
  BY DEF SumFunctionOnSet, FoldFunctionOnSet, MapThenFoldSet, SumsOf, Adds
<1> QED BY <1>1, <1>2

LEMMA SumStep ==
    ASSUME NEW f, NEW S, IsFiniteSet(S)
    PROVE  SumFunctionOnSet(f, S) = IF S = {} THEN 0
                       ELSE f[CHOOSE x \in S : TRUE] + SumFunctionOnSet(f, S \ {CHOOSE x \in S : TRUE})
<1> DEFINE c == CHOOSE x \in S : TRUE
<1>1. SumFunctionOnSet(f, S) = IF S = {} THEN 0 ELSE f[c] + SumsOf(f, S)[S \ {c}]
  <2> DEFINE g == SumsOf(f, S)
  <2>1. Adds(g, f, S) /\ SumFunctionOnSet(f, S) = g[S] /\ S \in SUBSET S
    BY SumUnfolds
  <2> HIDE DEF g
  <2>2. g[S] = IF S = {} THEN 0 ELSE f[c] + g[S \ {c}]
    BY <2>1 DEF Adds
  <2> QED BY <2>1, <2>2 DEF g
<1>2. IsFiniteSet(S \ {c}) /\ (S \ {c}) \in SUBSET S
  BY FS_Subset
<1> HIDE DEF c
<1>3. SumsOf(f, S)[S \ {c}] = SumsOf(f, S \ {c})[S \ {c}]
  <2>1. Adds(SumsOf(f, S), f, S) /\ Adds(SumsOf(f, S \ {c}), f, S \ {c})
    BY <1>2, SumUnfolds
  <2> QED BY <2>1, <1>2, AddsOnce
<1>4. SumsOf(f, S \ {c})[S \ {c}] = SumFunctionOnSet(f, S \ {c})
  BY <1>2, SumUnfolds
<1>5. SumFunctionOnSet(f, S) = IF S = {} THEN 0 ELSE f[c] + SumFunctionOnSet(f, S \ {c})
  BY <1>1, <1>3, <1>4
<1> QED BY <1>5 DEF c

LEMMA SumIsNat ==
    ASSUME NEW f, NEW S, IsFiniteSet(S), \A x \in S : f[x] \in Nat
    PROVE  SumFunctionOnSet(f, S) \in Nat
<1> DEFINE B == {s \in SUBSET S : SumFunctionOnSet(f, s) \notin Nat}
<1> SUFFICES ASSUME B # {} PROVE FALSE
  OBVIOUS
<1>1. \A s \in B : IsFiniteSet(s)
  BY FS_Subset
<1>2. PICK s \in B : \A u \in SUBSET s : u # s => u \notin B
  BY <1>1, SmallestSet
<1> DEFINE c == CHOOSE x \in s : TRUE
<1>3. SumFunctionOnSet(f, s) = IF s = {} THEN 0 ELSE f[c] + SumFunctionOnSet(f, s \ {c})
  BY <1>1, SumStep
<1>4. s # {} => c \in s
  OBVIOUS
<1> HIDE DEF c
<1>5. s # {} => SumFunctionOnSet(f, s \ {c}) \in Nat /\ f[c] \in Nat
  BY <1>2, <1>4
<1> QED BY <1>3, <1>5

\* Which element is taken first does not matter.
LEMMA SumWith ==
    ASSUME NEW f, NEW S, IsFiniteSet(S), \A x \in S : f[x] \in Nat, NEW a \in S
    PROVE  SumFunctionOnSet(f, S) = f[a] + SumFunctionOnSet(f, S \ {a})
<1> DEFINE B == {s \in SUBSET S : \E e \in s : SumFunctionOnSet(f, s) # f[e] + SumFunctionOnSet(f, s \ {e})}
<1> SUFFICES ASSUME B # {} PROVE FALSE
  OBVIOUS
<1>1. \A s \in B : IsFiniteSet(s)
  BY FS_Subset
<1>2. PICK s \in B : \A u \in SUBSET s : u # s => u \notin B
  BY <1>1, SmallestSet
<1>3. PICK e \in s : SumFunctionOnSet(f, s) # f[e] + SumFunctionOnSet(f, s \ {e})
  BY <1>2
<1> DEFINE c == CHOOSE x \in s : TRUE
<1>4. SumFunctionOnSet(f, s) = f[c] + SumFunctionOnSet(f, s \ {c}) /\ c \in s
  BY <1>1, <1>3, SumStep
<1> HIDE DEF c
<1>5. c # e
  BY <1>3, <1>4
<1>6. SumFunctionOnSet(f, s \ {c}) = f[e] + SumFunctionOnSet(f, (s \ {c}) \ {e})
  BY <1>2, <1>4, <1>5
<1>7. SumFunctionOnSet(f, s \ {e}) = f[c] + SumFunctionOnSet(f, (s \ {e}) \ {c})
  BY <1>2, <1>3, <1>4, <1>5
<1>8. (s \ {c}) \ {e} = (s \ {e}) \ {c} /\ IsFiniteSet((s \ {c}) \ {e})
  BY <1>1, FS_Subset
<1>9. SumFunctionOnSet(f, (s \ {c}) \ {e}) \in Nat /\ f[c] \in Nat /\ f[e] \in Nat
  BY <1>8, SumIsNat, <1>3, <1>4
<1> QED BY <1>3, <1>4, <1>6, <1>7, <1>8, <1>9

LEMMA SumOfEqual ==
    ASSUME NEW f, NEW g, NEW S, IsFiniteSet(S), \A x \in S : f[x] = g[x]
    PROVE  SumFunctionOnSet(f, S) = SumFunctionOnSet(g, S)
<1> DEFINE B == {s \in SUBSET S : SumFunctionOnSet(f, s) # SumFunctionOnSet(g, s)}
<1> SUFFICES ASSUME B # {} PROVE FALSE
  OBVIOUS
<1>1. \A s \in B : IsFiniteSet(s)
  BY FS_Subset
<1>2. PICK s \in B : \A u \in SUBSET s : u # s => u \notin B
  BY <1>1, SmallestSet
<1> DEFINE c == CHOOSE x \in s : TRUE
<1>3. /\ SumFunctionOnSet(f, s) = IF s = {} THEN 0 ELSE f[c] + SumFunctionOnSet(f, s \ {c})
      /\ SumFunctionOnSet(g, s) = IF s = {} THEN 0 ELSE g[c] + SumFunctionOnSet(g, s \ {c})
  BY <1>1, SumStep
<1>4. s # {} => c \in s
  OBVIOUS
<1> HIDE DEF c
<1>5. s # {} => SumFunctionOnSet(f, s \ {c}) = SumFunctionOnSet(g, s \ {c}) /\ f[c] = g[c]
  BY <1>2, <1>4
<1> QED BY <1>2, <1>3, <1>5

LEMMA SumOfZeros ==
    ASSUME NEW f, NEW S, IsFiniteSet(S), \A x \in S : f[x] = 0
    PROVE  SumFunctionOnSet(f, S) = 0
<1> DEFINE B == {s \in SUBSET S : SumFunctionOnSet(f, s) # 0}
<1> SUFFICES ASSUME B # {} PROVE FALSE
  OBVIOUS
<1>1. \A s \in B : IsFiniteSet(s)
  BY FS_Subset
<1>2. PICK s \in B : \A u \in SUBSET s : u # s => u \notin B
  BY <1>1, SmallestSet
<1> DEFINE c == CHOOSE x \in s : TRUE
<1>3. SumFunctionOnSet(f, s) = IF s = {} THEN 0 ELSE f[c] + SumFunctionOnSet(f, s \ {c})
  BY <1>1, SumStep
<1>4. s # {} => c \in s
  OBVIOUS
<1> HIDE DEF c
<1>5. s # {} => SumFunctionOnSet(f, s \ {c}) = 0 /\ f[c] = 0
  BY <1>2, <1>4
<1> QED BY <1>2, <1>3, <1>5

-----------------------------------------------------------------------------
(* Ticks, hours and days.                                                  *)

LEMMA DivBounds ==
    ASSUME NEW x \in Nat, NEW D \in Nat \ {0}
    PROVE  x \div D \in Nat /\ (x \div D) * D <= x /\ x < (x \div D) * D + D
OBVIOUS

LEMMA TimesLess ==
    ASSUME NEW a \in Int, NEW b \in Int, NEW D \in Nat \ {0}, a < b
    PROVE  a * D + D <= b * D
OBVIOUS

LEMMA DivUnique ==
    ASSUME NEW x \in Nat, NEW D \in Nat \ {0}, NEW q \in Nat, q * D <= x, x < q * D + D
    PROVE  x \div D = q
<1>1. x \div D \in Nat /\ (x \div D) * D <= x /\ x < (x \div D) * D + D
  BY DivBounds
<1>2. ~(q < x \div D)
  <2>1. q < x \div D => q * D + D <= (x \div D) * D
    BY <1>1, TimesLess
  <2> QED BY <2>1, <1>1
<1>3. ~(x \div D < q)
  <2>1. x \div D < q => (x \div D) * D + D <= q * D
    BY <1>1, TimesLess
  <2> QED BY <2>1, <1>1
<1> QED BY <1>1, <1>2, <1>3

LEMMA DivMonotone ==
    ASSUME NEW x \in Nat, NEW y \in Nat, NEW D \in Nat \ {0}, x <= y
    PROVE  x \div D <= y \div D
<1>1. /\ x \div D \in Nat /\ (x \div D) * D <= x /\ x < (x \div D) * D + D
      /\ y \div D \in Nat /\ (y \div D) * D <= y /\ y < (y \div D) * D + D
  BY DivBounds
<1>2. ~(y \div D < x \div D)
  <2>1. y \div D < x \div D => (y \div D) * D + D <= (x \div D) * D
    BY <1>1, TimesLess
  <2> QED BY <2>1, <1>1
<1> QED BY <1>1, <1>2

\* The start of an hour, and its day.
Start(h) == h * Hour

LEMMA HoursAndDays ==
    ASSUME NEW t \in Nat
    PROVE  /\ Guard!HourOf(t) \in Nat /\ Guard!DayOf(t) \in Nat
           /\ Start(Guard!HourOf(t)) \in Nat /\ Start(Guard!HourOf(t)) <= t
           /\ t < Start(Guard!HourOf(t)) + Hour
           /\ Guard!DayOf(Start(Guard!HourOf(t))) = Guard!DayOf(t)
           /\ t < Guard!DayOf(t) * Day + Day /\ Guard!DayOf(t) * Day <= t
<1>1. Hour \in Nat \ {0} /\ Day \in Nat \ {0} /\ Day % Hour = 0
  BY QuotaAssumption
<1> DEFINE h == t \div Hour
           d == t \div Day
           k == Day \div Hour
<1>2. h \in Nat /\ h * Hour <= t /\ t < h * Hour + Hour
  BY <1>1, DivBounds
<1>3. d \in Nat /\ d * Day <= t /\ t < d * Day + Day
  BY <1>1, DivBounds
<1>4. k \in Nat /\ Day = k * Hour
  <2>1. k \in Nat
    BY <1>1, DivBounds
  <2>2. Day = (Day \div Hour) * Hour
    BY <1>1
  <2> QED BY <2>1, <2>2
<1> HIDE DEF h, d, k
<1>5. h * Hour \in Nat
  BY <1>1, <1>2
<1>6. d * Day <= h * Hour
  <2>1. d * k \in Nat /\ d * Day = (d * k) * Hour
    BY <1>1, <1>3, <1>4
  <2>2. h < d * k => h * Hour + Hour <= (d * k) * Hour
    BY <1>1, <1>2, <2>1, TimesLess
  <2>3. d * Day <= t /\ t < h * Hour + Hour /\ h * Hour + Hour \in Nat /\ d * Day \in Nat
    BY <1>1, <1>2, <1>3, <1>5, <2>1
  <2>4. ~(h < d * k)
    BY <2>1, <2>2, <2>3
  <2>5. h = d * k \/ d * k < h
    BY <1>2, <2>1, <2>4
  <2>6. CASE d * k < h
    <3>1. (d * k) * Hour + Hour <= h * Hour
      BY <1>1, <1>2, <2>1, <2>6, TimesLess
    <3> QED BY <3>1, <2>1, <2>3, <1>1, <1>5
  <2>7. CASE h = d * k
    BY <2>1, <2>7, <1>5
  <2> QED BY <2>5, <2>6, <2>7
<1>7. h * Hour < d * Day + Day
  <2>1. d * Day \in Nat
    BY <1>1, <1>3
  <2> QED BY <1>1, <1>2, <1>3, <1>5, <2>1
<1>8. (h * Hour) \div Day = d
  BY <1>1, <1>3, <1>5, <1>6, <1>7, DivUnique
<1> QED BY <1>1, <1>2, <1>3, <1>5, <1>8 DEF h, d, Start, Guard!HourOf, Guard!DayOf

\* A time that is not in t's hour, but not later, is before that hour begins;
\* so is a time not in t's day before its hours.
LEMMA BeforeTheHour ==
    ASSUME NEW s \in Nat, NEW t \in Nat, s <= t, Guard!HourOf(s) # Guard!HourOf(t)
    PROVE  s < Start(Guard!HourOf(t))
<1> DEFINE h == Guard!HourOf(t)
<1>1. /\ h \in Nat /\ Start(h) \in Nat /\ t < Start(h) + Hour
      /\ Hour \in Nat \ {0} /\ Start(h) = h * Hour
  BY HoursAndDays, QuotaAssumption DEF Start
<1>2. Start(h) <= s => s \div Hour = h
  BY <1>1, DivUnique
<1> QED BY <1>1, <1>2 DEF Guard!HourOf

LEMMA BeforeTheDay ==
    ASSUME NEW s \in Nat, NEW t \in Nat, s <= t, Guard!DayOf(s) # Guard!DayOf(t),
           NEW h \in Nat, Guard!DayOf(Start(h)) = Guard!DayOf(t)
    PROVE  s < Start(h)
<1>1. Hour \in Nat \ {0} /\ Day \in Nat \ {0} /\ Start(h) \in Nat
  BY QuotaAssumption DEF Start
<1>2. Start(h) <= s => Start(h) \div Day <= s \div Day
  BY <1>1, DivMonotone
<1>3. s \div Day <= t \div Day
  BY <1>1, DivMonotone
<1>4. s \div Day \in Nat /\ t \div Day \in Nat
  BY <1>1, DivBounds
<1> QED BY <1>1, <1>2, <1>3, <1>4 DEF Guard!DayOf

-----------------------------------------------------------------------------
(* The quota.                                                              *)

Counts == [request : Nat, operation : Nat]

LEMMA OperationsOfIsSum ==
    ASSUME NEW d, NEW ledger
    PROVE  Guard!OperationsOf(d, ledger) =
           SumFunctionOnSet([h \in Guard!Hours |-> ledger[h].operation], Guard!HoursOf(d))
BY DEF Guard!OperationsOf, Guard!SumFunctionOnSet, Guard!FoldFunctionOnSet, Guard!MapThenFoldSet,
       SumFunctionOnSet, FoldFunctionOnSet, MapThenFoldSet

LEMMA HoursAreFinite ==
    ASSUME NEW d
    PROVE  IsFiniteSet(Guard!Hours) /\ IsFiniteSet(Guard!HoursOf(d)) /\ Guard!HoursOf(d) \subseteq Guard!Hours
<1>1. MaxTime \in Nat
  BY QuotaAssumption
<1>2. Guard!HourOf(MaxTime) \in Nat
  BY <1>1, HoursAndDays
<1>3. IsFiniteSet(Guard!Hours)
  BY <1>2, FS_Interval DEF Guard!Hours
<1>4. Guard!HoursOf(d) \subseteq Guard!Hours
  BY DEF Guard!HoursOf
<1> QED BY <1>3, <1>4, FS_Subset

\* The hour of a time is one of the ledger's, and one of its day's.
LEMMA HourIsOfItsDay ==
    ASSUME NEW t \in 0 .. MaxTime
    PROVE  Guard!HourOf(t) \in Guard!Hours /\ Guard!HourOf(t) \in Guard!HoursOf(Guard!DayOf(t))
<1>1. MaxTime \in Nat /\ Hour \in Nat \ {0} /\ t \in Nat /\ t <= MaxTime
  BY QuotaAssumption
<1>2. t \div Hour <= MaxTime \div Hour
  BY <1>1, DivMonotone
<1>3. /\ Guard!HourOf(t) \in Nat /\ Guard!HourOf(MaxTime) \in Nat
      /\ Guard!DayOf(Start(Guard!HourOf(t))) = Guard!DayOf(t)
  BY <1>1, HoursAndDays
<1>4. Guard!HourOf(t) \in Guard!Hours
  BY <1>2, <1>3 DEF Guard!Hours, Guard!HourOf
<1> QED BY <1>3, <1>4 DEF Guard!HoursOf, Start

\* The day's operations are a number; an admission adds its own to its day.
LEMMA DayIsCounted ==
    ASSUME NEW d, NEW ledger \in [Guard!Hours -> Counts]
    PROVE  Guard!OperationsOf(d, ledger) \in Nat
<1> DEFINE f == [h \in Guard!Hours |-> ledger[h].operation]
<1>1. \A h \in Guard!HoursOf(d) : f[h] \in Nat
  BY HoursAreFinite DEF Counts
<1> HIDE DEF f
<1>2. SumFunctionOnSet(f, Guard!HoursOf(d)) \in Nat
  BY <1>1, HoursAreFinite, SumIsNat
<1> QED BY <1>2, OperationsOfIsSum DEF f

LEMMA EmptyDay ==
    ASSUME NEW d, NEW ledger \in [Guard!Hours -> Counts],
           \A h \in Guard!HoursOf(d) : ledger[h].operation = 0
    PROVE  Guard!OperationsOf(d, ledger) = 0
<1> DEFINE f == [h \in Guard!Hours |-> ledger[h].operation]
<1>1. \A h \in Guard!HoursOf(d) : f[h] = 0
  BY HoursAreFinite
<1> HIDE DEF f
<1>2. SumFunctionOnSet(f, Guard!HoursOf(d)) = 0
  BY <1>1, HoursAreFinite, SumOfZeros
<1> QED BY <1>2, OperationsOfIsSum DEF f

LEMMA DayIsCharged ==
    ASSUME NEW ledger \in [Guard!Hours -> Counts], NEW more \in [Guard!Hours -> Counts],
           NEW t \in 0 .. MaxTime, NEW n \in Nat,
           \A h \in Guard!Hours : h # Guard!HourOf(t) => more[h] = ledger[h],
           more[Guard!HourOf(t)].operation = ledger[Guard!HourOf(t)].operation + n
    PROVE  Guard!OperationsOf(Guard!DayOf(t), more) = Guard!OperationsOf(Guard!DayOf(t), ledger) + n
<1> DEFINE f == [h \in Guard!Hours |-> ledger[h].operation]
           g == [h \in Guard!Hours |-> more[h].operation]
           S == Guard!HoursOf(Guard!DayOf(t))
           a == Guard!HourOf(t)
<1>1. a \in S /\ S \subseteq Guard!Hours /\ IsFiniteSet(S)
  BY HourIsOfItsDay, HoursAreFinite
<1>2. \A h \in S : f[h] \in Nat /\ g[h] \in Nat
  BY <1>1 DEF Counts
<1>3. g[a] = f[a] + n /\ \A h \in S \ {a} : g[h] = f[h]
  BY <1>1
<1>4. /\ Guard!OperationsOf(Guard!DayOf(t), ledger) = SumFunctionOnSet(f, S)
      /\ Guard!OperationsOf(Guard!DayOf(t), more) = SumFunctionOnSet(g, S)
  BY OperationsOfIsSum
<1> HIDE DEF f, g, S, a
<1>5. SumFunctionOnSet(f, S) = f[a] + SumFunctionOnSet(f, S \ {a})
  BY <1>1, <1>2, SumWith
<1>6. SumFunctionOnSet(g, S) = g[a] + SumFunctionOnSet(g, S \ {a})
  BY <1>1, <1>2, SumWith
<1>7. IsFiniteSet(S \ {a})
  BY <1>1, FS_Subset
<1>8. SumFunctionOnSet(f, S \ {a}) = SumFunctionOnSet(g, S \ {a})
  BY <1>3, <1>7, SumOfEqual
<1>9. SumFunctionOnSet(f, S \ {a}) \in Nat
  BY <1>2, <1>7, SumIsNat
<1>10. f[a] \in Nat /\ g[a] \in Nat
  BY <1>1, <1>2
<1>11. SumFunctionOnSet(g, S) = SumFunctionOnSet(f, S) + n
  BY <1>3, <1>5, <1>6, <1>8, <1>9, <1>10
<1> QED BY <1>4, <1>11

-----------------------------------------------------------------------------
\* The policy is always one.
PolicyTyped ==
    /\ policy \in Policies
    /\ DOMAIN pc = Slots /\ DOMAIN req = Slots
    /\ \A r \in Slots : pc[r] \in QuotaStates => req[r] \in Submissions /\ req[r].op = "quota"

LEMMA PolicyKept ==
    ASSUME PolicyTyped, [Next]_vars
    PROVE  PolicyTyped'
<1>1. CASE UNCHANGED vars
  BY <1>1 DEF PolicyTyped, vars
<1>2. ASSUME NEW r \in Slots, Begin(r) PROVE PolicyTyped'
  BY <1>2 DEF PolicyTyped, Begin, db, QuotaStates
<1>3. ASSUME NEW r \in Slots, CommitApply(r) PROVE PolicyTyped'
  <2>1. req[r].quota \in Policies
    BY <1>3, QuotaAssumption DEF PolicyTyped, CommitApply, QuotaStates
  <2> QED BY <2>1, <1>3 DEF PolicyTyped, CommitApply, End, QuotaStates
<1>4. ASSUME NEW r \in Slots,
             \/ Mutate(r) \/ CommitMutation(r) \/ Accept(r) \/ CommitAccept(r) \/ Dispatch(r) \/ Abort(r)
      PROVE  PolicyTyped'
  <2>1. UNCHANGED policy
    BY <1>4 DEF Mutate, CommitMutation, Accept, CommitAccept, Dispatch, Abort, db
  <2>2. \/ End(r)
        \/ \E l \in States : Goto(r, l) /\ (l \in QuotaStates => pc[r] \in QuotaStates)
    BY <1>4 DEF Mutate, CommitMutation, Accept, CommitAccept, Dispatch, Abort, States, QuotaStates
  <2> QED BY <2>1, <2>2 DEF PolicyTyped, End, Goto, QuotaStates
<1>5. CASE ReplaceUsage
  BY <1>5, QuotaAssumption DEF PolicyTyped, ReplaceUsage, QuotaStates
<1> QED BY <1>1, <1>2, <1>3, <1>4, <1>5 DEF Next, Step

-----------------------------------------------------------------------------
(* The argument: a row and the ledger agree up to some time t, not after    *)
(* the row's last use, and the ledger has nothing in a later hour.  If the  *)
(* clock has gone to another hour or day since, the ledger is therefore     *)
(* empty there, and so are the counters of the row.  The same holds of the  *)
(* time a pruned row was last used, at least a day ago.  A call that        *)
(* decides has seen the row as it still is, at a time of its own.           *)

NothingAfter(ledger, u) ==
    \A h \in Guard!Hours : u < Start(h) => ledger[h] = [request |-> 0, operation |-> 0]

Agrees(ledger, row, T) ==
    /\ row # Guard!NoSubject
    /\ row.request \in Nat /\ row.operation \in Nat /\ row.daily \in Nat
    /\ row.updated \in 0 .. T
    /\ \E t \in 0 .. row.updated :
          /\ row.hour = Guard!HourOf(t) /\ row.day = Guard!DayOf(t)
          /\ row.request = ledger[Guard!HourOf(t)].request
          /\ row.operation = ledger[Guard!HourOf(t)].operation
          /\ row.daily = Guard!OperationsOf(Guard!DayOf(t), ledger)
          /\ NothingAfter(ledger, t)

Forgotten == \E u \in Int : u + SubjectTTL < now /\ NothingAfter(hourly, u)

CallOK(m) ==
    /\ calls[m].at \in {"idle", "over", "waiting", "deciding"}
    /\ calls[m].at \in {"waiting", "deciding"} =>
          /\ calls[m].policy \in Policies
          /\ calls[m].since \in 0 .. now /\ now =< calls[m].since + 1
    /\ calls[m].at = "deciding" =>
          /\ calls[m].time \in 0 .. now
          /\ Agrees(hourly, calls[m].row, calls[m].time)

OneDecider ==
    \A m, n \in Markers : calls[m].at = "deciding" /\ calls[n].at = "deciding" => m = n

Ledger ==
    /\ now \in 0 .. MaxTime
    /\ hourly \in [Guard!Hours -> Counts]
    /\ DOMAIN calls = Markers
    /\ IF subject = Guard!NoSubject THEN Forgotten ELSE Agrees(hourly, subject, now)
    /\ \A m \in Markers : CallOK(m)
    /\ OneDecider

\* The spending of a time by a row that agrees with the ledger.
LEMMA RolledMatches ==
    ASSUME NEW ledger \in [Guard!Hours -> Counts], NEW T \in 0 .. MaxTime,
           NEW row, Agrees(ledger, row, T)
    PROVE  Guard!Rolled(row, T) =
             [request |-> ledger[Guard!HourOf(T)].request,
              operation |-> ledger[Guard!HourOf(T)].operation,
              daily |-> Guard!OperationsOf(Guard!DayOf(T), ledger)]
<1>0. MaxTime \in Nat /\ T \in Nat /\ T \in 0 .. MaxTime
  BY QuotaAssumption
<1>1. PICK t \in 0 .. T :
          /\ row.hour = Guard!HourOf(t) /\ row.day = Guard!DayOf(t)
          /\ row.request = ledger[Guard!HourOf(t)].request
          /\ row.operation = ledger[Guard!HourOf(t)].operation
          /\ row.daily = Guard!OperationsOf(Guard!DayOf(t), ledger)
          /\ NothingAfter(ledger, t)
  BY <1>0 DEF Agrees
<1>2. t \in Nat /\ t <= T
  BY <1>0, <1>1
<1>3. Guard!HourOf(T) \in Guard!Hours /\ Guard!HourOf(T) \in Guard!HoursOf(Guard!DayOf(T))
  BY <1>0, HourIsOfItsDay
<1>4. /\ (IF row.hour = Guard!HourOf(T) THEN row.request ELSE 0) = ledger[Guard!HourOf(T)].request
      /\ (IF row.hour = Guard!HourOf(T) THEN row.operation ELSE 0) = ledger[Guard!HourOf(T)].operation
  <2>1. CASE Guard!HourOf(t) = Guard!HourOf(T)
    BY <2>1, <1>1
  <2>2. CASE Guard!HourOf(t) # Guard!HourOf(T)
    <3>1. t < Start(Guard!HourOf(T))
      BY <1>0, <1>2, <2>2, BeforeTheHour
    <3>2. ledger[Guard!HourOf(T)] = [request |-> 0, operation |-> 0]
      BY <3>1, <1>1, <1>3 DEF NothingAfter
    <3> QED BY <3>2, <2>2, <1>1
  <2> QED BY <2>1, <2>2
<1>5. (IF row.day = Guard!DayOf(T) THEN row.daily ELSE 0) = Guard!OperationsOf(Guard!DayOf(T), ledger)
  <2>1. CASE Guard!DayOf(t) = Guard!DayOf(T)
    BY <2>1, <1>1
  <2>2. CASE Guard!DayOf(t) # Guard!DayOf(T)
    <3>1. ASSUME NEW h \in Guard!HoursOf(Guard!DayOf(T)) PROVE ledger[h].operation = 0
      <4>1. h \in Guard!Hours /\ Guard!DayOf(Start(h)) = Guard!DayOf(T)
        BY DEF Guard!HoursOf, Start
      <4>2. h \in Nat
        BY <4>1 DEF Guard!Hours
      <4>3. t < Start(h)
        BY <4>1, <4>2, <1>0, <1>2, <2>2, BeforeTheDay
      <4> QED BY <4>1, <4>3, <1>1 DEF NothingAfter
    <3>2. Guard!OperationsOf(Guard!DayOf(T), ledger) = 0
      BY <3>1, EmptyDay
    <3> QED BY <3>2, <2>2, <1>1
  <2> QED BY <2>1, <2>2
<1> QED BY <1>4, <1>5 DEF Guard!Rolled

-----------------------------------------------------------------------------
LEMMA AgreesLater ==
    ASSUME NEW ledger, NEW row, NEW T \in Nat, NEW S \in Nat, T =< S, Agrees(ledger, row, T)
    PROVE  Agrees(ledger, row, S)
BY DEF Agrees

\* A row that is inserted for a call begins with what the ledger has: nothing.
LEMMA NewSubjectAgrees ==
    ASSUME now \in 0 .. MaxTime, hourly \in [Guard!Hours -> Counts], Forgotten,
           NEW s \in 0 .. now, now =< s + 1
    PROVE  Agrees(hourly, Guard!NewSubject(s), now)
<1>0. /\ MaxTime \in Nat /\ Hour \in Nat \ {0} /\ Day \in Nat \ {0} /\ SubjectTTL \in Nat
      /\ Day =< SubjectTTL /\ s \in Nat /\ s \in 0 .. MaxTime /\ now \in Nat
  BY QuotaAssumption
<1>1. PICK u \in Int : u + SubjectTTL < now /\ NothingAfter(hourly, u)
  BY DEF Forgotten
<1>2. u + Day =< s
  BY <1>0, <1>1
<1>3. Hour =< Day
  <2>1. Day % Hour = 0
    BY QuotaAssumption
  <2>2. Day \div Hour \in Nat /\ Day = (Day \div Hour) * Hour
    BY <1>0, <2>1, DivBounds
  <2>3. Day \div Hour # 0
    BY <1>0, <2>2
  <2>4. 0 * Hour + Hour =< (Day \div Hour) * Hour
    BY <1>0, <2>2, <2>3, TimesLess
  <2> QED BY <1>0, <2>2, <2>4
<1>4. /\ Guard!HourOf(s) \in Guard!Hours
      /\ Start(Guard!HourOf(s)) \in Nat /\ s < Start(Guard!HourOf(s)) + Hour
      /\ Guard!DayOf(s) \in Nat /\ s < Guard!DayOf(s) * Day + Day
  BY <1>0, HourIsOfItsDay, HoursAndDays
<1>5. hourly[Guard!HourOf(s)] = [request |-> 0, operation |-> 0]
  <2>1. u < Start(Guard!HourOf(s))
    BY <1>0, <1>1, <1>2, <1>3, <1>4
  <2> QED BY <2>1, <1>1, <1>4 DEF NothingAfter
<1>6. Guard!OperationsOf(Guard!DayOf(s), hourly) = 0
  <2>1. ASSUME NEW h \in Guard!HoursOf(Guard!DayOf(s)) PROVE hourly[h].operation = 0
    <3>1. h \in Guard!Hours /\ Guard!DayOf(Start(h)) = Guard!DayOf(s)
      BY DEF Guard!HoursOf, Start
    <3>2. Start(h) \in Nat
      BY <1>0, <3>1 DEF Guard!Hours, Start
    <3>3. Guard!DayOf(s) * Day =< Start(h)
      BY <3>1, <3>2, HoursAndDays
    <3>4. Guard!DayOf(s) * Day \in Nat
      BY <1>0, <1>4
    <3>5. u < Start(h)
      BY <1>0, <1>1, <1>2, <1>4, <3>2, <3>3, <3>4
    <3> QED BY <3>1, <3>5, <1>1 DEF NothingAfter
  <2> QED BY <2>1, EmptyDay
<1>7. NothingAfter(hourly, s)
  <2>1. \A h \in Guard!Hours : Start(h) \in Nat
    BY <1>0 DEF Guard!Hours, Start
  <2> QED BY <2>1, <1>0, <1>1, <1>2 DEF NothingAfter
<1>8. Guard!NewSubject(s) # Guard!NoSubject
  <2>1. "updated" \in DOMAIN Guard!NewSubject(s) /\ "updated" \notin DOMAIN Guard!NoSubject
    BY DEF Guard!NoSubject, Guard!NewSubject
  <2> QED BY <2>1
<1>9. /\ Guard!NewSubject(s).hour = Guard!HourOf(s) /\ Guard!NewSubject(s).day = Guard!DayOf(s)
      /\ Guard!NewSubject(s).request = 0 /\ Guard!NewSubject(s).operation = 0
      /\ Guard!NewSubject(s).daily = 0 /\ Guard!NewSubject(s).updated = now
  BY DEF Guard!NewSubject
<1> QED BY <1>0, <1>5, <1>6, <1>7, <1>8, <1>9 DEF Agrees

\* What an admission writes agrees with the ledger it leaves.
LEMMA ChargedAgrees ==
    ASSUME NEW ledger \in [Guard!Hours -> Counts], NEW T \in 0 .. MaxTime, NEW row,
           Agrees(ledger, row, T), NEW kind \in {"request", "operation"}, NEW more,
           more = [ledger EXCEPT ![Guard!HourOf(T)][kind] = @ + 1]
    PROVE  /\ more \in [Guard!Hours -> Counts]
           /\ Agrees(more, Guard!Charged(Guard!Rolled(row, T), kind, T), T)
<1> DEFINE h == Guard!HourOf(T)
           n == IF kind = "operation" THEN 1 ELSE 0
           k == IF kind = "request" THEN 1 ELSE 0
           spent == Guard!Rolled(row, T)
<1>0. MaxTime \in Nat /\ T \in Nat
  BY QuotaAssumption
<1>1. h \in Guard!Hours
  BY HourIsOfItsDay
<1>2. spent = [request |-> ledger[h].request, operation |-> ledger[h].operation,
               daily |-> Guard!OperationsOf(Guard!DayOf(T), ledger)]
  BY RolledMatches
<1>3. Guard!OperationsOf(Guard!DayOf(T), ledger) \in Nat
  BY DayIsCounted
<1> HIDE DEF h, spent
<1>4. ledger[h] \in Counts
  BY <1>1
<1>5. /\ more \in [Guard!Hours -> Counts]
      /\ more[h].request = ledger[h].request + k
      /\ more[h].operation = ledger[h].operation + n
      /\ \A g \in Guard!Hours : g # h => more[g] = ledger[g]
  BY <1>1, <1>4 DEF Counts, h
<1>6. Guard!OperationsOf(Guard!DayOf(T), more) = Guard!OperationsOf(Guard!DayOf(T), ledger) + n
  <2>1. n \in Nat
    OBVIOUS
  <2> HIDE DEF n
  <2>2. /\ \A g \in Guard!Hours : g # Guard!HourOf(T) => more[g] = ledger[g]
        /\ more[Guard!HourOf(T)].operation = ledger[Guard!HourOf(T)].operation + n
        /\ more \in [Guard!Hours -> Counts]
    BY <1>5 DEF h
  <2>3. ledger \in [Guard!Hours -> Counts] /\ T \in 0 .. MaxTime
    OBVIOUS
  <2> QED BY ONLY <2>1, <2>2, <2>3, DayIsCharged
<1>7. NothingAfter(more, T)
  <2>1. PICK t \in 0 .. T : NothingAfter(ledger, t)
    BY <1>0 DEF Agrees
  <2>2. ~(T < Start(h)) /\ Start(h) \in Nat
    BY <1>0, HoursAndDays DEF h
  <2>3. \A g \in Guard!Hours : Start(g) \in Nat
    BY QuotaAssumption DEF Guard!Hours, Start
  <2>4. ASSUME NEW g \in Guard!Hours, T < Start(g)
        PROVE  more[g] = [request |-> 0, operation |-> 0]
    <3>1. g # h /\ t < Start(g)
      BY <2>1, <2>2, <2>3, <2>4, <1>0
    <3> QED BY <3>1, <2>1, <1>5 DEF NothingAfter
  <2> QED BY <2>4 DEF NothingAfter
<1>8. Agrees(more, Guard!Charged(spent, kind, T), T)
  <2>1. Guard!Charged(spent, kind, T) =
          [hour |-> h, day |-> Guard!DayOf(T), request |-> more[h].request, operation |-> more[h].operation,
           daily |-> Guard!OperationsOf(Guard!DayOf(T), more), updated |-> T]
    BY <1>2, <1>5, <1>6 DEF Guard!Charged, h
  <2>2. more[h] \in Counts
    BY <1>1, <1>5
  <2>3. Guard!OperationsOf(Guard!DayOf(T), more) \in Nat
    BY <1>5, DayIsCounted
  <2> DEFINE all == Guard!OperationsOf(Guard!DayOf(T), more)
             new == [hour |-> h, day |-> Guard!DayOf(T), request |-> more[h].request,
                     operation |-> more[h].operation, daily |-> all, updated |-> T]
  <2>4. /\ new.request \in Nat /\ new.operation \in Nat /\ new.daily \in Nat
        /\ new.updated \in 0 .. T /\ T \in 0 .. new.updated
    BY <2>2, <2>3, <1>0 DEF Counts
  <2>5. /\ new.hour = Guard!HourOf(T) /\ new.day = Guard!DayOf(T)
        /\ new.request = more[Guard!HourOf(T)].request
        /\ new.operation = more[Guard!HourOf(T)].operation
        /\ new.daily = Guard!OperationsOf(Guard!DayOf(T), more)
    BY DEF h
  <2>0. new # Guard!NoSubject
    <3>1. "updated" \in DOMAIN new /\ "updated" \notin DOMAIN Guard!NoSubject
      BY DEF Guard!NoSubject
    <3> QED BY <3>1
  <2> HIDE DEF new
  <2>6. Agrees(more, new, T)
    BY <2>0, <2>4, <2>5, <1>7 DEF Agrees
  <2> QED BY <2>1, <2>6 DEF new
<1> QED BY <1>5, <1>8 DEF spent

-----------------------------------------------------------------------------
LEMMA LedgerInit ==
    ASSUME Guard!Init
    PROVE  Ledger
<1>0. MaxTime \in Nat /\ SubjectTTL \in Nat
  BY QuotaAssumption
<1>1. hourly \in [Guard!Hours -> Counts]
  BY DEF Guard!Init, Guard!EmptyLedger, Counts
<1>2. Forgotten
  <2> DEFINE u == -1 - SubjectTTL
  <2>1. u \in Int /\ u + SubjectTTL < now
    BY <1>0 DEF Guard!Init
  <2>2. NothingAfter(hourly, u)
    BY DEF Guard!Init, Guard!EmptyLedger, NothingAfter
  <2> HIDE DEF u
  <2> QED BY <2>1, <2>2 DEF Forgotten
<1>3. \A m \in Markers : calls[m] = [at |-> "idle"]
  BY DEF Guard!Init, Guard!NoCall
<1>4. DOMAIN calls = Markers /\ now = 0 /\ subject = Guard!NoSubject
  BY DEF Guard!Init
<1> QED BY <1>0, <1>1, <1>2, <1>3, <1>4 DEF Ledger, CallOK, OneDecider

\* A call that moves while the row, the ledger and the clock stay.
LEMMA CallMoves ==
    ASSUME Ledger, NEW m \in Markers, NEW c, Guard!Goto(m, c), UNCHANGED <<now, subject, hourly>>,
           c.at \in {"idle", "over", "waiting", "deciding"},
           c.at \in {"waiting", "deciding"} =>
              c.policy \in Policies /\ c.since \in 0 .. now /\ now =< c.since + 1,
           c.at = "deciding" => c.time \in 0 .. now /\ Agrees(hourly, c.row, c.time) /\ Guard!LockFree(m)
    PROVE  Ledger'
<1>1. /\ DOMAIN calls' = Markers /\ calls'[m] = c
      /\ \A n \in Markers \ {m} : calls'[n] = calls[n]
  BY DEF Guard!Goto, Ledger
<1>2. CallOK(m)'
  BY <1>1 DEF CallOK
<1>3. \A n \in Markers \ {m} : CallOK(n)'
  BY <1>1 DEF CallOK, Ledger
<1>4. OneDecider'
  BY <1>1 DEF OneDecider, Ledger, Guard!LockFree
<1>5. Forgotten' <=> Forgotten
  BY DEF Forgotten
<1> QED BY <1>1, <1>2, <1>3, <1>4, <1>5 DEF Ledger

\* A call that is over, or starts again.
LEMMA CallEnds ==
    ASSUME NEW m \in Markers
    PROVE  Guard!Unadmitted(m).at \in {"idle", "over"} /\ Guard!Over.at = "over" /\ Guard!NoCall.at = "idle"
BY DEF Guard!Unadmitted, Guard!Over, Guard!NoCall

LEMMA LockKeeps ==
    ASSUME Ledger, NEW m \in Markers, Guard!Lock(m)
    PROVE  Ledger'
<1>0. MaxTime \in Nat /\ now \in 0 .. MaxTime
  BY QuotaAssumption DEF Ledger
<1>1. /\ calls[m].policy \in Policies
      /\ calls[m].since \in 0 .. now /\ now =< calls[m].since + 1
  BY DEF Guard!Lock, Ledger, CallOK
<1> DEFINE row == IF subject = Guard!NoSubject THEN Guard!NewSubject(calls[m].since) ELSE subject
           c == [at |-> "deciding", policy |-> calls[m].policy, since |-> calls[m].since,
                 row |-> row, time |-> now]
<1>2. Agrees(hourly, row, now)
  BY <1>1, NewSubjectAgrees DEF Ledger
<1>3. /\ Guard!Goto(m, c) /\ Guard!LockFree(m) /\ UNCHANGED <<now, subject, hourly>>
  BY DEF Guard!Lock, Guard!TimeOfDecision
<1> HIDE DEF row
<1>4. /\ c.at = "deciding" /\ c.policy = calls[m].policy /\ c.since = calls[m].since
      /\ c.row = row /\ c.time = now
  OBVIOUS
<1> HIDE DEF c
<1> QED BY <1>0, <1>1, <1>2, <1>3, <1>4, CallMoves

\* The row a decision leaves, and the ledger.
LEMMA Decides ==
    ASSUME Ledger, NEW m \in Markers, calls[m].at = "deciding",
           UNCHANGED now, hourly' \in [Guard!Hours -> Counts],
           Agrees(hourly', subject', calls[m].time), subject' # Guard!NoSubject,
           Guard!Goto(m, Guard!Over) \/ Guard!Goto(m, Guard!Unadmitted(m))
    PROVE  Ledger'
<1>0. MaxTime \in Nat /\ now \in 0 .. MaxTime /\ calls[m].time \in 0 .. now
  BY QuotaAssumption DEF Ledger, CallOK
<1>1. Agrees(hourly', subject', now')
  BY <1>0, AgreesLater
<1>2. /\ DOMAIN calls' = Markers /\ calls'[m].at \in {"idle", "over"}
      /\ \A n \in Markers \ {m} : calls'[n] = calls[n] /\ calls[n].at # "deciding"
  BY CallEnds DEF Guard!Goto, Ledger, OneDecider
<1>3. \A n \in Markers : CallOK(n)'
  BY <1>2 DEF CallOK, Ledger
<1>4. OneDecider'
  BY <1>2 DEF OneDecider
<1> QED BY <1>0, <1>1, <1>2, <1>3, <1>4 DEF Ledger

\* What an admission does.
Admits(m) ==
    LET c == calls[m]
        spent == Guard!Rolled(c.row, c.time)
    IN /\ Guard!Allowed(Kind[m], spent, c.policy)
       /\ subject' = Guard!Charged(spent, Kind[m], c.time)
       /\ hourly' = [hourly EXCEPT ![Guard!HourOf(c.time)][Kind[m]] = @ + 1]

LEMMA Commits ==
    ASSUME NEW m \in Markers, Guard!Commit(m)
    PROVE  /\ calls[m].at = "deciding" /\ UNCHANGED <<policy, now>>
           /\ Guard!Goto(m, Guard!Over) \/ Guard!Goto(m, Guard!Unadmitted(m))
           /\ \/ Admits(m)
              \/ subject' = calls[m].row /\ UNCHANGED hourly
BY DEF Guard!Commit, Admits

LEMMA CommitKeeps ==
    ASSUME Ledger, NEW m \in Markers, Guard!Commit(m)
    PROVE  Ledger'
<1> DEFINE c == calls[m]
           spent == Guard!Rolled(c.row, c.time)
<1>0. MaxTime \in Nat /\ now \in 0 .. MaxTime /\ c.time \in 0 .. MaxTime
  BY Commits, QuotaAssumption DEF Ledger, CallOK
<1>1. Agrees(hourly, c.row, c.time) /\ hourly \in [Guard!Hours -> Counts]
  BY Commits DEF Ledger, CallOK
<1>2. Kind[m] \in {"request", "operation"}
  BY QuotaAssumption
<1>3. CASE Admits(m)
  <2>1. /\ subject' = Guard!Charged(spent, Kind[m], c.time)
        /\ hourly' = [hourly EXCEPT ![Guard!HourOf(c.time)][Kind[m]] = @ + 1]
    BY <1>3 DEF Admits
  <2> HIDE DEF c
  <2>2. hourly' \in [Guard!Hours -> Counts] /\ Agrees(hourly', subject', c.time)
    BY <1>0, <1>1, <1>2, <2>1, ChargedAgrees
  <2> QED BY <2>2, Commits, Decides DEF c, Agrees
<1>4. CASE subject' = calls[m].row /\ UNCHANGED hourly
  BY <1>1, <1>4, Commits, Decides DEF Agrees
<1> QED BY <1>3, <1>4, Commits

LEMMA TickKeeps ==
    ASSUME Ledger, Guard!Tick
    PROVE  Ledger'
<1>0. /\ MaxTime \in Nat /\ SubjectTTL \in Nat /\ now \in 0 .. MaxTime
      /\ now' = now + 1 /\ now < MaxTime /\ UNCHANGED <<subject, hourly, calls>>
  BY QuotaAssumption DEF Ledger, Guard!Tick
<1>1. now' \in 0 .. MaxTime
  BY <1>0
<1>2. Forgotten => Forgotten'
  BY <1>0 DEF Forgotten
<1>3. Agrees(hourly, subject, now) => Agrees(hourly', subject', now')
  BY <1>0, AgreesLater
<1>4. ASSUME NEW m \in Markers PROVE CallOK(m)'
  <2>1. calls[m].at \in {"waiting", "deciding"} => calls[m].since = now
    BY DEF Guard!Tick, Guard!InFlight
  <2> QED BY <2>1, <1>0 DEF CallOK, Ledger
<1> QED BY <1>0, <1>1, <1>2, <1>3, <1>4 DEF Ledger, OneDecider

LEMMA PruneKeeps ==
    ASSUME Ledger, Guard!PruneSubject
    PROVE  Ledger'
<1>0. /\ MaxTime \in Nat /\ SubjectTTL \in Nat /\ now \in 0 .. MaxTime
      /\ subject # Guard!NoSubject /\ subject' = Guard!NoSubject
      /\ subject.updated + SubjectTTL < now /\ UNCHANGED <<now, hourly, calls>>
  BY QuotaAssumption DEF Ledger, Guard!PruneSubject, Guard!Idle
<1>1. PICK t \in 0 .. subject.updated : subject.updated \in 0 .. now /\ NothingAfter(hourly, t)
  BY <1>0 DEF Ledger, Agrees
<1>2. t \in Int /\ t + SubjectTTL < now'
  BY <1>0, <1>1
<1>3. Forgotten'
  BY <1>0, <1>1, <1>2 DEF Forgotten
<1> QED BY <1>0, <1>3 DEF Ledger, CallOK, OneDecider

LEMMA ReplacementKeeps ==
    ASSUME Ledger, Replace
    PROVE  Ledger'
<1>0. MaxTime \in Nat /\ SubjectTTL \in Nat /\ now \in 0 .. MaxTime /\ UNCHANGED now
  BY QuotaAssumption DEF Ledger, Replace
<1>1. hourly' \in [Guard!Hours -> Counts]
  BY DEF Replace, Guard!EmptyLedger, Counts
<1>2. Forgotten'
  <2> DEFINE u == -1 - SubjectTTL
  <2>1. u \in Int /\ u + SubjectTTL < now'
    BY <1>0
  <2>2. NothingAfter(hourly', u)
    BY DEF Replace, Guard!EmptyLedger, NothingAfter
  <2> HIDE DEF u
  <2> QED BY <2>1, <2>2 DEF Forgotten
<1>3. \A m \in Markers : calls'[m].at \in {"idle", "over"}
  BY CallEnds DEF Replace, Guard!InFlight, Ledger, CallOK
<1>4. DOMAIN calls' = Markers /\ subject' = Guard!NoSubject
  BY DEF Replace
<1> QED BY <1>0, <1>1, <1>2, <1>3, <1>4 DEF Ledger, CallOK, OneDecider

LEMMA LedgerKept ==
    ASSUME Ledger, PolicyTyped, [ControlNext]_<<vars, quota>>
    PROVE  Ledger'
<1>1. CASE UNCHANGED quota
  BY <1>1 DEF quota, Ledger, CallOK, OneDecider, Forgotten
<1>2. ASSUME NEW m \in Markers, Guard!Arrive(m) PROVE Ledger'
  <2> DEFINE c == [at |-> "waiting", policy |-> policy, since |-> now]
  <2>1. Guard!Goto(m, c) /\ UNCHANGED <<now, subject, hourly>>
    BY <1>2 DEF Guard!Arrive
  <2>2. c.at = "waiting" /\ c.policy \in Policies /\ c.since \in 0 .. now /\ now =< c.since + 1
    BY QuotaAssumption DEF PolicyTyped, Ledger
  <2> HIDE DEF c
  <2> QED BY <2>1, <2>2, CallMoves
<1>3. ASSUME NEW m \in Markers, Guard!Fail(m) PROVE Ledger'
  <2>1. Guard!Goto(m, Guard!Unadmitted(m)) /\ UNCHANGED <<now, subject, hourly>>
    BY <1>3 DEF Guard!Fail
  <2> QED BY <2>1, CallEnds, CallMoves
<1>4. CASE Guard!PruneMarkers
  BY <1>4 DEF Guard!PruneMarkers, Ledger, CallOK, OneDecider, Forgotten
<1>5. Guard!Next => Ledger'
  BY <1>2, <1>3, <1>4, LockKeeps, CommitKeeps, TickKeeps, PruneKeeps DEF Guard!Next
<1> QED BY <1>1, <1>5, ReplacementKeeps DEF ControlNext

LEMMA CountersMatch ==
    ASSUME Ledger
    PROVE  CountersMatchTheLedger
<1>0. MaxTime \in Nat /\ now \in 0 .. MaxTime /\ hourly \in [Guard!Hours -> Counts]
  BY QuotaAssumption DEF Ledger
<1>1. CASE subject # Guard!NoSubject
  <2>1. Agrees(hourly, subject, now)
    BY <1>1 DEF Ledger
  <2>2. Guard!Rolled(subject, now) = Guard!SpentByLedger
    BY <2>1, <1>0, RolledMatches DEF Guard!SpentByLedger
  <2> QED BY <2>2, <1>1 DEF CountersMatchTheLedger, Guard!CountersMatchTheLedger, Guard!SpentByRow
<1>2. CASE subject = Guard!NoSubject
  <2> DEFINE row == Guard!NewSubject(now)
  <2>1. Agrees(hourly, row, now)
    BY <1>0, <1>2, NewSubjectAgrees DEF Ledger
  <2>2. row.request = 0 /\ row.operation = 0 /\ row.daily = 0
    BY DEF Guard!NewSubject
  <2> HIDE DEF row
  <2>3. Guard!Rolled(row, now) = [request |-> 0, operation |-> 0, daily |-> 0]
    BY <2>2 DEF Guard!Rolled
  <2>4. Guard!Rolled(row, now) = Guard!SpentByLedger
    BY <2>1, <1>0, RolledMatches DEF Guard!SpentByLedger
  <2> QED BY <2>3, <2>4, <1>2 DEF CountersMatchTheLedger, Guard!CountersMatchTheLedger, Guard!SpentByRow
<1> QED BY <1>1, <1>2

\* The admission of one step, for one marker.
Within(m) ==
    hourly' # hourly /\ calls[m].at = "deciding" /\ calls'[m].at # "deciding" =>
      LET p == calls[m].policy
          h == Guard!HourOf(calls[m].time)
      IN IF Kind[m] = "request"
         THEN hourly'[h].request =< p.request
         ELSE /\ hourly'[h].operation =< p.operation
              /\ Guard!OperationsOf(Guard!DayOf(calls[m].time), hourly') =< p.daily

LEMMA StepAdmitsWithinPolicy ==
    ASSUME Ledger, [ControlNext]_<<vars, quota>>, NEW m \in Markers
    PROVE  Within(m)
<1> SUFFICES ASSUME hourly' # hourly, calls[m].at = "deciding", calls'[m].at # "deciding" PROVE Within(m)
  BY DEF Within
<1> DEFINE c == calls[m]
           p == c.policy
           T == c.time
           h == Guard!HourOf(T)
           spent == Guard!Rolled(c.row, T)
<1>0. /\ MaxTime \in Nat /\ now \in 0 .. MaxTime /\ T \in 0 .. MaxTime /\ p \in Policies
      /\ Agrees(hourly, c.row, T) /\ hourly \in [Guard!Hours -> Counts]
      /\ Kind[m] \in {"request", "operation"}
  BY QuotaAssumption DEF Ledger, CallOK
<1>1. h \in Guard!Hours
  BY <1>0, HourIsOfItsDay
<1>2. CASE Replace
  <2>1. /\ hourly' \in [Guard!Hours -> Counts]
        /\ \A g \in Guard!Hours : hourly'[g] = [request |-> 0, operation |-> 0]
    BY <1>2 DEF Replace, Guard!EmptyLedger, Counts
  <2> HIDE DEF h, T
  <2>2. Guard!OperationsOf(Guard!DayOf(T), hourly') = 0
    <3>1. \A g \in Guard!HoursOf(Guard!DayOf(T)) : hourly'[g].operation = 0
      BY <2>1, HoursAreFinite
    <3> QED BY <3>1, <2>1, EmptyDay
  <2>3. p.request \in Nat /\ p.operation \in Nat /\ p.daily \in Nat
    BY <1>0 DEF Policies
  <2>4. hourly'[h].request = 0 /\ hourly'[h].operation = 0
    BY <1>1, <2>1
  <2> QED BY <2>2, <2>3, <2>4 DEF Within, h, T
<1>3. CASE Guard!Next
  <2>1. PICK n \in Markers : Guard!Commit(n)
    BY <1>3 DEF Guard!Next, Guard!Arrive, Guard!Lock, Guard!Fail, Guard!Tick,
                Guard!PruneMarkers, Guard!PruneSubject
  <2>2. n = m
    BY <2>1, Commits DEF Ledger, OneDecider
  <2>3. Admits(m)
    BY <2>1, <2>2, Commits
  <2>4. /\ Guard!Allowed(Kind[m], spent, p)
        /\ subject' = Guard!Charged(spent, Kind[m], T)
        /\ hourly' = [hourly EXCEPT ![h][Kind[m]] = @ + 1]
    BY <2>3 DEF Admits
  <2> HIDE DEF p, T, c
  <2>5. hourly' \in [Guard!Hours -> Counts] /\ Agrees(hourly', subject', T)
    BY <1>0, <2>4, ChargedAgrees
  <2>6. Guard!Rolled(subject', T) =
          [request |-> hourly'[h].request, operation |-> hourly'[h].operation,
           daily |-> Guard!OperationsOf(Guard!DayOf(T), hourly')]
    BY <1>0, <2>5, RolledMatches
  <2>7. /\ spent.request \in Nat /\ spent.operation \in Nat /\ spent.daily \in Nat
    <3>1. spent = [request |-> hourly[h].request, operation |-> hourly[h].operation,
                   daily |-> Guard!OperationsOf(Guard!DayOf(T), hourly)]
      BY <1>0, RolledMatches
    <3>2. Guard!OperationsOf(Guard!DayOf(T), hourly) \in Nat /\ hourly[h] \in Counts
      BY <1>0, <1>1, DayIsCounted
    <3> QED BY <3>1, <3>2 DEF Counts
  <2>8. p.request \in Nat /\ p.operation \in Nat /\ p.daily \in Nat
    BY <1>0 DEF Policies
  <2> HIDE DEF spent, h
  <2>9. /\ hourly'[h].request = spent.request + (IF Kind[m] = "request" THEN 1 ELSE 0)
        /\ hourly'[h].operation = spent.operation + (IF Kind[m] = "operation" THEN 1 ELSE 0)
        /\ Guard!OperationsOf(Guard!DayOf(T), hourly') = spent.daily + (IF Kind[m] = "operation" THEN 1 ELSE 0)
    BY <2>4, <2>6 DEF Guard!Charged, Guard!Rolled
  <2>10. CASE Kind[m] = "request"
    <3>1. spent.request < p.request
      BY <2>4, <2>10 DEF Guard!Allowed
    <3>2. hourly'[h].request =< p.request
      BY <2>9, <2>7, <2>8, <2>10, <3>1
    <3> QED BY <3>2, <2>10 DEF Within, h, T, p, c
  <2>11. CASE Kind[m] = "operation"
    <3>1. spent.operation < p.operation /\ spent.daily < p.daily
      BY <2>4, <2>11 DEF Guard!Allowed
    <3>2. hourly'[h].operation =< p.operation /\ Guard!OperationsOf(Guard!DayOf(T), hourly') =< p.daily
      BY <2>9, <2>7, <2>8, <2>11, <3>1
    <3> QED BY <3>2, <2>11 DEF Within, h, T, p, c
  <2> QED BY <2>10, <2>11, <1>0
<1> QED BY <1>2, <1>3 DEF ControlNext, quota

LEMMA QuotaInit ==
    ControlInit => Ledger /\ PolicyTyped
BY LedgerInit, QuotaAssumption DEF ControlInit, Init, PolicyTyped, QuotaStates

LEMMA QuotaKept ==
    Ledger /\ PolicyTyped /\ [ControlNext]_<<vars, quota>> => Ledger' /\ PolicyTyped'
BY LedgerKept, PolicyKept, QuotaIsApart

\* For every number of calls, every length of the hour and of the day, and every
\* policy: what a subject's row says has been spent in the current hour and day
\* is what was admitted there, also after waits across the hour or the day,
\* concurrent calls, pruning, and a new usage database (consume of migration 021).
THEOREM TheLedgerIsKept == ControlSpec => []CountersMatchTheLedger
<1>1. Ledger => CountersMatchTheLedger
  BY CountersMatch
<1> QED BY <1>1, QuotaInit, QuotaKept, PTL DEF ControlSpec

\* For every number of calls in flight, an admission takes neither the hour nor
\* the day beyond the policy its call read (consume of migration 021).
THEOREM AdmissionsKeepToThePolicy == ControlSpec => AdmittedWithinPolicy
<1>1. Ledger /\ [ControlNext]_<<vars, quota>> => [\A m \in Markers : Within(m)]_(Guard!vars)
  BY StepAdmitsWithinPolicy
<1>2. ControlSpec => [][\A m \in Markers : Within(m)]_(Guard!vars)
  BY <1>1, QuotaInit, QuotaKept, PTL DEF ControlSpec
<1> QED BY <1>2 DEF AdmittedWithinPolicy, Guard!AdmittedWithinPolicy, Within
=============================================================================
