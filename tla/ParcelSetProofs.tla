-------------------------- MODULE ParcelSetProofs ---------------------------
(* The promise of ParcelSet, and that ParcelSetCommands keeps it, for every *)
(* set of references, keys, requests and commands and every cap.            *)
EXTENDS ParcelSetCommands, FiniteSetTheorems, SequenceTheorems, TLAPS

\* The abstract specification, over any fate.
VARIABLE fate
Set == INSTANCE ParcelSet

\* Where positions are 1..n, n is both what coalesce(max(position), 0) returns
\* and what count(*) returns: the two reads of add_member agree.
LEMMA DenseCounts ==
    ASSUME NEW s \in PSets, NEW n \in Nat,
           {s.position[x] : x \in Members(s)} = 1..n,
           \A x, y \in Members(s) : s.position[x] = s.position[y] => x = y
    PROVE  /\ LastPosition(s) = n
           /\ Cardinality(Members(s)) = n
<1> DEFINE Taken == {0} \cup {s.position[x] : x \in Refs}
<1>1. \A p \in Taken : p \in 0..n
  BY DEF Members, PSets
<1>2. n \in Taken
  <2>1. CASE n = 0
    BY <2>1
  <2>2. CASE n > 0
    <3>1. n \in {s.position[x] : x \in Members(s)}
      BY <2>2
    <3> QED BY <3>1 DEF Members
  <2> QED BY <2>1, <2>2
<1>3. LastPosition(s) = n
  <2>1. \A m \in Taken : (\A p \in Taken : m >= p) => m = n
    BY <1>1, <1>2
  <2>2. \A p \in Taken : n >= p
    BY <1>1
  <2> QED BY <2>1, <2>2, <1>2 DEF LastPosition, Max
<1>4. Cardinality(Members(s)) = n
  <2> DEFINE f == [x \in Members(s) |-> s.position[x]]
  <2>1. f \in Injection(Members(s), 1..n)
    BY DEF Injection, IsInjective
  <2>2. f \in Surjection(Members(s), 1..n)
    <3>1. \A p \in 1..n : \E x \in Members(s) : f[x] = p
      OBVIOUS
    <3> QED BY <2>1, <3>1 DEF Injection, Surjection
  <2>3. IsFiniteSet(1..n) /\ Cardinality(1..n) = n
    BY FS_Interval
  <2> QED BY <2>1, <2>2, <2>3, FS_Injection
<1> QED BY <1>3, <1>4

Correct(s) == ReviewComplete(s) /\ Dense(s) /\ ActiveMember(s)

\* A member added behind the last position keeps positions dense and under the
\* cap; it is a candidate, which is why the review has to be reopened.
LEMMA AddKeepsCorrect ==
    ASSUME NEW s \in PSets, Correct(s), NEW x \in ParcelRefs \ Members(s),
           Cardinality(Members(s)) < MaxMembers
    PROVE  LET t == Changed(s, "draft", s.active,
                            [s.position EXCEPT ![x] = LastPosition(s) + 1], s.review)
           IN  t \in PSets /\ Correct(t)
<1> DEFINE t == Changed(s, "draft", s.active,
                        [s.position EXCEPT ![x] = LastPosition(s) + 1], s.review)
<1>1. x \in Refs /\ MaxMembers \in Nat
  BY RefsAssumption
<1>2. PICK n \in 0..MaxMembers :
          /\ {s.position[y] : y \in Members(s)} = 1..n
          /\ \A y, z \in Members(s) : s.position[y] = s.position[z] => y = z
  BY DEF Correct, Dense
<1>3. LastPosition(s) = n /\ n < MaxMembers
  BY <1>1, <1>2, DenseCounts
<1>4. [s.position EXCEPT ![x] = n + 1] \in [Refs -> 0..MaxMembers]
  BY <1>1, <1>3 DEF PSets
<1>5. /\ t \in PSets
      /\ t.position = [s.position EXCEPT ![x] = n + 1]
      /\ t.status = "draft" /\ t.active = s.active
  <2>1. s.active \in Refs \cup {NoRef} /\ s.review \in [Refs -> Reviews]
    BY DEF PSets
  <2>2. t = Changed(s, "draft", s.active, [s.position EXCEPT ![x] = n + 1], s.review)
    BY <1>3
  <2> HIDE DEF t
  <2> QED BY <1>4, <2>1, <2>2 DEF Changed, PSets
<1> HIDE DEF t
<1>6. /\ \A y \in Members(s) : t.position[y] = s.position[y] /\ t.position[y] \in 1..n
      /\ t.position[x] = n + 1
  <2>1. t.position[x] = n + 1
    BY <1>1, <1>5 DEF PSets
  <2>2. \A y \in Members(s) : t.position[y] = s.position[y]
    BY <1>5 DEF Members, PSets
  <2>3. \A y \in Members(s) : s.position[y] \in 1..n
    BY <1>2
  <2> QED BY <2>1, <2>2, <2>3
<1>7. Members(t) = Members(s) \cup {x}
  BY <1>1, <1>3, <1>5 DEF Members, PSets
<1>8. Dense(t)
  <2>1. {t.position[y] : y \in Members(t)} = 1..(n + 1)
    <3>1. {t.position[y] : y \in Members(t)}
              = {t.position[y] : y \in Members(s)} \cup {t.position[x]}
      BY <1>7
    <3>2. {t.position[y] : y \in Members(s)} = 1..n
      BY <1>2, <1>6
    <3>3. 1..(n + 1) = (1..n) \cup {n + 1}
      BY <1>1, <1>3
    <3> QED BY <3>1, <3>2, <3>3, <1>6
  <2>2. \A y, z \in Members(t) : t.position[y] = t.position[z] => y = z
    <3> SUFFICES ASSUME NEW y \in Members(t), NEW z \in Members(t),
                        t.position[y] = t.position[z]
                 PROVE  y = z
      OBVIOUS
    <3>1. CASE y = x /\ z = x
      BY <3>1
    <3>2. CASE y \in Members(s) /\ z \in Members(s)
      BY <3>2, <1>2, <1>6
    <3>3. CASE y = x /\ z \in Members(s)
      BY <3>3, <1>6, <1>3
    <3>4. CASE y \in Members(s) /\ z = x
      BY <3>4, <1>6, <1>3
    <3> QED BY <3>1, <3>2, <3>3, <3>4, <1>7
  <2>3. n + 1 \in 0..MaxMembers
    BY <1>1, <1>3
  <2> QED BY <2>1, <2>2, <2>3 DEF Dense
<1>9. ReviewComplete(t)
  BY <1>5 DEF ReviewComplete
<1>10. ActiveMember(t)
  BY <1>5, <1>7 DEF ActiveMember, Correct
<1>11. t \in PSets /\ Correct(t)
  BY <1>5, <1>8, <1>9, <1>10 DEF Correct
<1> QED BY <1>11 DEF t

\* An order that names exactly the members, each once, renumbers them 1..n.
LEMMA ReorderKeepsCorrect ==
    ASSUME NEW s \in PSets, Correct(s), NEW order \in Seq(Refs),
           IsInjective(order), Len(order) \in 1..MaxMembers,
           Range(order) = Members(s)
    PROVE  LET t == Changed(s, "draft", s.active, Reordered(s, order), s.review)
           IN  t \in PSets /\ Correct(t)
<1> DEFINE t == Changed(s, "draft", s.active, Reordered(s, order), s.review)
           n == Len(order)
<1>1. \A x \in Members(s) : PlaceOf(order, x) \in 1..n /\ order[PlaceOf(order, x)] = x
  <2> SUFFICES ASSUME NEW x \in Members(s)
               PROVE  PlaceOf(order, x) \in 1..n /\ order[PlaceOf(order, x)] = x
    OBVIOUS
  <2>1. \E i \in DOMAIN order : order[i] = x
    BY DEF Range
  <2>2. DOMAIN order = 1..n
    OBVIOUS
  <2> QED BY <2>1, <2>2 DEF PlaceOf
<1>2. \A i \in 1..n : order[i] \in Members(s) /\ PlaceOf(order, order[i]) = i
  <2> SUFFICES ASSUME NEW i \in 1..n
               PROVE  order[i] \in Members(s) /\ PlaceOf(order, order[i]) = i
    OBVIOUS
  <2>1. order[i] \in Members(s)
    BY DEF Range
  <2>2. /\ PlaceOf(order, order[i]) \in 1..n
        /\ order[PlaceOf(order, order[i])] = order[i]
    BY <2>1, <1>1
  <2> QED BY <2>1, <2>2 DEF IsInjective
<1>3. MaxMembers \in Nat /\ n \in 0..MaxMembers
  BY RefsAssumption
<1>4. Reordered(s, order) \in [Refs -> 0..MaxMembers]
  BY <1>1, <1>3 DEF Members, Reordered
<1>5. /\ t \in PSets
      /\ t.position = Reordered(s, order)
      /\ t.status = "draft" /\ t.active = s.active
  <2>1. s.active \in Refs \cup {NoRef} /\ s.review \in [Refs -> Reviews]
    BY DEF PSets
  <2>2. t = Changed(s, "draft", s.active, Reordered(s, order), s.review)
    OBVIOUS
  <2> HIDE DEF t
  <2> QED BY <1>4, <2>1, <2>2 DEF Changed, PSets
<1> HIDE DEF t, n
<1>6. \A x \in Refs :
          t.position[x] = IF x \in Members(s) THEN PlaceOf(order, x) ELSE 0
  BY <1>5 DEF Reordered
<1>7. Members(t) = Members(s)
  BY <1>1, <1>6, <1>3 DEF Members
<1>8. Dense(t)
  <2>1. \A x \in Members(s) : t.position[x] = PlaceOf(order, x)
    BY <1>6 DEF Members
  <2>2. {t.position[x] : x \in Members(t)} = 1..n
    <3>1. \A x \in Members(t) : t.position[x] \in 1..n
      BY <1>1, <1>7, <2>1
    <3>2. \A i \in 1..n : \E x \in Members(t) : t.position[x] = i
      BY <1>2, <1>7, <2>1
    <3> QED BY <3>1, <3>2
  <2>3. \A x, y \in Members(t) : t.position[x] = t.position[y] => x = y
    BY <1>1, <1>7, <2>1
  <2> QED BY <2>2, <2>3, <1>3 DEF Dense
<1>9. ReviewComplete(t) /\ ActiveMember(t)
  BY <1>5, <1>7 DEF ReviewComplete, ActiveMember, Correct
<1>10. t \in PSets /\ Correct(t)
  BY <1>5, <1>8, <1>9 DEF Correct
<1> QED BY <1>10 DEF t

\* The other commands leave members where they are.
LEMMA InPlaceKeepsCorrect ==
    ASSUME NEW s \in PSets, Correct(s), NEW status \in {"draft", "case_reviewed"},
           NEW active \in Members(s) \cup {NoRef}, NEW review \in [Refs -> Reviews],
           status = "case_reviewed" =>
               Members(s) # {} /\ \A x \in Members(s) : review[x] # "candidate"
    PROVE  LET t == Changed(s, status, active, s.position, review)
           IN  t \in PSets /\ Correct(t)
<1> DEFINE t == Changed(s, status, active, s.position, review)
<1>1. /\ t \in PSets
      /\ t.position = s.position
      /\ t.status = status /\ t.active = active /\ t.review = review
  <2>1. active \in Refs \cup {NoRef} /\ s.position \in [Refs -> 0..MaxMembers]
    BY DEF PSets, Members
  <2>2. t = Changed(s, status, active, s.position, review)
    OBVIOUS
  <2> HIDE DEF t
  <2> QED BY <2>1, <2>2 DEF Changed, PSets
<1> HIDE DEF t
<1>2. Members(t) = Members(s)
  BY <1>1 DEF Members
<1>3. ReviewComplete(t) /\ Dense(t) /\ ActiveMember(t)
  <2>1. ReviewComplete(t)
    BY <1>1, <1>2 DEF ReviewComplete
  <2>2. Dense(t)
    BY <1>1, <1>2 DEF Correct, Dense
  <2>3. ActiveMember(t)
    BY <1>1, <1>2 DEF Correct, ActiveMember
  <2> QED BY <2>1, <2>2, <2>3
<1>4. t \in PSets /\ Correct(t)
  BY <1>1, <1>3 DEF Correct
<1> QED BY <1>4 DEF t

\* A set that refuses nothing of a command stays correct under it: the guards
\* of the six commands, and the reviews they reopen, are enough.
LEMMA AppliedKeepsCorrect ==
    ASSUME NEW s \in PSets, Correct(s), NEW c \in Commands,
           Refusal(c, s) = "none"
    PROVE  Applied(c, s) \in PSets /\ Correct(Applied(c, s))
<1>1. /\ c.op \in Ops
      /\ c.op = "review_member" => c.ref \in Refs
      /\ c.to \in Reviews
      /\ c.order \in Seq(Refs)
      /\ c.op = "reorder" => IsInjective(c.order) /\ Len(c.order) \in 1..MaxMembers
  BY CommandsAssumption
<1>2. c.op # "initialize" => Admissible(c, s)
  BY DEF Refusal
<1>3. /\ s.status \in {"draft", "case_reviewed"}
      /\ s.active \in Members(s) \cup {NoRef}
      /\ s.review \in [Refs -> Reviews]
      /\ s.status = "case_reviewed" =>
             Members(s) # {} /\ \A x \in Members(s) : s.review[x] # "candidate"
  BY DEF PSets, Correct, ActiveMember, ReviewComplete
<1>4. CASE c.op = "initialize"
  BY <1>3, <1>4, InPlaceKeepsCorrect DEF Applied, Initialized
<1>5. CASE c.op = "add_member"
  <2>1. c.ref \in ParcelRefs \ Members(s) /\ Cardinality(Members(s)) < MaxMembers
    BY <1>2, <1>5 DEF Admissible, MayJoin
  <2> QED BY <1>5, <2>1, AddKeepsCorrect DEF Applied, Added
<1>6. CASE c.op = "review_member"
  <2>1. [s.review EXCEPT ![c.ref] = c.to] \in [Refs -> Reviews]
    BY <1>1, <1>3, <1>6
  <2> QED BY <1>3, <1>6, <2>1, InPlaceKeepsCorrect DEF Applied, Reviewed
<1>7. CASE c.op = "set_active_member"
  <2>1. c.ref \in Members(s) \cup {NoRef}
    BY <1>2, <1>7 DEF Admissible, MayFocus
  <2> QED BY <1>3, <1>7, <2>1, InPlaceKeepsCorrect DEF Applied, Focused
<1>8. CASE c.op = "reorder"
  <2>1. Range(c.order) = Members(s)
    BY <1>2, <1>8 DEF Admissible
  <2> QED BY <1>1, <1>8, <2>1, ReorderKeepsCorrect DEF Applied, Rearranged
<1>9. CASE c.op = "mark_case_reviewed"
  <2>1. Members(s) # {} /\ \A x \in Members(s) : s.review[x] # "candidate"
    BY <1>2, <1>9 DEF Admissible
  <2> QED BY <1>3, <1>9, <2>1, InPlaceKeepsCorrect DEF Applied, MarkedReviewed
<1> QED BY <1>1, <1>4, <1>5, <1>6, <1>7, <1>8, <1>9 DEF Ops

LEMMA NoSetIsCorrect == NoSet \in PSets /\ Correct(NoSet)
<1>1. MaxMembers \in Nat /\ NoRef \notin Refs /\ ParcelRefs \subseteq Refs
  BY RefsAssumption
<1>2. NoSet \in PSets
  BY <1>1 DEF NoSet, PSets, Reviews
<1>3. Members(NoSet) = {} /\ NoSet.status = "draft" /\ NoSet.active = NoRef
  BY DEF NoSet, Members
<1>4. Dense(NoSet)
  <2>1. 0 \in 0..MaxMembers /\ {NoSet.position[x] : x \in Members(NoSet)} = 1..0
    BY <1>1, <1>3
  <2> QED BY <1>3, <2>1 DEF Dense
<1>5. ReviewComplete(NoSet) /\ ActiveMember(NoSet)
  BY <1>3 DEF ReviewComplete, ActiveMember
<1> QED BY <1>2, <1>4, <1>5 DEF Correct
-----------------------------------------------------------------------------
(* ParcelSet.  Its operators are those of ParcelSetData.                    *)

LEMMA SetRefusalAgrees ==
    ASSUME NEW c, NEW s PROVE Set!Refusal(c, s) = Refusal(c, s)
<1>1. \A S : Set!Cardinality(S) = Cardinality(S)
  BY DEF Set!Cardinality, Cardinality
<1> QED
  BY <1>1 DEF Set!Refusal, Refusal, Set!Admissible, Admissible, Set!MayJoin, MayJoin,
              Set!MayFocus, MayFocus, Set!Members, Members, Set!Range, Range

LEMMA SetAppliedAgrees ==
    ASSUME NEW c, NEW s PROVE Set!Applied(c, s) = Applied(c, s)
BY DEF Set!Applied, Applied, Set!Changed, Changed, Set!Initialized, Initialized,
       Set!Added, Added, Set!Reviewed, Reviewed, Set!Focused, Focused,
       Set!Rearranged, Rearranged, Set!MarkedReviewed, MarkedReviewed,
       Set!LastPosition, LastPosition, Set!Max, Max, Set!Reordered, Reordered,
       Set!PlaceOf, PlaceOf, Set!Members, Members

LEMMA SetDataAgrees == Set!NoSet = NoSet /\ Set!PSets = PSets
BY DEF Set!NoSet, NoSet, Set!PSets, PSets, Set!Reviews, Reviews

\* The inductive invariant.  ReviewedIsComplete needs nothing more to survive,
\* but positions only stay under the cap while they are dense.
SetInv == Set!TypeOK /\ Correct(pset)

LEMMA SetInit == Set!Init => SetInv
<1> SUFFICES ASSUME Set!Init PROVE SetInv
  OBVIOUS
<1>1. pset = NoSet /\ fate = [k \in Keys |-> "open"]
  BY SetDataAgrees DEF Set!Init
<1>2. Set!TypeOK
  BY <1>1, NoSetIsCorrect, SetDataAgrees DEF Set!TypeOK, Set!SetTypeOK, Set!Fates
<1> QED BY <1>1, <1>2, NoSetIsCorrect DEF SetInv

LEMMA SetNext == SetInv /\ [Set!Next]_Set!vars => SetInv'
<1> SUFFICES ASSUME SetInv, [Set!Next]_Set!vars PROVE SetInv'
  OBVIOUS
<1> USE DEF SetInv
<1>1. ASSUME NEW k \in Keys, Set!Apply(k) PROVE SetInv'
  <2>1. PICK c \in Commands : Refusal(c, pset) = "none" /\ pset' = Applied(c, pset)
    BY <1>1, SetRefusalAgrees, SetAppliedAgrees DEF Set!Apply
  <2>2. pset' \in PSets /\ Correct(pset')
    BY <2>1, SetDataAgrees, AppliedKeepsCorrect DEF Set!TypeOK, Set!SetTypeOK
  <2>3. fate' \in [Keys -> Set!Fates]
    BY <1>1 DEF Set!Apply, Set!TypeOK, Set!Fates
  <2> QED BY <2>2, <2>3, SetDataAgrees
          DEF Set!TypeOK, Set!SetTypeOK, Correct, ReviewComplete, Dense, ActiveMember, Members
<1>2. ASSUME NEW k \in Keys, Set!Refuse(k) PROVE SetInv'
  BY <1>2 DEF Set!Refuse, Set!TypeOK, Set!SetTypeOK, Set!Fates, Correct, ReviewComplete, Dense, ActiveMember, Members
<1>3. CASE UNCHANGED Set!vars
  BY <1>3 DEF Set!vars, Set!TypeOK, Set!SetTypeOK, Correct, ReviewComplete, Dense, ActiveMember, Members
<1> QED BY <1>1, <1>2, <1>3 DEF Set!Next

\* The set and the fates keep their types under every command sequence.
THEOREM TypeCorrect == Set!Spec => []SetTypeOK
<1>1. SetInv => SetTypeOK
  BY SetDataAgrees DEF SetInv, Set!TypeOK, Set!SetTypeOK, SetTypeOK
<1> QED BY <1>1, SetInit, SetNext, PTL DEF Set!Spec

\* No sequence of commands leaves a review standing that does not cover every
\* member: what mark_case_reviewed checked once stays true while it shows.
THEOREM ReviewStaysComplete == Set!Spec => []ReviewedIsComplete
<1>1. SetInv => ReviewedIsComplete
  BY DEF SetInv, Correct, ReviewedIsComplete
<1> QED BY <1>1, SetInit, SetNext, PTL DEF Set!Spec

\* Positions stay 1..n under every mix of additions and reorderings, so
\* max(position) + 1 never leaves a gap and never passes the cap.
THEOREM PositionsStayDense == Set!Spec => []PositionsAreDense
<1>1. SetInv => PositionsAreDense
  BY DEF SetInv, Correct, PositionsAreDense
<1> QED BY <1>1, SetInit, SetNext, PTL DEF Set!Spec

\* The focus is never on a reference outside the set, nor is a building or a
\* place ever a member.
THEOREM ActiveStaysMember == Set!Spec => []ActiveIsMember
<1>1. SetInv => ActiveIsMember
  BY DEF SetInv, Correct, ActiveIsMember
<1> QED BY <1>1, SetInit, SetNext, PTL DEF Set!Spec
-----------------------------------------------------------------------------
(* ParcelSetCommands.  Requests, records, the open transaction and the      *)
(* audit log agree in the following ways, which carry each other over every *)
(* step.                                                                    *)

\* A request in flight is one; what is being marked is an error.
Typed(r) ==
    /\ pc[r] # "idle" => req[r] \in [key : Keys, cmd : Commands]
    /\ pc[r] = "marking" => answer[r] \in Errors

\* Past reserve the key's record holds this request's command for good.
Reserved(r) ==
    /\ pc[r] \in {"replaying", "opening", "locking", "committing", "marking"} =>
           SameRequest(r)
    /\ pc[r] = "replaying" => Record(r).status = "succeeded"

\* Who waits for COMMIT waits for its own transaction.
Waits(r) ==
    pc[r] = "committing" => tx # NoTx /\ tx.by = r /\ tx.key = req[r].key

\* Who was told of a success is answered, and the success is on record.
Told(r) ==
    answer[r] \in {"ok", "replayed"} =>
        pc[r] = "answered" /\ Record(r).status = "succeeded" /\ SameRequest(r)

\* An archived case without a set has nobody left to create one ...
Barred(r) ==
    archived /\ pset.version = 0 /\ req[r].cmd.op = "initialize" =>
        pc[r] \notin {"locking", "committing"}

SlotOK(r) == Typed(r) /\ Reserved(r) /\ Waits(r) /\ Told(r) /\ Barred(r)

\* ... nor an orphaned transaction that would.
NobodyInitializes == archived /\ pset.version = 0 => tx = NoTx

\* The audit log holds the succeeded keys, each once.
AuditedOnce ==
    /\ \A i \in DOMAIN audit : idem[audit[i].key].status = "succeeded"
    /\ \A i, j \in DOMAIN audit : audit[i].key = audit[j].key => i = j
    /\ \A k \in Keys :
           idem[k].status = "succeeded" => \E i \in DOMAIN audit : audit[i].key = k

LogOK == NoLostUpdate /\ AuditedOnce
TxOK == TransactionIsFresh /\ NobodyInitializes

CInv == TypeOK /\ Correct(pset) /\ LogOK /\ TxOK /\ \A r \in Requests : SlotOK(r)

\* What no step takes back of a record.
KeepsOutcomes ==
    \A k \in Keys :
        idem[k].status # "none" =>
            /\ idem'[k].cmd = idem[k].cmd
            /\ idem[k].status # "pending" => idem'[k] = idem[k]

LEMMA CommandsInit == Init => CInv
<1> SUFFICES ASSUME Init PROVE CInv
  OBVIOUS
<1> USE DEF Init
<1>1. Correct(pset) /\ pset \in PSets /\ pset.version = 0
  BY NoSetIsCorrect DEF NoSet
<1>2. NoRequest.cmd.op = "none"
  BY DEF NoRequest, NoCommand
<1>3. TypeOK
  <2>1. audit \in Seq([key : Keys, previous : Nat, new : Nat])
    BY EmptySeq
  <2> QED BY <1>1, <2>1 DEF TypeOK, Records, InFlight
<1>4. TxOK
  BY <1>2 DEF TxOK, TransactionIsFresh, NobodyInitializes
<1>5. LogOK
  BY <1>1 DEF LogOK, NoLostUpdate, AuditedOnce, NoRecord
<1>6. \A r \in Requests : SlotOK(r)
  BY DEF SlotOK, Typed, Reserved, Waits, Told, Barred
<1> QED BY <1>1, <1>3, <1>4, <1>5, <1>6 DEF CInv

\* A command under a key is a command, never the absent one.
LEMMA CommandsAreNamed == \A c \in Commands : c # NoCommand /\ c.op # "none"
BY CommandsAssumption DEF NoCommand, Ops

\* What an untouched slot relied on it may rely on after the step.
LEMMA SlotStays ==
    ASSUME CInv, NEW r \in Requests, KeepsOutcomes,
           pc'[r] = pc[r], req'[r] = req[r], answer'[r] = answer[r],
           pc[r] = "committing" => UNCHANGED tx,
           archived' = archived, pset'.version = 0 => pset.version = 0
    PROVE  SlotOK(r)'
<1>1. SlotOK(r)
  BY DEF CInv
<1>2. ASSUME pc[r] # "idle"
      PROVE  req[r].key \in Keys /\ req[r].cmd \in Commands
  BY <1>1, <1>2 DEF SlotOK, Typed
<1>3. ASSUME pc[r] # "idle", SameRequest(r)
      PROVE  Record(r).status # "none"
  <2>1. Record(r) \in Records /\ Record(r).cmd \in Commands
    BY <1>2, <1>3 DEF CInv, TypeOK, Record, SameRequest
  <2> QED BY <2>1, CommandsAreNamed DEF Records, NoRecord
<1>4. ASSUME pc[r] # "idle", SameRequest(r)
      PROVE  SameRequest(r)' /\ (Record(r).status = "succeeded" => Record(r)' = Record(r))
  BY <1>2, <1>3, <1>4 DEF KeepsOutcomes, Record, SameRequest
<1>5. Typed(r)' /\ Barred(r)'
  BY <1>1 DEF SlotOK, Typed, Barred
<1>6. Reserved(r)'
  BY <1>1, <1>4 DEF SlotOK, Reserved
<1>7. Waits(r)'
  BY <1>1 DEF SlotOK, Waits
<1>8. Told(r)'
  BY <1>1, <1>4 DEF SlotOK, Told
<1> QED BY <1>5, <1>6, <1>7, <1>8 DEF SlotOK

\* A step that leaves the database and the open transaction alone.
LEMMA DbStays ==
    ASSUME CInv, UNCHANGED <<db, tx>>
    PROVE  Correct(pset)' /\ LogOK' /\ TxOK' /\ KeepsOutcomes
<1> USE DEF CInv, db
<1>1. Correct(pset)'
  BY DEF Correct, ReviewComplete, Dense, ActiveMember, Members
<1>2. TxOK'
  BY DEF TxOK, TransactionIsFresh, NobodyInitializes
<1> QED BY <1>1, <1>2 DEF LogOK, NoLostUpdate, AuditedOnce, KeepsOutcomes
\* A step of one request that touches nothing but its slot is right if it
\* leaves that slot right.
LEMMA QuietStep ==
    ASSUME CInv, NEW r \in Requests, UNCHANGED <<db, tx>>,
           NEW l \in InFlight \cup {"idle", "answered"}, pc' = [pc EXCEPT ![r] = l],
           NEW a \in Errors \cup {"none", "ok", "replayed"},
           answer' = [answer EXCEPT ![r] = a],
           NEW q \in [key : Keys, cmd : Commands] \cup {NoRequest},
           req' = [req EXCEPT ![r] = q],
           SlotOK(r)'
    PROVE  CInv'
<1>1. Correct(pset)' /\ LogOK' /\ TxOK' /\ KeepsOutcomes
  BY DbStays
<1>2. TypeOK'
  BY DEF CInv, TypeOK, db
<1>3. ASSUME NEW x \in Requests PROVE SlotOK(x)'
  <2>1. CASE x # r
    <3>1. pc'[x] = pc[x] /\ req'[x] = req[x] /\ answer'[x] = answer[x]
      BY <2>1 DEF CInv, TypeOK
    <3> QED BY <1>1, <3>1, SlotStays DEF db
  <2> QED BY <2>1
<1> QED BY <1>1, <1>2, <1>3 DEF CInv

LEMMA SendKeeps == ASSUME CInv, NEW r \in Requests, Send(r) PROVE CInv'
<1> USE DEF Answer, Goto
<1>1. PICK s \in Submissions : req' = [req EXCEPT ![r] = s]
  BY DEF Send
<1>2. s \in [key : Keys, cmd : Commands]
  BY SubmissionsAssumption
<1>3. UNCHANGED <<db, tx>>
  BY DEF Send
<1>4. CASE archived
  <2>1. /\ pc' = [pc EXCEPT ![r] = "answered"]
        /\ answer' = [answer EXCEPT ![r] = "not_found"]
    BY <1>4 DEF Send
  <2>2. SlotOK(r)'
    BY <1>1, <1>2, <2>1 DEF CInv, TypeOK, SlotOK, Typed, Reserved, Waits, Told, Barred
  <2> QED BY <1>1, <1>2, <1>3, <2>1, <2>2, QuietStep DEF InFlight, Errors
<1>5. CASE ~archived
  <2>1. /\ pc' = [pc EXCEPT ![r] = "reserving"]
        /\ answer' = [answer EXCEPT ![r] = "none"]
    BY <1>5 DEF Send
  <2>2. SlotOK(r)'
    BY <1>1, <1>2, <2>1 DEF CInv, TypeOK, SlotOK, Typed, Reserved, Waits, Told, Barred
  <2> QED BY <1>1, <1>2, <1>3, <2>1, <2>2, QuietStep DEF InFlight
<1> QED BY <1>4, <1>5

\* A slot that moves on with the request it has.
LEMMA SameRequestStep ==
    ASSUME CInv, NEW r \in Requests, UNCHANGED <<db, tx, req>>,
           NEW l \in InFlight \cup {"idle", "answered"}, pc' = [pc EXCEPT ![r] = l],
           NEW a \in Errors \cup {"none", "ok", "replayed"},
           answer' = [answer EXCEPT ![r] = a],
           SlotOK(r)'
    PROVE  CInv'
<1>1. req' = [req EXCEPT ![r] = req[r]] /\ UNCHANGED <<db, tx>>
  BY DEF CInv, TypeOK
<1>2. req[r] \in [key : Keys, cmd : Commands] \cup {NoRequest}
  BY DEF CInv, TypeOK
<1> QED BY <1>1, <1>2, QuietStep

LEMMA ReplayKeeps == ASSUME CInv, NEW r \in Requests, Replay(r) PROVE CInv'
<1> DEFINE a == IF archived THEN "not_found" ELSE "replayed"
<1>1. /\ pc' = [pc EXCEPT ![r] = "answered"] /\ answer' = [answer EXCEPT ![r] = a]
      /\ UNCHANGED <<db, tx, req>>
  BY DEF Replay, Answer, Goto
<1>2. SlotOK(r)'
  <2>1. pc[r] = "replaying" /\ SlotOK(r)
    BY DEF Replay, CInv
  <2>2. pc'[r] = "answered" /\ answer'[r] = a
    BY <1>1 DEF CInv, TypeOK
  <2> QED BY <1>1, <2>1, <2>2
      DEF db, SlotOK, Typed, Reserved, Waits, Told, Barred, SameRequest, Record
<1> QED BY <1>1, <1>2, SameRequestStep DEF InFlight, Errors

\* A request that fails on its way has its error marked next.
LEMMA FailKeeps ==
    ASSUME CInv, NEW r \in Requests, NEW e \in Errors, UNCHANGED <<db, tx, req>>,
           pc[r] \in {"opening", "locking", "committing"}, Fail(r, e)
    PROVE  CInv'
<1>1. pc' = [pc EXCEPT ![r] = "marking"] /\ answer' = [answer EXCEPT ![r] = e]
  BY DEF Fail, Goto
<1>2. SlotOK(r)'
  <2>1. pc'[r] = "marking" /\ answer'[r] = e /\ SlotOK(r)
    BY <1>1 DEF CInv, TypeOK
  <2> QED BY <2>1
      DEF db, Errors, SlotOK, Typed, Reserved, Waits, Told, Barred, SameRequest, Record
<1> QED BY <1>1, <1>2, SameRequestStep DEF InFlight

LEMMA OpenKeeps == ASSUME CInv, NEW r \in Requests, Open(r) PROVE CInv'
<1>1. CASE archived \/ (req[r].cmd.op # "initialize" /\ pset.version = 0)
  BY <1>1, FailKeeps DEF Open, Errors
<1>2. CASE ~archived /\ ~(req[r].cmd.op # "initialize" /\ pset.version = 0)
  <2>1. /\ pc' = [pc EXCEPT ![r] = "locking"] /\ UNCHANGED <<db, tx, req, answer>>
        /\ pc[r] = "opening"
    BY <1>2 DEF Open, Goto
  <2>2. answer' = [answer EXCEPT ![r] = answer[r]]
    BY <2>1 DEF CInv, TypeOK
  <2>3. SlotOK(r)'
    <3>1. pc'[r] = "locking" /\ SlotOK(r)
      BY <2>1 DEF CInv, TypeOK
    <3> QED BY <1>2, <2>1, <3>1
        DEF db, SlotOK, Typed, Reserved, Waits, Told, Barred, SameRequest, Record
  <2>4. answer[r] \in Errors \cup {"none", "ok", "replayed"}
    BY DEF CInv, TypeOK
  <2> QED BY <2>1, <2>2, <2>3, <2>4, SameRequestStep DEF InFlight
<1> QED BY <1>1, <1>2

LEMMA LoseConnectionKeeps ==
    ASSUME CInv, NEW r \in Requests, LoseConnection(r) PROVE CInv'
BY FailKeeps DEF LoseConnection, Errors

LEMMA MarkLostKeeps == ASSUME CInv, NEW r \in Requests, MarkLost(r) PROVE CInv'
<1>1. /\ pc' = [pc EXCEPT ![r] = "answered"] /\ answer' = [answer EXCEPT ![r] = answer[r]]
      /\ UNCHANGED <<db, tx, req>> /\ pc[r] = "marking"
  BY DEF MarkLost, Answer, Goto
<1>2. SlotOK(r)'
  <2>1. pc'[r] = "answered" /\ answer'[r] = answer[r] /\ SlotOK(r)
    BY <1>1 DEF CInv, TypeOK
  <2> QED BY <1>1, <2>1
      DEF db, Errors, SlotOK, Typed, Reserved, Waits, Told, Barred, SameRequest, Record
<1>3. answer[r] \in Errors \cup {"none", "ok", "replayed"}
  BY DEF CInv, TypeOK
<1> QED BY <1>1, <1>2, <1>3, SameRequestStep DEF InFlight

LEMMA CrashKeeps == ASSUME CInv, NEW r \in Requests, Crash(r) PROVE CInv'
<1>1. /\ pc' = [pc EXCEPT ![r] = "idle"] /\ answer' = [answer EXCEPT ![r] = "none"]
      /\ UNCHANGED <<db, tx, req>>
  BY DEF Crash, Goto
<1>2. SlotOK(r)'
  <2>1. pc'[r] = "idle" /\ answer'[r] = "none"
    BY <1>1 DEF CInv, TypeOK
  <2> QED BY <2>1 DEF SlotOK, Typed, Reserved, Waits, Told, Barred
<1> QED BY <1>1, <1>2, SameRequestStep DEF InFlight
LEMMA AuditedKeys == TypeOK => \A i \in DOMAIN audit : audit[i].key \in Keys
<1> SUFFICES ASSUME TypeOK, NEW i \in DOMAIN audit PROVE audit[i].key \in Keys
  OBVIOUS
<1> DEFINE E == [key : Keys, previous : Nat, new : Nat]
<1>1. audit \in Seq(E)
  BY DEF TypeOK
<1> HIDE DEF E
<1>2. audit[i] \in E
  BY <1>1, ElementOfSeq
<1> QED BY <1>2 DEF E

\* A request writes its record: no outcome is taken back, none is a success and
\* the open transaction's record is not touched.
LEMMA RecordStep ==
    ASSUME CInv, NEW r \in Requests, pc[r] # "idle", UNCHANGED <<archived, pset, audit, tx, req>>,
           NEW e \in Records, idem' = [idem EXCEPT ![req[r].key] = e],
           NEW l \in InFlight \cup {"idle", "answered"}, pc' = [pc EXCEPT ![r] = l],
           NEW a \in Errors \cup {"none", "ok", "replayed"},
           answer' = [answer EXCEPT ![r] = a],
           KeepsOutcomes,
           e.status = "succeeded" => Record(r).status = "succeeded",
           tx # NoTx => tx.key # req[r].key,
           SlotOK(r)'
    PROVE  CInv'
<1>1. req[r].key \in Keys
  BY DEF CInv, SlotOK, Typed
<1>2. TypeOK'
  BY <1>1 DEF CInv, TypeOK
<1>3. Correct(pset)'
  BY DEF CInv, Correct, ReviewComplete, Dense, ActiveMember, Members
<1>4. \A k \in Keys : idem'[k].status = "succeeded" <=> idem[k].status = "succeeded"
  BY <1>1 DEF CInv, TypeOK, KeepsOutcomes, Record
<1>5. \A i \in DOMAIN audit : audit[i].key \in Keys
  BY AuditedKeys DEF CInv
<1>6. LogOK'
  <2>1. NoLostUpdate'
    <3>1. \A i \in DOMAIN audit : idem'[audit[i].key] = idem[audit[i].key]
      BY <1>5 DEF CInv, LogOK, AuditedOnce, KeepsOutcomes
    <3> QED BY <3>1 DEF CInv, LogOK, NoLostUpdate
  <2>2. AuditedOnce'
    BY <1>4, <1>5 DEF CInv, LogOK, AuditedOnce
  <2> QED BY <2>1, <2>2 DEF LogOK
<1>7. TxOK'
  <2>1. ASSUME tx # NoTx PROVE idem'[tx.key] = idem[tx.key]
    BY <1>1, <2>1 DEF CInv, TypeOK, Transactions
  <2> QED BY <2>1 DEF CInv, TxOK, TransactionIsFresh, NobodyInitializes
<1>8. ASSUME NEW x \in Requests PROVE SlotOK(x)'
  <2>1. CASE x # r
    <3>1. pc'[x] = pc[x] /\ req'[x] = req[x] /\ answer'[x] = answer[x]
      BY <2>1 DEF CInv, TypeOK
    <3> QED BY <3>1, SlotStays
  <2> QED BY <2>1
<1> QED BY <1>2, <1>3, <1>6, <1>7, <1>8 DEF CInv

LEMMA ReserveKeeps == ASSUME CInv, NEW r \in Requests, Reserve(r) PROVE CInv' /\ KeepsOutcomes
<1>1. /\ pc[r] = "reserving" /\ SlotOK(r)
      /\ req[r].key \in Keys /\ req[r].cmd \in Commands
      /\ Record(r) \in Records
  BY DEF Reserve, CInv, TypeOK, SlotOK, Typed, Record
<1>2. CASE UNCHANGED idem
  <2>1. KeepsOutcomes
    BY <1>2 DEF KeepsOutcomes
  <2>2. UNCHANGED <<db, tx, req>>
    BY <1>2 DEF Reserve, db
  <2>3. ASSUME NEW a \in Errors, Answer(r, a) PROVE CInv'
    <3>1. pc' = [pc EXCEPT ![r] = "answered"] /\ answer' = [answer EXCEPT ![r] = a]
      BY <2>3 DEF Answer, Goto
    <3>2. SlotOK(r)'
      <4>1. pc'[r] = "answered" /\ answer'[r] = a
        BY <3>1 DEF CInv, TypeOK
      <4> QED BY <1>1, <2>2, <4>1 DEF Errors, SlotOK, Typed, Reserved, Waits, Told, Barred
    <3> QED BY <2>2, <3>1, <3>2, SameRequestStep DEF InFlight
  <2>4. ASSUME SameRequest(r), Record(r).status = "succeeded",
               Goto(r, "replaying"), UNCHANGED answer
        PROVE  CInv'
    <3>1. pc' = [pc EXCEPT ![r] = "replaying"] /\ answer' = [answer EXCEPT ![r] = answer[r]]
      BY <2>4 DEF Goto, CInv, TypeOK
    <3>2. SlotOK(r)'
      <4>1. pc'[r] = "replaying" /\ answer'[r] = answer[r]
        BY <3>1 DEF CInv, TypeOK
      <4> QED BY <1>1, <2>2, <2>4, <4>1
          DEF db, SlotOK, Typed, Reserved, Waits, Told, Barred, SameRequest, Record
    <3>3. answer[r] \in Errors \cup {"none", "ok", "replayed"}
      BY DEF CInv, TypeOK
    <3> QED BY <2>2, <3>1, <3>2, <3>3, SameRequestStep DEF InFlight
  <2>5. Record(r).status = "failed" => Record(r).error \in Errors
    BY <1>1 DEF Records, NoRecord
  <2>6. \/ \E a \in Errors : Answer(r, a)
        \/ /\ SameRequest(r) /\ Record(r).status = "succeeded"
           /\ Goto(r, "replaying") /\ UNCHANGED answer
        \/ Record(r) = NoRecord /\ idem' # idem
    <3>1. ASSUME Record(r) = NoRecord,
                 idem' = [idem EXCEPT ![req[r].key] =
                            [status |-> "pending", cmd |-> req[r].cmd, error |-> "none"]]
          PROVE  idem' # idem
      BY <1>1, <3>1 DEF CInv, TypeOK, NoRecord, Record
    <3> QED BY <2>5, <3>1 DEF Reserve, Errors
  <2> QED BY <1>2, <2>1, <2>3, <2>4, <2>6
<1>3. CASE Record(r) = NoRecord /\ idem' # idem
  <2> DEFINE e == [status |-> "pending", cmd |-> req[r].cmd, error |-> "none"]
  <2>1. /\ idem' = [idem EXCEPT ![req[r].key] = e]
        /\ pc' = [pc EXCEPT ![r] = "opening"]
        /\ UNCHANGED <<archived, pset, audit, tx, req, answer>>
    BY <1>3 DEF Reserve, Goto
  <2>2. e \in Records /\ e.status # "succeeded"
    BY <1>1 DEF Records
  <2>3. Record(r).status = "none" /\ Record(r)' = e
    BY <1>1, <1>3, <2>1 DEF CInv, TypeOK, Record, NoRecord
  <2>4. KeepsOutcomes
    BY <1>1, <2>1, <2>3 DEF KeepsOutcomes, CInv, TypeOK, Record
  <2>5. tx # NoTx => tx.key # req[r].key
    BY <2>3 DEF CInv, TxOK, TransactionIsFresh, Record
  <2>6. SlotOK(r)'
    <3>1. pc'[r] = "opening"
      BY <2>1 DEF CInv, TypeOK
    <3> QED BY <1>1, <2>1, <2>3, <3>1
        DEF SlotOK, Typed, Reserved, Waits, Told, Barred, SameRequest
  <2>7. answer' = [answer EXCEPT ![r] = answer[r]]
        /\ answer[r] \in Errors \cup {"none", "ok", "replayed"}
    BY <2>1 DEF CInv, TypeOK
  <2> HIDE DEF e
  <2>8. CInv'
    BY <1>1, <2>1, <2>2, <2>4, <2>5, <2>6, <2>7, RecordStep DEF InFlight
  <2> QED BY <2>4, <2>8
<1>4. idem' = idem \/ (Record(r) = NoRecord /\ idem' # idem)
  BY DEF Reserve
<1> QED BY <1>2, <1>3, <1>4

LEMMA MarkFailedKeeps ==
    ASSUME CInv, NEW r \in Requests, MarkFailed(r) PROVE CInv' /\ KeepsOutcomes
<1>1. /\ pc[r] = "marking" /\ SlotOK(r) /\ SameRequest(r) /\ answer[r] \in Errors
      /\ req[r].key \in Keys /\ req[r].cmd \in Commands
      /\ Record(r) \in Records
  BY DEF MarkFailed, CInv, TypeOK, SlotOK, Typed, Reserved, Record
<1>2. /\ idem' = [idem EXCEPT ![req[r].key] = Failed(r)]
      /\ pc' = [pc EXCEPT ![r] = "answered"] /\ answer' = [answer EXCEPT ![r] = answer[r]]
      /\ UNCHANGED <<archived, pset, audit, tx, req>>
      /\ tx # NoTx => tx.key # req[r].key
  BY DEF MarkFailed, Answer, Goto, RecordFree
<1>3. /\ Failed(r) \in Records /\ Failed(r).cmd = Record(r).cmd
      /\ Record(r).status # "pending" => Failed(r) = Record(r)
      /\ Failed(r).status = "succeeded" => Record(r).status = "succeeded"
  <2>1. CASE Record(r).status = "pending"
    <3>1. /\ Record(r).cmd \in Commands
          /\ Failed(r) = [status |-> "failed", cmd |-> Record(r).cmd, error |-> answer[r]]
      BY <1>1, <2>1 DEF Failed, Records, SameRequest, NoRecord
    <3> QED BY <1>1, <2>1, <3>1 DEF Records
  <2>2. CASE Record(r).status # "pending"
    BY <1>1, <2>2 DEF Failed
  <2> QED BY <2>1, <2>2
<1>4. KeepsOutcomes
  BY <1>1, <1>2, <1>3 DEF KeepsOutcomes, CInv, TypeOK, Record
<1>5. SlotOK(r)'
  <2>1. pc'[r] = "answered" /\ answer'[r] = answer[r]
    BY <1>2 DEF CInv, TypeOK
  <2> QED BY <1>1, <1>2, <2>1 DEF Errors, SlotOK, Typed, Reserved, Waits, Told, Barred
<1>6. CInv'
  BY <1>1, <1>2, <1>3, <1>4, <1>5, RecordStep DEF InFlight
<1> QED BY <1>4, <1>6
LEMMA EveryChangeIsAVersion ==
    ASSUME NEW s \in PSets, NEW c \in Commands
    PROVE  Applied(c, s).version = s.version + 1
<1>1. c.op \in Ops
  BY CommandsAssumption
<1> QED
  BY <1>1 DEF Ops, Applied, Initialized, Added, Reviewed, Focused, Rearranged,
              MarkedReviewed, Changed

LEMMA ExecuteKeeps == ASSUME CInv, NEW r \in Requests, Execute(r) PROVE CInv'
<1>1. /\ pc[r] = "locking" /\ tx = NoTx /\ SlotOK(r) /\ SameRequest(r)
      /\ req[r].key \in Keys /\ req[r].cmd \in Commands
      /\ UNCHANGED <<db, req>>
  BY DEF Execute, CInv, SlotOK, Typed, Reserved
<1>2. CASE Outcome(r) # "none"
  <2>1. Outcome(r) \in Errors
    BY <1>2 DEF Outcome, Refusal, Errors
  <2>2. Fail(r, Outcome(r)) /\ UNCHANGED <<db, tx, req>>
    BY <1>1, <1>2 DEF Execute
  <2> QED BY <1>1, <2>1, <2>2, FailKeeps
<1>3. CASE Outcome(r) = "none"
  <2> DEFINE t == [open |-> TRUE, by |-> r, key |-> req[r].key,
                   set |-> Applied(req[r].cmd, pset)]
  <2>1. tx' = t /\ pc' = [pc EXCEPT ![r] = "committing"] /\ UNCHANGED answer
    BY <1>3 DEF Execute, Goto
  <2>2. Refusal(req[r].cmd, pset) = "none" /\ Record(r).status = "pending"
    BY <1>3 DEF Outcome
  <2>3. pset \in PSets /\ Correct(pset)
    BY DEF CInv, TypeOK
  <2>4. t \in Transactions
    BY <1>1, <2>2, <2>3, AppliedKeepsCorrect DEF Transactions
  <2>5. t # NoTx
    <3>1. t.open = TRUE /\ NoTx.open = FALSE
      BY DEF NoTx
    <3> QED BY <3>1
  <2>6. TypeOK'
    BY <1>1, <2>1, <2>4 DEF CInv, TypeOK, db, InFlight
  <2>7. Correct(pset)' /\ LogOK'
    BY <1>1 DEF CInv, db, LogOK, NoLostUpdate, AuditedOnce,
                Correct, ReviewComplete, Dense, ActiveMember, Members
  <2>8. TxOK'
    <3>1. TransactionIsFresh'
      BY <1>1, <2>1, <2>2 DEF TransactionIsFresh, db, Record, SameRequest
    <3>2. ~(archived /\ pset.version = 0)
      BY <1>1, <2>2 DEF Refusal, SlotOK, Barred
    <3> QED BY <1>1, <3>1, <3>2 DEF TxOK, NobodyInitializes, db
  <2>9. SlotOK(r)'
    <3>1. pc'[r] = "committing"
      BY <2>1 DEF CInv, TypeOK
    <3> QED BY <1>1, <2>1, <2>2, <2>5, <3>1
        DEF db, SlotOK, Typed, Reserved, Waits, Told, Barred, Record, SameRequest, Refusal
  <2>10. ASSUME NEW x \in Requests, x # r PROVE SlotOK(x)'
    <3>1. pc'[x] = pc[x] /\ req'[x] = req[x] /\ answer'[x] = answer[x]
      BY <1>1, <2>1, <2>10 DEF CInv, TypeOK
    <3>2. pc[x] # "committing"
      BY <1>1 DEF CInv, SlotOK, Waits
    <3>3. KeepsOutcomes
      BY <1>1 DEF KeepsOutcomes, db
    <3> QED BY <1>1, <3>1, <3>2, <3>3, SlotStays DEF db
  <2> QED BY <2>6, <2>7, <2>8, <2>9, <2>10 DEF CInv
<1> QED BY <1>2, <1>3

\* The server's decision reaches the request that waits for it, if there is
\* one, and leaves every other slot alone.
LEMMA DecisionKeeps ==
    ASSUME CInv, tx # NoTx, tx' = NoTx, UNCHANGED <<archived, req>>,
           KeepsOutcomes, pset'.version = 0 => pset.version = 0,
           \/ pc[tx.by] # "committing" /\ UNCHANGED <<pc, answer>>
           \/ pc[tx.by] = "committing" /\ \E e \in Errors : Fail(tx.by, e)
           \/ /\ pc[tx.by] = "committing" /\ Answer(tx.by, "ok")
              /\ idem'[tx.key].status = "succeeded"
    PROVE  /\ \A r \in Requests : SlotOK(r)'
           /\ pc' \in [Requests -> InFlight \cup {"idle", "answered"}]
           /\ answer' \in [Requests -> Errors \cup {"none", "ok", "replayed"}]
<1>1. tx.by \in Requests /\ tx.key \in Keys
  BY DEF CInv, TypeOK, Transactions
<1>2. /\ pc \in [Requests -> InFlight \cup {"idle", "answered"}]
      /\ answer \in [Requests -> Errors \cup {"none", "ok", "replayed"}]
  BY DEF CInv, TypeOK
<1>3. ASSUME NEW r \in Requests PROVE SlotOK(r)'
  <2>1. CASE pc[r] # "committing"
    <3>1. pc'[r] = pc[r] /\ req'[r] = req[r] /\ answer'[r] = answer[r]
      BY <1>1, <1>2, <2>1 DEF Fail, Answer, Goto
    <3> QED BY <2>1, <3>1, SlotStays
  <2>2. CASE pc[r] = "committing"
    <3>1. r = tx.by /\ tx.key = req[r].key /\ SlotOK(r)
      BY <2>2 DEF CInv, SlotOK, Waits
    <3>2. /\ SameRequest(r) /\ req[r] \in [key : Keys, cmd : Commands]
          /\ idem[tx.key].status # "none"
      BY <2>2, <3>1 DEF CInv, TxOK, TransactionIsFresh, SlotOK, Typed, Reserved
    <3>3. SameRequest(r)'
      BY <3>1, <3>2 DEF KeepsOutcomes, SameRequest, Record
    <3>4. CASE \E e \in Errors : Fail(r, e)
      <4>1. PICK e \in Errors : Fail(r, e)
        BY <3>4
      <4>2. pc'[r] = "marking" /\ answer'[r] = e
        BY <1>2, <4>1 DEF Fail, Goto
      <4> QED BY <3>2, <3>3, <4>2
          DEF SlotOK, Typed, Reserved, Waits, Told, Barred, Errors
    <3>5. CASE Answer(r, "ok") /\ idem'[tx.key].status = "succeeded"
      <4>1. pc'[r] = "answered" /\ answer'[r] = "ok"
        BY <1>2, <3>5 DEF Answer, Goto
      <4>2. Record(r)'.status = "succeeded"
        BY <3>1, <3>5 DEF Record
      <4> QED BY <3>2, <3>3, <4>1, <4>2
          DEF SlotOK, Typed, Reserved, Waits, Told, Barred
    <3> QED BY <2>2, <3>1, <3>4, <3>5
  <2> QED BY <2>1, <2>2
<1>4. /\ pc' \in [Requests -> InFlight \cup {"idle", "answered"}]
      /\ answer' \in [Requests -> Errors \cup {"none", "ok", "replayed"}]
  BY <1>2 DEF Fail, Answer, Goto, InFlight
<1> QED BY <1>3, <1>4

LEMMA AbortKeeps == ASSUME CInv, Abort PROVE CInv'
<1>1. tx # NoTx /\ tx' = NoTx /\ UNCHANGED <<db, req>>
  BY DEF Abort
<1>2. KeepsOutcomes
  BY <1>1 DEF KeepsOutcomes, db
<1>3. \/ pc[tx.by] # "committing" /\ UNCHANGED <<pc, answer>>
      \/ pc[tx.by] = "committing" /\ \E e \in Errors : Fail(tx.by, e)
  BY DEF Abort, Errors
<1>4. /\ \A r \in Requests : SlotOK(r)'
      /\ pc' \in [Requests -> InFlight \cup {"idle", "answered"}]
      /\ answer' \in [Requests -> Errors \cup {"none", "ok", "replayed"}]
  BY <1>1, <1>2, <1>3, DecisionKeeps DEF db
<1>5. TypeOK'
  BY <1>1, <1>4 DEF CInv, TypeOK, db
<1>6. Correct(pset)' /\ LogOK'
  BY <1>1 DEF CInv, db, LogOK, NoLostUpdate, AuditedOnce,
              Correct, ReviewComplete, Dense, ActiveMember, Members
<1>7. TxOK'
  BY <1>1 DEF TxOK, TransactionIsFresh, NobodyInitializes
<1> QED BY <1>4, <1>5, <1>6, <1>7 DEF CInv

LEMMA ArchiveKeeps == ASSUME CInv, Archive PROVE CInv'
<1>1. archived' = TRUE /\ ~archived /\ UNCHANGED <<pset, idem, audit, tx, pc, req, answer>>
  BY DEF Archive
<1>2. TypeOK' /\ Correct(pset)' /\ LogOK'
  BY <1>1 DEF CInv, TypeOK, LogOK, NoLostUpdate, AuditedOnce,
              Correct, ReviewComplete, Dense, ActiveMember, Members
<1>3. TxOK'
  <2>1. ASSUME tx # NoTx PROVE pset.version # 0
    <3>1. /\ idem[tx.key].status = "pending" /\ idem[tx.key] \in Records
          /\ tx.set = Applied(idem[tx.key].cmd, pset) /\ pset \in PSets
      BY <2>1 DEF CInv, TypeOK, TxOK, TransactionIsFresh, Transactions
    <3>2. tx.set.version = pset.version + 1
      BY <3>1, EveryChangeIsAVersion DEF Records, NoRecord
    <3> QED BY <2>1, <3>1, <3>2 DEF Archive, CaseShared, PSets
  <2> QED BY <1>1, <2>1 DEF CInv, TxOK, TransactionIsFresh, NobodyInitializes
<1>4. ASSUME NEW r \in Requests PROVE SlotOK(r)'
  <2>1. SlotOK(r)
    BY DEF CInv
  <2>2. Barred(r)'
    BY <1>1 DEF Archive, CaseShared, Barred
  <2> QED BY <1>1, <2>1, <2>2
      DEF SlotOK, Typed, Reserved, Waits, Told, SameRequest, Record
<1> QED BY <1>2, <1>3, <1>4 DEF CInv

LEMMA CommitKeeps == ASSUME CInv, Commit PROVE CInv' /\ KeepsOutcomes
<1> DEFINE k == tx.key
           rec == [idem[k] EXCEPT !.status = "succeeded"]
           E == [key : Keys, previous : Nat, new : Nat]
           e == [key |-> k, new |-> tx.set.version, previous |-> idem[k].cmd.expected]
           n == Len(audit)
<1>1. /\ tx # NoTx /\ tx' = NoTx /\ pset' = tx.set
      /\ audit' = Append(audit, e) /\ UNCHANGED <<archived, req>>
  BY DEF Commit
<1>2. idem' = [idem EXCEPT ![k] = rec]
  BY DEF Commit
<1>3. /\ k \in Keys /\ tx.set \in PSets /\ pset \in PSets /\ Correct(pset)
      /\ idem \in [Keys -> Records]
      /\ idem[k].status = "pending" /\ Refusal(idem[k].cmd, pset) = "none"
      /\ tx.set = Applied(idem[k].cmd, pset)
  BY <1>1 DEF CInv, TypeOK, Transactions, TxOK, TransactionIsFresh
<1>4. /\ idem[k].cmd \in Commands
      /\ idem[k] \in [status : {"pending", "succeeded"}, cmd : Commands, error : {"none"}]
  BY <1>3 DEF Records, NoRecord
<1>5. rec \in Records /\ rec.status = "succeeded" /\ rec.cmd = idem[k].cmd
  BY <1>4 DEF Records
<1> HIDE DEF rec
<1>6. /\ \A x \in Keys : idem'[x] = IF x = k THEN rec ELSE idem[x]
      /\ idem' \in [Keys -> Records]
  BY <1>2, <1>3, <1>5
<1>7. KeepsOutcomes
  BY <1>3, <1>5, <1>6 DEF KeepsOutcomes
<1>8. tx.set.version = pset.version + 1 /\ pset.version \in Nat
  BY <1>3, <1>4, EveryChangeIsAVersion DEF PSets
<1>9. Correct(pset)'
  <2>1. Correct(tx.set)
    BY <1>3, <1>4, AppliedKeepsCorrect
  <2> QED BY <1>1, <2>1 DEF Correct, ReviewComplete, Dense, ActiveMember, Members
<1>10. /\ audit \in Seq(E) /\ e \in E /\ e.key = k /\ e.new = pset.version + 1
       /\ e.previous = idem[k].cmd.expected
  BY <1>3, <1>4, <1>8, CommandsAssumption DEF CInv, TypeOK
<1> HIDE DEF E, e
<1>11. /\ n \in Nat /\ DOMAIN audit = 1..n
       /\ audit' \in Seq(E) /\ Len(audit') = n + 1 /\ DOMAIN audit' = 1..(n + 1)
       /\ \A i \in 1..n : audit'[i] = audit[i]
       /\ audit'[n + 1] = e
  BY <1>1, <1>10, AppendProperties, LenProperties
<1>12. /\ \A i \in 1..n : audit[i].key \in Keys
       /\ pset.version = n
       /\ \A i \in 1..n : idem[audit[i].key].status = "succeeded" /\ audit[i].key # k
  BY <1>3, <1>11, AuditedKeys DEF CInv, LogOK, NoLostUpdate, AuditedOnce
<1> HIDE DEF n, k
<1>13. NoLostUpdate'
  <2>1. pset'.version = Len(audit')
    BY <1>1, <1>8, <1>11, <1>12
  <2>2. ASSUME NEW i \in 1..n
        PROVE  /\ audit'[i].new = i
               /\ idem'[audit'[i].key].cmd.op # "initialize" => audit'[i].previous = i - 1
    BY <1>6, <1>11, <1>12 DEF CInv, LogOK, NoLostUpdate
  <2>3. audit'[n + 1].new = n + 1
    BY <1>10, <1>11, <1>12
  <2>4. ASSUME rec.cmd.op # "initialize" PROVE e.previous = n
    BY <1>3, <1>5, <1>10, <1>12, <2>4 DEF Refusal
  <2>5. idem'[audit'[n + 1].key] = rec
    BY <1>3, <1>6, <1>10, <1>11
  <2>6. n = (n + 1) - 1
    BY <1>11
  <2>7. \A i \in 1..(n + 1) : i \in 1..n \/ i = n + 1
    BY <1>11
  <2> QED BY <1>11, <2>1, <2>2, <2>3, <2>4, <2>5, <2>6, <2>7 DEF NoLostUpdate
<1>14. AuditedOnce'
  <2>1. \A i \in 1..(n + 1) : i \in 1..n \/ i = n + 1
    BY <1>11
  <2>2. \A i \in DOMAIN audit' : idem'[audit'[i].key].status = "succeeded"
    BY <1>3, <1>5, <1>6, <1>10, <1>11, <1>12, <2>1
  <2>3. \A i, j \in DOMAIN audit' : audit'[i].key = audit'[j].key => i = j
    <3> SUFFICES ASSUME NEW i \in 1..(n + 1), NEW j \in 1..(n + 1),
                        audit'[i].key = audit'[j].key
                 PROVE  i = j
      BY <1>11
    <3>1. CASE i \in 1..n /\ j \in 1..n
      BY <1>11, <3>1 DEF CInv, LogOK, AuditedOnce
    <3>2. CASE i = n + 1 \/ j = n + 1
      BY <1>10, <1>11, <1>12, <2>1, <3>2
    <3> QED BY <2>1, <3>1, <3>2
  <2>4. ASSUME NEW x \in Keys, idem'[x].status = "succeeded"
        PROVE  \E i \in DOMAIN audit' : audit'[i].key = x
    <3>1. CASE x = k
      <4>1. n + 1 \in DOMAIN audit' /\ audit'[n + 1].key = x
        BY <1>10, <1>11, <3>1
      <4> QED BY <4>1
    <3>2. CASE x # k
      <4>1. PICK i \in 1..n : audit[i].key = x
        BY <1>6, <1>11, <2>4, <3>2 DEF CInv, LogOK, AuditedOnce
      <4>2. i \in DOMAIN audit' /\ audit'[i].key = x
        BY <1>11, <4>1
      <4> QED BY <4>2
    <3> QED BY <3>1, <3>2
  <2> QED BY <2>2, <2>3, <2>4 DEF AuditedOnce
<1>15. /\ \A r \in Requests : SlotOK(r)'
       /\ pc' \in [Requests -> InFlight \cup {"idle", "answered"}]
       /\ answer' \in [Requests -> Errors \cup {"none", "ok", "replayed"}]
  <2>1. idem'[tx.key].status = "succeeded"
    BY <1>3, <1>5, <1>6 DEF k
  <2>2. \/ pc[tx.by] # "committing" /\ UNCHANGED <<pc, answer>>
        \/ pc[tx.by] = "committing" /\ \E a \in Errors : Fail(tx.by, a)
        \/ pc[tx.by] = "committing" /\ Answer(tx.by, "ok")
    BY DEF Commit, Errors
  <2>3. pset'.version # 0
    BY <1>1, <1>8
  <2> QED BY <1>1, <1>7, <2>1, <2>2, <2>3, DecisionKeeps
<1>16. TypeOK'
  BY <1>1, <1>3, <1>6, <1>11, <1>15 DEF CInv, TypeOK, E
<1>17. TxOK'
  BY <1>1 DEF TxOK, TransactionIsFresh, NobodyInitializes, k
<1>18. CInv'
  BY <1>9, <1>13, <1>14, <1>15, <1>16, <1>17 DEF CInv, LogOK
<1> QED BY <1>7, <1>18

\* Every step, in one place: what the requests, the records, the transaction and
\* the log agree on stays agreed, and no outcome is taken back.
LEMMA CommandsNext == CInv /\ [Next]_vars => CInv' /\ KeepsOutcomes
<1> SUFFICES ASSUME CInv, [Next]_vars PROVE CInv' /\ KeepsOutcomes
  OBVIOUS
<1>1. ASSUME UNCHANGED idem PROVE KeepsOutcomes
  BY <1>1 DEF KeepsOutcomes
<1>2. ASSUME NEW r \in Requests, Send(r) PROVE CInv' /\ KeepsOutcomes
  BY <1>1, <1>2, SendKeeps DEF Send, db
<1>3. ASSUME NEW r \in Requests, Reserve(r) PROVE CInv' /\ KeepsOutcomes
  BY <1>3, ReserveKeeps
<1>4. ASSUME NEW r \in Requests, Replay(r) PROVE CInv' /\ KeepsOutcomes
  BY <1>1, <1>4, ReplayKeeps DEF Replay, db
<1>5. ASSUME NEW r \in Requests, Open(r) PROVE CInv' /\ KeepsOutcomes
  BY <1>1, <1>5, OpenKeeps DEF Open, db
<1>6. ASSUME NEW r \in Requests, Execute(r) PROVE CInv' /\ KeepsOutcomes
  BY <1>1, <1>6, ExecuteKeeps DEF Execute, db
<1>7. ASSUME NEW r \in Requests, MarkFailed(r) PROVE CInv' /\ KeepsOutcomes
  BY <1>7, MarkFailedKeeps
<1>8. ASSUME NEW r \in Requests, LoseConnection(r) PROVE CInv' /\ KeepsOutcomes
  BY <1>1, <1>8, LoseConnectionKeeps DEF LoseConnection, db
<1>9. ASSUME NEW r \in Requests, MarkLost(r) PROVE CInv' /\ KeepsOutcomes
  BY <1>1, <1>9, MarkLostKeeps DEF MarkLost, db
<1>10. ASSUME NEW r \in Requests, Crash(r) PROVE CInv' /\ KeepsOutcomes
  BY <1>1, <1>10, CrashKeeps DEF Crash, db
<1>11. CASE Commit
  BY <1>11, CommitKeeps
<1>12. CASE Abort
  BY <1>1, <1>12, AbortKeeps DEF Abort, db
<1>13. CASE Archive
  BY <1>1, <1>13, ArchiveKeeps DEF Archive
<1>14. CASE UNCHANGED vars
  <2>1. UNCHANGED <<db, tx, pc, req, answer>>
    BY <1>14 DEF vars, db
  <2>2. KeepsOutcomes /\ Correct(pset)' /\ LogOK' /\ TxOK'
    BY <2>1, DbStays
  <2>3. TypeOK'
    BY <2>1 DEF CInv, TypeOK, db
  <2>4. \A r \in Requests : SlotOK(r)'
    BY <2>1, <2>2, SlotStays DEF db
  <2> QED BY <2>2, <2>3, <2>4 DEF CInv
<1> QED
  BY <1>2, <1>3, <1>4, <1>5, <1>6, <1>7, <1>8, <1>9, <1>10, <1>11, <1>12, <1>13, <1>14
     DEF Next, Step

\* Exactly once, for any number of keys and requests: under lost replies,
\* crashes, retries and mark_failed racing an orphaned COMMIT, the audit log
\* holds the change of a key that succeeded once, and of no other key.
THEOREM AppliedExactlyOnce == Spec => []SucceededIffApplied
<1>1. CInv => SucceededIffApplied
  <2> SUFFICES ASSUME CInv, NEW k \in Keys
               PROVE  Cardinality({i \in DOMAIN audit : audit[i].key = k})
                          = IF idem[k].status = "succeeded" THEN 1 ELSE 0
    BY DEF SucceededIffApplied
  <2> DEFINE I == {i \in DOMAIN audit : audit[i].key = k}
  <2>1. CASE idem[k].status = "succeeded"
    <3>1. PICK i \in DOMAIN audit : audit[i].key = k
      BY <2>1 DEF CInv, LogOK, AuditedOnce
    <3>2. I = {i}
      BY <3>1 DEF CInv, LogOK, AuditedOnce
    <3> QED BY <2>1, <3>2, FS_Singleton
  <2>2. CASE idem[k].status # "succeeded"
    <3>1. I = {}
      BY <2>2 DEF CInv, LogOK, AuditedOnce
    <3> QED BY <2>2, <3>1, FS_EmptySet
  <2> QED BY <2>1, <2>2
<1> QED BY <1>1, CommandsInit, CommandsNext, PTL DEF Spec

\* The versions in the audit log are 1, 2, 3, ... and every change was asked for
\* against the version just before it.
THEOREM NoUpdateIsLost == Spec => []NoLostUpdate
<1>1. CInv => NoLostUpdate
  BY DEF CInv, LogOK
<1> QED BY <1>1, CommandsInit, CommandsNext, PTL DEF Spec

\* Nothing an open transaction has read goes stale before it commits.
THEOREM TransactionStaysFresh == Spec => []TransactionIsFresh
<1>1. CInv => TransactionIsFresh
  BY DEF CInv, TxOK
<1> QED BY <1>1, CommandsInit, CommandsNext, PTL DEF Spec

\* A client told of a success has it on record with its own command, for good.
THEOREM SuccessIsTrue == Spec => []OkMeansApplied
<1>1. CInv => OkMeansApplied
  BY DEF CInv, SlotOK, Told, SameRequest, OkMeansApplied
<1> QED BY <1>1, CommandsInit, CommandsNext, PTL DEF Spec

\* Neither a retry nor a late mark_failed changes an outcome or the command
\* recorded under a key.
THEOREM OutcomesAreFinal == Spec => OutcomeIsFinal
<1>1. CInv /\ [Next]_vars
          => [\A k \in Keys :
                 idem[k].status # "none" =>
                     /\ idem'[k].cmd = idem[k].cmd
                     /\ idem[k].status # "pending" => idem'[k] = idem[k]]_vars
  BY CommandsNext DEF KeepsOutcomes
<1> QED BY <1>1, CommandsInit, CommandsNext, PTL DEF Spec, OutcomeIsFinal

\* A case archived without a set stays without one: not even a transaction
\* whose client is long gone creates it.
THEOREM ArchivedStaysEmpty == Spec => ArchivedCaseGetsNoSet
<1>1. CInv /\ [Next]_vars => [archived /\ pset.version = 0 => pset'.version = 0]_vars
  <2> SUFFICES ASSUME CInv, [Next]_vars, archived, pset.version = 0
               PROVE  pset' = pset
    OBVIOUS
  <2>1. ~Commit
    BY DEF Commit, CInv, TxOK, NobodyInitializes
  <2>2. CASE Next
    BY <2>1, <2>2 DEF Next, Step, Send, Reserve, Replay, Open, Execute, MarkFailed,
                      LoseConnection, MarkLost, Crash, Abort, Archive, db
  <2> QED BY <2>2 DEF vars
<1> QED BY <1>1, CommandsInit, CommandsNext, PTL DEF Spec, ArchivedCaseGetsNoSet
-----------------------------------------------------------------------------
(* The refinement.                                                          *)

LEMMA PromiseRefusalAgrees ==
    ASSUME NEW c, NEW s PROVE Promise!Refusal(c, s) = Refusal(c, s)
<1>1. \A S : Promise!Cardinality(S) = Cardinality(S)
  BY DEF Promise!Cardinality, Cardinality
<1> QED
  BY <1>1 DEF Promise!Refusal, Refusal, Promise!Admissible, Admissible, Promise!MayJoin, MayJoin,
              Promise!MayFocus, MayFocus, Promise!Members, Members, Promise!Range, Range

LEMMA PromiseAppliedAgrees ==
    ASSUME NEW c, NEW s PROVE Promise!Applied(c, s) = Applied(c, s)
BY DEF Promise!Applied, Applied, Promise!Changed, Changed, Promise!Initialized, Initialized,
       Promise!Added, Added, Promise!Reviewed, Reviewed, Promise!Focused, Focused,
       Promise!Rearranged, Rearranged, Promise!MarkedReviewed, MarkedReviewed,
       Promise!LastPosition, LastPosition, Promise!Max, Max, Promise!Reordered, Reordered,
       Promise!PlaceOf, PlaceOf, Promise!Members, Members

PromisedFate == [k \in Keys |-> Fate(k)]

\* Only a change of its record changes the fate of a key.
LEMMA SameRecordsSameFate == UNCHANGED idem => UNCHANGED PromisedFate
BY DEF PromisedFate, Fate

LEMMA CommitApplies ==
    ASSUME CInv, Commit PROVE \E k \in Keys : Promise!Apply(k)
<1> DEFINE k == tx.key
           c == idem[k].cmd
<1>1. /\ tx # NoTx /\ k \in Keys /\ idem \in [Keys -> Records]
      /\ idem[k].status = "pending" /\ Refusal(c, pset) = "none"
      /\ tx.set = Applied(c, pset)
  BY DEF Commit, CInv, TypeOK, Transactions, TxOK, TransactionIsFresh
<1>2. c \in Commands
  BY <1>1 DEF Records, NoRecord
<1>3. pset' = Applied(c, pset) /\ idem' = [idem EXCEPT ![k].status = "succeeded"]
  BY <1>1 DEF Commit
<1>4. idem'[k].status = "succeeded" /\ \A x \in Keys \ {k} : idem'[x] = idem[x]
  <2>1. [idem[k] EXCEPT !.status = "succeeded"].status = "succeeded"
    BY <1>1 DEF Records, NoRecord
  <2> QED BY <1>1, <1>3, <2>1
<1> HIDE DEF k
<1>5. PromisedFate[k] = "open" /\ PromisedFate' = [PromisedFate EXCEPT ![k] = "applied"]
  <2>1. PromisedFate[k] = "open"
    BY <1>1 DEF PromisedFate, Fate
  <2>2. \A x \in Keys : PromisedFate'[x] = IF x = k THEN "applied" ELSE PromisedFate[x]
    BY <1>1, <1>4 DEF PromisedFate, Fate
  <2>3. PromisedFate' = [x \in Keys |-> PromisedFate'[x]]
        /\ PromisedFate = [x \in Keys |-> PromisedFate[x]]
    BY DEF PromisedFate
  <2> QED BY <1>1, <2>1, <2>2, <2>3
<1> HIDE DEF c
<1>6. Promise!Apply(k)
  BY <1>1, <1>2, <1>3, <1>5, PromiseRefusalAgrees, PromiseAppliedAgrees
     DEF Promise!Apply, PromisedFate
<1> QED BY <1>1, <1>6

LEMMA MarkFailedRefuses ==
    ASSUME CInv, NEW r \in Requests, MarkFailed(r), Record(r).status = "pending"
    PROVE  \E k \in Keys : Promise!Refuse(k)
<1> DEFINE k == req[r].key
<1>1. k \in Keys /\ idem \in [Keys -> Records] /\ idem[k].status = "pending"
  BY DEF MarkFailed, CInv, TypeOK, SlotOK, Typed, Record
<1>2. UNCHANGED pset /\ idem' = [idem EXCEPT ![k] = Failed(r)]
  BY DEF MarkFailed
<1>3. Failed(r).status = "failed"
  BY <1>1 DEF Failed, Record, Records, NoRecord
<1> HIDE DEF k
<1>4. PromisedFate[k] = "open" /\ PromisedFate' = [PromisedFate EXCEPT ![k] = "refused"]
  <2>1. PromisedFate[k] = "open"
    BY <1>1 DEF PromisedFate, Fate
  <2>2. \A x \in Keys : PromisedFate'[x] = IF x = k THEN "refused" ELSE PromisedFate[x]
    BY <1>1, <1>2, <1>3 DEF PromisedFate, Fate
  <2>3. PromisedFate' = [x \in Keys |-> PromisedFate'[x]]
        /\ PromisedFate = [x \in Keys |-> PromisedFate[x]]
    BY DEF PromisedFate
  <2> QED BY <1>1, <2>1, <2>2, <2>3
<1>5. Promise!Refuse(k)
  BY <1>1, <1>2, <1>4 DEF Promise!Refuse, PromisedFate
<1> QED BY <1>1, <1>5

\* Reserving a key leaves its fate open.
LEMMA ReserveStutters ==
    ASSUME CInv, NEW r \in Requests, Reserve(r) PROVE UNCHANGED <<pset, PromisedFate>>
<1>1. req[r].key \in Keys /\ idem \in [Keys -> Records]
  BY DEF Reserve, CInv, TypeOK, SlotOK, Typed
<1>2. UNCHANGED pset
  BY DEF Reserve
<1>3. CASE UNCHANGED idem
  BY <1>2, <1>3, SameRecordsSameFate
<1>4. CASE /\ Record(r) = NoRecord
           /\ idem' = [idem EXCEPT ![req[r].key] =
                          [status |-> "pending", cmd |-> req[r].cmd, error |-> "none"]]
  <2>1. idem[req[r].key].status = "none" /\ idem'[req[r].key].status = "pending"
    BY <1>1, <1>4 DEF Record, NoRecord
  <2>2. \A x \in Keys \ {req[r].key} : idem'[x] = idem[x]
    BY <1>1, <1>4
  <2>3. \A x \in Keys : Fate(x)' = Fate(x)
    BY <1>1, <2>1, <2>2 DEF Fate
  <2> QED BY <1>2, <2>3 DEF PromisedFate
<1> QED BY <1>3, <1>4 DEF Reserve

\* The service, the repository and the database keep the promise of ParcelSet:
\* COMMIT is its Apply, mark_failed on a pending record its Refuse, and every
\* other step, the crashes and the lost replies included, changes neither the
\* set nor a fate.
THEOREM KeepsThePromise == Spec => KeepsPromise
<1>1. Init => Promise!Init
  <2> SUFFICES ASSUME Init PROVE Promise!Init
    OBVIOUS
  <2>1. pset = Promise!NoSet
    BY DEF Init, Promise!NoSet, NoSet
  <2>2. PromisedFate = [k \in Keys |-> "open"]
    BY DEF Init, PromisedFate, Fate, NoRecord
  <2> QED BY <2>1, <2>2 DEF Promise!Init, PromisedFate
<1>2. CInv /\ [Next]_vars => [Promise!Next]_Promise!vars
  <2> SUFFICES ASSUME CInv, [Next]_vars
               PROVE  Promise!Next \/ UNCHANGED <<pset, PromisedFate>>
    BY DEF Promise!vars, PromisedFate
  <2>1. CASE Commit
    BY <2>1, CommitApplies DEF Promise!Next
  <2>2. ASSUME NEW r \in Requests, MarkFailed(r)
        PROVE  Promise!Next \/ UNCHANGED <<pset, PromisedFate>>
    <3>1. CASE Record(r).status = "pending"
      BY <2>2, <3>1, MarkFailedRefuses DEF Promise!Next
    <3>2. CASE Record(r).status # "pending"
      <4>1. idem' = idem /\ pset' = pset
        BY <2>2, <3>2 DEF MarkFailed, Failed, Record, CInv, TypeOK
      <4> QED BY <4>1, SameRecordsSameFate
    <3> QED BY <3>1, <3>2
  <2>3. ASSUME NEW r \in Requests, Reserve(r)
        PROVE  Promise!Next \/ UNCHANGED <<pset, PromisedFate>>
    BY <2>3, ReserveStutters
  <2>4. ASSUME UNCHANGED <<pset, idem>>
        PROVE  Promise!Next \/ UNCHANGED <<pset, PromisedFate>>
    BY <2>4, SameRecordsSameFate
  <2> QED
    BY <2>1, <2>2, <2>3, <2>4
       DEF Next, Step, Send, Replay, Open, Execute, LoseConnection, MarkLost, Crash,
           Abort, Archive, db, vars
<1> QED BY <1>1, <1>2, CommandsInit, CommandsNext, PTL
        DEF Spec, KeepsPromise, Promise!Spec

\* What ParcelSet promises of the set therefore holds of the committed set under
\* the service, whatever races, breaks or dies.
THEOREM CommittedSetIsCorrect ==
    Spec => [](SetTypeOK /\ ReviewedIsComplete /\ PositionsAreDense /\ ActiveIsMember)
<1>1. CInv => SetTypeOK /\ ReviewedIsComplete /\ PositionsAreDense /\ ActiveIsMember
  BY DEF CInv, TypeOK, Correct, SetTypeOK, ReviewedIsComplete, PositionsAreDense,
         ActiveIsMember
<1> QED BY <1>1, CommandsInit, CommandsNext, PTL DEF Spec
=============================================================================
