-------------------------- MODULE SavedCasesProofs --------------------------
(***************************************************************************)
(* The personal cases of a user implement CaseLog, and a command that was   *)
(* committed is replayed until its receipt expires.                         *)
(*                                                                         *)
(* The argument: one transaction at a time writes, and while it is open      *)
(* nothing it has read changes but the clock; so what it found legal is      *)
(* legal when it commits, and what it prunes had expired.                   *)
(***************************************************************************)
EXTENDS SavedCases, SequenceTheorems, TLAPS

Case == [import : ImportKeys, digest : Digests, revision : Nat \ {0}, deleted : BOOLEAN]

Writing == {"committing", "orphaned"}

States == Writing \cup {"idle", "waiting", "answered"}

Typed ==
    /\ now \in Nat
    /\ cases \in Seq(Case)
    /\ pc \in [Requests -> States]
    /\ DOMAIN req = Requests /\ DOMAIN tx = Requests /\ DOMAIN answer = Requests
    /\ \A r \in Requests : pc[r] \in Writing \cup {"waiting"} => req[r] \in Submissions
    /\ \A r \in Requests : tx[r] # NoTx <=> pc[r] \in Writing

OneWriter == \A r, q \in Requests : tx[r] # NoTx /\ tx[q] # NoTx => r = q

\* The command may be carried out on the cases as they are.
Legal(s) ==
    /\ s.session \notin revoked
    /\ s.cmd.op \in Edits \cup {"delete"} =>
          /\ s.cmd.on \in DOMAIN cases /\ ~cases[s.cmd.on].deleted
          /\ cases[s.cmd.on].revision = s.cmd.expected

StillLegal == \A r \in Requests : tx[r] # NoTx => Legal(req[r])

\* A receipt of cases like these.
Fitting(x, cs) ==
    /\ x.expires \in Nat /\ x.revision \in Nat
    /\ x.case \in DOMAIN cs /\ x.revision =< cs[x.case].revision
    /\ x.scope.op \in Edits => x.case = x.scope.case

OneReceipt == \A x, y \in receipts : x.scope = y.scope => x = y

ReceiptsFit == \A x \in receipts : Fitting(x, cases)

LiveAreKept == \A m \in made : m.expires \in Nat /\ (m.expires > now => m \in receipts)

NewFits ==
    \A r \in Requests : tx[r] # NoTx =>
        /\ \A x \in tx[r].pruned : x.expires \in Nat /\ x.expires =< now
        /\ \A x, y \in tx[r].new : x = y
        /\ \A x \in tx[r].new :
              /\ Fitting(x, After(req[r]))
              /\ \A y \in receipts \ tx[r].pruned : y.scope # x.scope

Inv == /\ Typed /\ OneWriter /\ StillLegal
       /\ OneReceipt /\ ReceiptsFit /\ LiveAreKept /\ NewFits

-----------------------------------------------------------------------------
LEMMA InitHolds == Init => Inv
<1>. SUFFICES ASSUME Init PROVE Inv
  OBVIOUS
<1>1. Typed
  BY DEF Init, Log!Init, Typed, States, Writing
<1>. QED
  BY <1>1 DEF Init, Inv, OneWriter, StillLegal, OneReceipt, ReceiptsFit, LiveAreKept, NewFits

\* Cases that only grow: none is lost and none goes back.
Grows(cs, new) ==
    /\ new \in Seq(Case)
    /\ DOMAIN cs \subseteq DOMAIN new
    /\ \A c \in DOMAIN cs : cs[c].revision =< new[c].revision

LEMMA AppendGrows ==
  ASSUME NEW cs \in Seq(Case), NEW e \in Case
  PROVE  Grows(cs, Append(cs, e))
<1>1. /\ Append(cs, e) \in Seq(Case) /\ DOMAIN cs \subseteq DOMAIN Append(cs, e)
      /\ \A c \in DOMAIN cs : Append(cs, e)[c] = cs[c]
  BY AppendProperties
<1>2. \A c \in DOMAIN cs : cs[c] \in Case
  OBVIOUS
<1>. QED
  BY <1>1, <1>2 DEF Grows, Case

LEMMA ReplaceGrows ==
  ASSUME NEW cs \in Seq(Case), NEW i \in DOMAIN cs, NEW e \in Case, cs[i].revision =< e.revision
  PROVE  Grows(cs, [cs EXCEPT ![i] = e])
<1>1. [cs EXCEPT ![i] = e] \in Seq(Case)
  BY ExceptSeq
<1>2. \A c \in DOMAIN cs : cs[c] \in Case
  OBVIOUS
<1>3. \A c \in DOMAIN cs : [cs EXCEPT ![i] = e][c] = IF c = i THEN e ELSE cs[c]
  OBVIOUS
<1>4. DOMAIN [cs EXCEPT ![i] = e] = DOMAIN cs
  OBVIOUS
<1>. QED
  BY <1>1, <1>2, <1>3, <1>4 DEF Grows, Case

LEMMA NextRevisions ==
  ASSUME NEW e \in Case
  PROVE  /\ [e EXCEPT !.revision = @ + 1] \in Case
         /\ e.revision =< [e EXCEPT !.revision = @ + 1].revision
         /\ [e EXCEPT !.revision = @ + 1, !.deleted = TRUE] \in Case
         /\ e.revision =< [e EXCEPT !.revision = @ + 1, !.deleted = TRUE].revision
<1>1. e.revision + 1 \in Nat \ {0} /\ e.revision =< e.revision + 1
  BY DEF Case
<1>2. [e EXCEPT !.revision = @ + 1].revision = e.revision + 1
  BY DEF Case
<1>3. [e EXCEPT !.revision = @ + 1, !.deleted = TRUE].revision = e.revision + 1
  BY DEF Case
<1>4. [e EXCEPT !.revision = @ + 1] \in Case
  BY <1>1 DEF Case
<1>5. [e EXCEPT !.revision = @ + 1, !.deleted = TRUE] \in Case
  BY <1>1 DEF Case
<1>. QED
  BY <1>1, <1>2, <1>3, <1>4, <1>5

\* What a legal command makes of the cases.
LEMMA AfterGrows ==
  ASSUME cases \in Seq(Case), NEW s \in Submissions, Legal(s)
  PROVE  Grows(cases, After(s))
<1>0. \A d \in DOMAIN cases : cases[d] \in Case
  OBVIOUS
<1>1. CASE s.cmd.op = "create" /\ Changes(s)
  <2>1. Log!New(s.cmd.on, s.cmd.body) \in Case
    BY <1>1, SavedCasesAssumption DEF Log!New, Case
  <2>. QED
    BY <1>1, <2>1, AppendGrows DEF After, Edits
<1>2. CASE s.cmd.op \in Edits
  <2>1. s.cmd.on \in DOMAIN cases /\ cases[s.cmd.on] \in Case
    BY <1>0, <1>2 DEF Legal
  <2>. DEFINE new == [cases[s.cmd.on] EXCEPT !.revision = @ + 1]
  <2>2. After(s) = [cases EXCEPT ![s.cmd.on] = new]
    BY <1>2 DEF After, Edits
  <2>3. /\ new \in Case
        /\ cases[s.cmd.on].revision =< new.revision
    BY <2>1, NextRevisions
  <2>. HIDE DEF new
  <2>. QED
    <3>1. cases \in Seq(Case)
      BY <1>0
    <3>2. Grows(cases, [cases EXCEPT ![s.cmd.on] = new])
      BY <2>1, <2>3, <3>1, ReplaceGrows
    <3>. QED
      BY <2>2, <3>2
<1>3. CASE s.cmd.op = "delete"
  <2>1. s.cmd.on \in DOMAIN cases /\ cases[s.cmd.on] \in Case
    BY <1>0, <1>3 DEF Legal
  <2>. DEFINE new == [cases[s.cmd.on] EXCEPT !.revision = @ + 1, !.deleted = TRUE]
  <2>2. After(s) = [cases EXCEPT ![s.cmd.on] = new]
    BY <1>3, <2>1 DEF After, Edits, Case
  <2>3. /\ new \in Case
        /\ cases[s.cmd.on].revision =< new.revision
    BY <2>1, NextRevisions
  <2>. HIDE DEF new
  <2>. QED
    <3>1. cases \in Seq(Case)
      BY <1>0
    <3>2. Grows(cases, [cases EXCEPT ![s.cmd.on] = new])
      BY <2>1, <2>3, <3>1, ReplaceGrows
    <3>. QED
      BY <2>2, <3>2
<1>4. CASE /\ ~(s.cmd.op = "create" /\ Changes(s)) /\ s.cmd.op \notin Edits
           /\ s.cmd.op # "delete"
  <2>1. After(s) = cases
    BY <1>4 DEF After
  <2>. QED
    BY <1>0, <2>1 DEF Grows, Case
<1>. QED
  BY <1>1, <1>2, <1>3, <1>4

-----------------------------------------------------------------------------
\* A request that moves without writing.
LEMMA MoveKeeps ==
  ASSUME Inv, NEW r \in Requests, UNCHANGED <<now, db, tx>>, tx[r] = NoTx,
         pc' = [pc EXCEPT ![r] = pc'[r]], pc'[r] \in States \ Writing,
         DOMAIN req' = Requests, DOMAIN answer' = Requests,
         \A q \in Requests \ {r} : req'[q] = req[q],
         pc'[r] = "waiting" => req'[r] \in Submissions
  PROVE  Inv'
<1>. USE DEF Inv, db
<1>0. \A q \in Requests \ {r} : pc'[q] = pc[q]
  BY DEF Typed
<1>1. Typed'
  <2>1. pc' \in [Requests -> States]
    BY DEF Typed
  <2>2. \A q \in Requests : pc'[q] \in Writing \cup {"waiting"} => req'[q] \in Submissions
    BY <1>0 DEF Typed
  <2>3. \A q \in Requests : tx'[q] # NoTx <=> pc'[q] \in Writing
    BY <1>0 DEF Typed
  <2>. QED
    BY <2>1, <2>2, <2>3 DEF Typed
<1>2. OneWriter'
  BY DEF OneWriter
<1>3. StillLegal'
  BY DEF StillLegal, Legal
<1>4. OneReceipt' /\ ReceiptsFit' /\ LiveAreKept'
  BY DEF OneReceipt, ReceiptsFit, LiveAreKept, Fitting
<1>5. NewFits'
  <2>. SUFFICES ASSUME NEW q \in Requests, tx[q] # NoTx
                PROVE  /\ req'[q] = req[q] /\ After(req[q])' = After(req[q])
    BY DEF NewFits
  <2>1. req'[q] = req[q]
    OBVIOUS
  <2>. QED
    BY <2>1 DEF After, Changes, ImportedAs
<1>. QED
  BY <1>1, <1>2, <1>3, <1>4, <1>5

LEMMA AnswerKeeps ==
  ASSUME Inv, NEW r \in Requests, pc[r] = "waiting", UNCHANGED <<now, db, tx>>,
         NEW a, Answer(r, a) \/ Forget(r)
  PROVE  Inv'
<1>1. tx[r] = NoTx
  BY DEF Inv, Typed, Writing
<1>2. pc' = [pc EXCEPT ![r] = pc'[r]] /\ pc'[r] \in {"answered", "idle"}
  BY DEF Answer, Forget, Inv, Typed
<1>3. /\ DOMAIN req' = Requests /\ DOMAIN answer' = Requests
      /\ \A q \in Requests \ {r} : req'[q] = req[q]
  BY DEF Answer, Forget, Inv, Typed
<1>. QED
  BY <1>1, <1>2, <1>3, MoveKeeps DEF States, Writing

LEMMA SendKeeps ==
  ASSUME Inv, NEW r \in Requests, Send(r)
  PROVE  Inv'
<1>1. tx[r] = NoTx
  BY DEF Inv, Typed, Send, Writing
<1>2. pc' = [pc EXCEPT ![r] = pc'[r]] /\ pc'[r] = "waiting"
  BY DEF Send, Inv, Typed
<1>3. /\ DOMAIN req' = Requests /\ DOMAIN answer' = Requests /\ req'[r] \in Submissions
      /\ \A q \in Requests \ {r} : req'[q] = req[q]
  BY DEF Send, Inv, Typed
<1>. QED
  BY <1>1, <1>2, <1>3, MoveKeeps DEF States, Writing, Send

\* What the checks of a transaction find out.
LEMMA ChecksMakeLegal ==
  ASSUME NEW r \in Requests, req[r] \in Submissions, Refusal(r) = "none", Found(r) = {}
  PROVE  Legal(req[r])
<1>1. req[r].session \notin revoked /\ ~Missing(r) /\ ~Stale(r)
  <2>1. req[r].session \notin revoked
    BY DEF Refusal
  <2>2. ~Missing(r)
    BY <2>1 DEF Refusal
  <2>3. ~Differs(r)
    BY <2>1, <2>2 DEF Refusal
  <2>4. ~Stale(r)
    BY <2>1, <2>2, <2>3 DEF Refusal
  <2>. QED
    BY <2>1, <2>2, <2>4
<1>. QED
  BY <1>1 DEF Legal, Missing, Stale, Target, Cmd, Edits

\* The receipt is one of the case the command leaves behind.
LEMMA ReceiptFits ==
  ASSUME Inv, NEW r \in Requests, req[r] \in Submissions, Legal(req[r]),
         Found(r) = {}, Cmd(r).op \in Keyed
  PROVE  Fitting(Receipt(r), After(req[r]))
<1>1. Grows(cases, After(req[r]))
  BY AfterGrows DEF Inv, Typed
<1>2. CaseOf(r) \in DOMAIN After(req[r])
  <2>1. CASE Cmd(r).op # "create"
    BY <1>1, <2>1 DEF CaseOf, Cmd, Legal, Keyed, Edits, Grows
  <2>2. CASE Cmd(r).op = "create" /\ Target(r) = {}
    <3>1. Changes(req[r])
      BY <2>2 DEF Target, Changes, Cmd
    <3>2. After(req[r]) = Append(cases, Log!New(Cmd(r).on, Cmd(r).body))
      BY <2>2, <3>1 DEF After, Cmd, Edits
    <3>3. Len(cases) + 1 \in DOMAIN After(req[r])
      BY <3>2 DEF Inv, Typed
    <3>. QED
      BY <2>2, <3>3 DEF CaseOf
  <2>3. CASE Cmd(r).op = "create" /\ Target(r) # {}
    <3>1. Target(r) \subseteq DOMAIN cases
      BY <2>3 DEF Target, ImportedAs
    <3>2. CaseOf(r) \in Target(r)
      BY <2>3 DEF CaseOf
    <3>. QED
      BY <1>1, <3>1, <3>2 DEF Grows
  <2>. QED
    BY <2>1, <2>2, <2>3
<1>3. After(req[r])[CaseOf(r)].revision \in Nat
  <2>1. After(req[r])[CaseOf(r)] \in Case
    BY <1>1, <1>2 DEF Grows
  <2>. QED
    BY <2>1 DEF Case
<1>4. now + Window \in Nat
  BY SavedCasesAssumption DEF Inv, Typed
<1>5. Scope(req[r]).op \in Edits => CaseOf(r) = Scope(req[r]).case
  BY DEF Scope, CaseOf, Cmd, Edits
<1>6. /\ Receipt(r).expires = now + Window /\ Receipt(r).case = CaseOf(r)
      /\ Receipt(r).revision = After(req[r])[CaseOf(r)].revision
      /\ Receipt(r).scope = Scope(req[r])
  BY DEF Receipt
<1>. QED
  BY <1>2, <1>3, <1>4, <1>5, <1>6 DEF Fitting

-----------------------------------------------------------------------------
LEMMA OpenKeeps ==
  ASSUME Inv, NEW r \in Requests, Ready(r), Refusal(r) = "none", Found(r) = {},
         NEW p \in SUBSET receipts, \A x \in p : x.expires =< now,
         NEW new, Open(r, p, new), UNCHANGED <<now, db>>,
         \/ new = {}
         \/ new = {Receipt(r)} /\ Cmd(r).op \in Keyed /\ Fits(r, receipts \ p)
  PROVE  Inv'
<1>. USE DEF Inv, db
<1>0. /\ \A q \in Requests : tx[q] = NoTx
      /\ req[r] \in Submissions
      /\ pc' = [pc EXCEPT ![r] = "committing"] /\ req' = req
      /\ tx'[r] = [open |-> TRUE, pruned |-> p, new |-> new]
      /\ \A q \in Requests \ {r} : tx'[q] = NoTx
  BY DEF Ready, LockFree, Typed, Open
<1>1. tx'[r] # NoTx /\ tx'[r].pruned = p /\ tx'[r].new = new
  <2>1. tx'[r].open # NoTx.open
    <3>1. tx'[r].open
      BY <1>0
    <3>2. ~NoTx.open
      BY DEF NoTx
    <3>. QED
      BY <3>1, <3>2
  <2>2. tx'[r].pruned = p /\ tx'[r].new = new
    BY <1>0
  <2>. QED
    BY <2>1, <2>2
<1>2. Legal(req[r])
  BY <1>0, ChecksMakeLegal
<1>3. Typed'
  <2>1. pc' \in [Requests -> States]
    BY <1>0 DEF Typed, States, Writing
  <2>2. DOMAIN tx' = Requests /\ DOMAIN answer' = Requests
    BY DEF Typed, Open
  <2>3. \A q \in Requests : tx'[q] # NoTx <=> pc'[q] \in Writing
    BY <1>0, <1>1 DEF Typed, Writing
  <2>4. \A q \in Requests : pc'[q] \in Writing \cup {"waiting"} => req'[q] \in Submissions
    BY <1>0 DEF Typed
  <2>. QED
    BY <1>0, <2>1, <2>2, <2>3, <2>4 DEF Typed
<1>4. OneWriter'
  BY <1>0 DEF OneWriter
<1>5. StillLegal'
  BY <1>0, <1>2 DEF StillLegal, Legal
<1>6. OneReceipt' /\ ReceiptsFit' /\ LiveAreKept'
  BY DEF OneReceipt, ReceiptsFit, LiveAreKept, Fitting
<1>7. NewFits'
  <2>1. After(req[r])' = After(req[r])
    BY <1>0 DEF After, Changes, ImportedAs
  <2>2. \A x \in p : x.expires \in Nat
    BY DEF ReceiptsFit, Fitting
  <2>3. \A x \in new : Fitting(x, After(req[r]))
    BY <1>0, <1>2, ReceiptFits
  <2>4. \A x \in new : \A y \in receipts \ p : y.scope # x.scope
    <3>1. Receipt(r).scope = Scope(req[r])
      BY DEF Receipt
    <3>. QED
      BY <3>1 DEF Fits
  <2>. QED
    BY <1>0, <1>1, <2>1, <2>2, <2>3, <2>4 DEF NewFits
<1>. QED
  BY <1>3, <1>4, <1>5, <1>6, <1>7

LEMMA WriteKeeps ==
  ASSUME Inv, NEW r \in Requests, Write(r)
  PROVE  Inv'
<1>1. pc[r] = "waiting" /\ Ready(r) /\ Refusal(r) = "none" /\ Found(r) = {}
  BY DEF Write, Ready
<1>2. CASE Cmd(r).op \in Keyed
  <2>1. PICK p \in Prunings :
            IF Fits(r, receipts \ p) THEN Open(r, p, {Receipt(r)})
            ELSE Answer(r, "maintenance") /\ UNCHANGED tx
    BY <1>2 DEF Write
  <2>2. p \in SUBSET receipts /\ \A x \in p : x.expires =< now
    BY DEF Prunings, Expired
  <2>3. CASE Fits(r, receipts \ p)
    BY <1>1, <1>2, <2>1, <2>2, <2>3, OpenKeeps DEF Write
  <2>4. CASE ~Fits(r, receipts \ p)
    BY <1>1, <2>1, <2>4, AnswerKeeps DEF Write
  <2>. QED
    BY <2>3, <2>4
<1>3. CASE Cmd(r).op \notin Keyed
  <2>1. Open(r, {}, {}) /\ UNCHANGED <<now, db>>
    BY <1>3 DEF Write
  <2>. QED
    BY <1>1, <2>1, OpenKeeps
<1>. QED
  BY <1>2, <1>3

\* A request whose transaction is over.
LEMMA ClosedTyped ==
  ASSUME Inv, NEW r \in Requests, tx' = [tx EXCEPT ![r] = NoTx],
         NEW a, Answer(r, a) \/ Forget(r), now' = now, cases' \in Seq(Case)
  PROVE  /\ Typed' /\ OneWriter'
         /\ tx'[r] = NoTx /\ \A q \in Requests \ {r} : tx'[q] = tx[q] /\ req'[q] = req[q]
<1>. USE DEF Inv
<1>1. /\ pc' \in [Requests -> States] /\ pc'[r] \in {"idle", "answered"}
      /\ \A q \in Requests \ {r} : pc'[q] = pc[q] /\ req'[q] = req[q]
      /\ DOMAIN req' = Requests /\ DOMAIN tx' = Requests /\ DOMAIN answer' = Requests
  BY DEF Typed, Answer, Forget, States
<1>2. tx'[r] = NoTx /\ \A q \in Requests \ {r} : tx'[q] = tx[q]
  BY DEF Typed
<1>3. \A q \in Requests : tx'[q] # NoTx <=> pc'[q] \in Writing
  BY <1>1, <1>2 DEF Typed, Writing
<1>4. \A q \in Requests : pc'[q] \in Writing \cup {"waiting"} => req'[q] \in Submissions
  BY <1>1 DEF Typed, Writing
<1>5. Typed'
  BY <1>1, <1>3, <1>4 DEF Typed
<1>6. OneWriter'
  BY <1>2 DEF OneWriter
<1>. QED
  BY <1>1, <1>2, <1>5, <1>6

LEMMA AbortKeeps ==
  ASSUME Inv, NEW r \in Requests, Abort(r)
  PROVE  Inv'
<1>. USE DEF Abort, db
<1>1. /\ Typed' /\ OneWriter'
      /\ tx'[r] = NoTx /\ \A q \in Requests \ {r} : tx'[q] = tx[q] /\ req'[q] = req[q]
  BY ClosedTyped DEF Inv, Typed
<1>2. \A q \in Requests : tx'[q] = NoTx
  BY <1>1 DEF Inv, OneWriter
<1>3. StillLegal' /\ NewFits'
  BY <1>2 DEF StillLegal, NewFits
<1>4. OneReceipt' /\ ReceiptsFit' /\ LiveAreKept'
  BY DEF Inv, OneReceipt, ReceiptsFit, LiveAreKept, Fitting
<1>. QED
  BY <1>1, <1>3, <1>4 DEF Inv

LEMMA CommitKeeps ==
  ASSUME Inv, NEW r \in Requests, Commit(r)
  PROVE  Inv'
<1>. USE DEF Inv
<1>0. /\ tx[r] # NoTx /\ tx' = [tx EXCEPT ![r] = NoTx] /\ now' = now
      /\ cases' = After(req[r]) /\ made' = made \cup tx[r].new
      /\ receipts' = (receipts \ tx[r].pruned) \cup tx[r].new
  BY DEF Commit
<1>1. Grows(cases, cases')
  <2>1. req[r] \in Submissions /\ Legal(req[r])
    BY <1>0 DEF Typed, StillLegal
  <2>. QED
    BY <1>0, <2>1, AfterGrows DEF Typed
<1>2. /\ Typed' /\ OneWriter'
      /\ tx'[r] = NoTx /\ \A q \in Requests \ {r} : tx'[q] = tx[q]
  <2>1. cases' \in Seq(Case)
    BY <1>1 DEF Grows
  <2>2. PICK a \in {"ok"} : Answer(r, a) \/ Forget(r)
    BY DEF Commit
  <2>. QED
    BY <1>0, <2>1, <2>2, ClosedTyped
<1>3. \A q \in Requests : tx'[q] = NoTx
  BY <1>0, <1>2 DEF OneWriter
<1>4. StillLegal' /\ NewFits'
  BY <1>3 DEF StillLegal, NewFits
<1>5. OneReceipt'
  BY <1>0 DEF OneReceipt, NewFits
<1>6. ReceiptsFit'
  <2>. SUFFICES ASSUME NEW x \in receipts' PROVE Fitting(x, cases')
    BY DEF ReceiptsFit, Fitting
  <2>1. CASE x \in tx[r].new
    BY <1>0, <2>1 DEF NewFits
  <2>2. CASE x \in receipts
    <3>1. Fitting(x, cases)
      BY <2>2 DEF ReceiptsFit
    <3>2. /\ cases[x.case] \in Case /\ cases'[x.case] \in Case
          /\ x.case \in DOMAIN cases' /\ cases[x.case].revision =< cases'[x.case].revision
      BY <1>1, <3>1 DEF Typed, Grows, Fitting
    <3>3. cases[x.case].revision \in Nat /\ cases'[x.case].revision \in Nat
      BY <3>2 DEF Case
    <3>. QED
      BY <3>1, <3>2, <3>3 DEF Fitting
  <2>. QED
    BY <1>0, <2>1, <2>2
<1>7. LiveAreKept'
  <2>0. \A m \in made' : m.expires \in Nat
    BY <1>0 DEF LiveAreKept, NewFits, Fitting
  <2>. SUFFICES ASSUME NEW m \in made', m.expires > now PROVE m \in receipts'
    BY <1>0, <2>0 DEF LiveAreKept
  <2>1. m \notin tx[r].pruned
    BY <1>0 DEF NewFits, Typed
  <2>. QED
    BY <1>0, <2>1 DEF LiveAreKept
<1>. QED
  BY <1>2, <1>4, <1>5, <1>6, <1>7

LEMMA GiveUpKeeps ==
  ASSUME Inv, NEW r \in Requests, GiveUp(r)
  PROVE  Inv'
<1>1. CASE pc[r] = "waiting" /\ Forget(r)
  BY <1>1, AnswerKeeps DEF GiveUp
<1>2. CASE pc[r] = "committing" /\ pc' = [pc EXCEPT ![r] = "orphaned"] /\ UNCHANGED <<req, answer>>
  <2>. USE <1>2 DEF GiveUp, db, Inv
  <2>1. Typed'
    BY DEF Typed, States, Writing
  <2>2. OneWriter' /\ OneReceipt' /\ ReceiptsFit' /\ LiveAreKept' /\ StillLegal'
    BY DEF OneWriter, OneReceipt, ReceiptsFit, LiveAreKept, StillLegal, Legal, Fitting
  <2>3. \A q \in Requests : After(req[q])' = After(req[q])
    BY DEF After, Changes, ImportedAs
  <2>4. NewFits'
    BY <2>3 DEF NewFits
  <2>. QED
    BY <2>1, <2>2, <2>4
<1>. QED
  BY <1>1, <1>2 DEF GiveUp

LEMMA TickKeeps ==
  ASSUME Inv, Tick
  PROVE  Inv'
<1>. USE DEF Tick, db, Inv
<1>1. Typed' /\ OneWriter' /\ OneReceipt' /\ ReceiptsFit' /\ StillLegal'
  BY DEF Typed, OneWriter, OneReceipt, ReceiptsFit, StillLegal, Legal, Fitting
<1>2. LiveAreKept'
  <2>. SUFFICES ASSUME NEW m \in made, m.expires > now + 1 PROVE m \in receipts
    BY DEF LiveAreKept
  <2>1. m.expires > now
    BY DEF LiveAreKept, Typed
  <2>. QED
    BY <2>1 DEF LiveAreKept
<1>3. \A q \in Requests : After(req[q])' = After(req[q])
  BY DEF After, Changes, ImportedAs
<1>4. NewFits'
  BY <1>3 DEF NewFits, Typed
<1>. QED
  BY <1>1, <1>2, <1>4

LEMMA StepKeeps == Inv /\ [Next]_vars => Inv'
<1>. SUFFICES ASSUME Inv, [Next]_vars PROVE Inv'
  OBVIOUS
<1>1. CASE UNCHANGED vars
  <2>. USE <1>1 DEF vars
  <2>1. Typed' /\ OneWriter' /\ OneReceipt' /\ ReceiptsFit' /\ LiveAreKept' /\ StillLegal'
    BY DEF Inv, Typed, OneWriter, OneReceipt, ReceiptsFit, LiveAreKept, StillLegal, Legal, Fitting
  <2>2. \A q \in Requests : After(req[q])' = After(req[q])
    BY DEF After, Changes, ImportedAs
  <2>. QED
    BY <2>1, <2>2 DEF Inv, NewFits
<1>2. ASSUME NEW r \in Requests, Refuse(r) PROVE Inv'
  <2>1. PICK a \in {Refusal(r), IF Behind(r) THEN "maintenance" ELSE "replayed"} : Answer(r, a)
    BY <1>2 DEF Refuse
  <2>. QED
    BY <1>2, <2>1, AnswerKeeps DEF Refuse, Ready
<1>. QED
  BY <1>1, <1>2, SendKeeps, WriteKeeps, CommitKeeps, AbortKeeps, GiveUpKeeps, TickKeeps DEF Next

LEMMA Always == Spec => []Inv
BY InitHolds, StepKeeps, PTL DEF Spec

-----------------------------------------------------------------------------
(* The refinement of CaseLog.                                              *)

LEMMA CommitIsAnAct ==
  ASSUME Inv, NEW r \in Requests, Commit(r)
  PROVE  [Log!Next]_(Log!vars)
<1>. DEFINE s == req[r]
<1>0. /\ s \in Submissions /\ Legal(s)
      /\ cases' = After(s)
      /\ last' = IF Changes(s) THEN Made(s) ELSE last
      /\ revoked' = IF s.cmd.op = "logout" THEN revoked \cup {s.session} ELSE revoked
  BY DEF Inv, Typed, StillLegal, Commit, Cmd
<1>1. s.session \in Sessions \ revoked /\ s.cmd.op \in Ops
  BY <1>0, SavedCasesAssumption DEF Legal
<1>. HIDE DEF s
<1>2. CASE s.cmd.op = "create" /\ Changes(s)
  <2>1. s.cmd.on \in ImportKeys /\ s.cmd.body \in Digests
    BY <1>0, <1>2, SavedCasesAssumption
  <2>2. Log!Import(s.session, s.cmd.on, s.cmd.body)
    BY <1>0, <1>2 DEF Log!Import, Log!Act, After, Changes, ImportedAs, Made, Edits
  <2>. QED
    BY <1>1, <2>1, <2>2 DEF Log!Next
<1>3. CASE s.cmd.op = "create" /\ ~Changes(s)
  BY <1>0, <1>3 DEF After, Edits, Log!vars
<1>4. CASE s.cmd.op \in Edits
  <2>1. s.cmd.on \in DOMAIN cases /\ Log!Edit(s.session, s.cmd.on)
    BY <1>0, <1>4 DEF Log!Edit, Log!Act, After, Changes, Made, Legal, Edits
  <2>. QED
    BY <1>1, <2>1 DEF Log!Next
<1>5. CASE s.cmd.op = "delete"
  <2>1. s.cmd.on \in DOMAIN cases /\ Log!Delete(s.session, s.cmd.on)
    BY <1>0, <1>5 DEF Log!Delete, Log!Act, After, Changes, Made, Legal, Edits
  <2>. QED
    BY <1>1, <2>1 DEF Log!Next
<1>6. CASE s.cmd.op = "logout"
  <2>1. Log!Logout(s.session)
    BY <1>0, <1>6 DEF Log!Logout, Log!Act, After, Changes, Made, Edits
  <2>. QED
    BY <1>1, <2>1 DEF Log!Next
<1>. QED
  BY <1>1, <1>2, <1>3, <1>4, <1>5, <1>6 DEF Ops, Keyed, Edits

LEMMA StepIsAnAct == Inv /\ [Next]_vars => [Log!Next]_(Log!vars)
<1>. SUFFICES ASSUME Inv, [Next]_vars PROVE [Log!Next]_(Log!vars)
  OBVIOUS
<1>1. \/ UNCHANGED db
      \/ \E r \in Requests : Commit(r)
  BY DEF Next, Send, Refuse, Write, Abort, GiveUp, Tick, vars, db
<1>2. UNCHANGED db => UNCHANGED Log!vars
  BY DEF db, Log!vars
<1>. QED
  BY <1>1, <1>2, CommitIsAnAct

\* The cases of a user change by one legal act at a time, whatever requests,
\* commits nobody heard of and logouts run at once.
THEOREM CasesRefineTheLog == Spec => CasesAreSerial
<1>1. Init => Log!Init
  BY DEF Init
<1>2. Spec => Log!Spec
  BY <1>1, StepIsAnAct, Always, PTL DEF Spec, Log!Spec
<1>. QED
  BY <1>2 DEF CasesAreSerial

-----------------------------------------------------------------------------
(* Replay.                                                                 *)

Replays(r, m) ==
    \/ pc'[r] = "idle"
    \/ /\ pc'[r] = "answered"
       /\ \/ answer'[r] = "replayed" /\ m.cmd = Cmd(r)
          \/ answer'[r] = "idempotency_conflict" /\ m.cmd # Cmd(r)
          \/ answer'[r] = "not_found" /\ cases[m.case].deleted
          \/ answer'[r] = "authentication_required" /\ req[r].session \in revoked

\* What a request finds under the key of a live receipt.
LEMMA OneIsFound ==
  ASSUME Inv, NEW r \in Requests, NEW m \in made,
         Cmd(r).op \in Keyed, m.scope = Scope(req[r]), m.expires > now
  PROVE  /\ Found(r) = {m}
         /\ cases[m.case].revision >= m.revision
         /\ Target(r) = {m.case}
<1>1. m \in receipts /\ Fitting(m, cases)
  BY DEF Inv, LiveAreKept, ReceiptsFit
<1>2. Found(r) = {m}
  BY <1>1 DEF Found, Inv, OneReceipt
<1>3. Target(r) = {m.case}
  <2>1. CASE Cmd(r).op = "create"
    BY <1>2, <2>1 DEF Target
  <2>2. CASE Cmd(r).op # "create"
    <3>1. Scope(req[r]).op = Cmd(r).op /\ Scope(req[r]).case = Cmd(r).on
      BY <2>2 DEF Scope, Cmd
    <3>2. m.case = Cmd(r).on /\ m.case \in DOMAIN cases
      BY <1>1, <2>2, <3>1 DEF Fitting, Keyed, Edits
    <3>. QED
      BY <2>2, <3>2 DEF Target
  <2>. QED
    BY <2>1, <2>2
<1>4. cases[m.case].revision >= m.revision
  <2>1. cases[m.case] \in Case /\ m.revision \in Nat /\ m.revision =< cases[m.case].revision
    BY <1>1 DEF Fitting, Inv, Typed
  <2>. QED
    BY <2>1 DEF Case
<1>. QED
  BY <1>2, <1>3, <1>4

LEMMA StepReplays ==
  ASSUME Inv, [Next]_vars, NEW r \in Requests, NEW m \in made,
         pc[r] = "waiting", pc'[r] # "waiting",
         Cmd(r).op \in Keyed, m.scope = Scope(req[r]), m.expires > now
  PROVE  Replays(r, m)
<1>1. Found(r) = {m} /\ cases[m.case].revision >= m.revision /\ Target(r) = {m.case}
  BY OneIsFound
<1>2. tx[r] = NoTx /\ pc \in [Requests -> States] /\ DOMAIN answer = Requests
  BY DEF Inv, Typed, Writing
<1>3. ASSUME NEW q \in Requests \ {r},
             Send(q) \/ Refuse(q) \/ Write(q) \/ Commit(q) \/ Abort(q) \/ GiveUp(q)
      PROVE  FALSE
  BY <1>2, <1>3 DEF Send, Refuse, Write, Open, Commit, Abort, GiveUp, Answer, Forget
<1>4. Refuse(r) \/ GiveUp(r)
  BY <1>1, <1>2, <1>3 DEF Next, vars, Tick, Send, Write, Commit, Abort
<1>5. CASE GiveUp(r)
  BY <1>2, <1>5 DEF GiveUp, Forget, Replays
<1>6. CASE Refuse(r)
  <2>1. PICK a : /\ Answer(r, a)
                 /\ \/ Refusal(r) # "none" /\ a = Refusal(r)
                    \/ Refusal(r) = "none" /\ a = IF Behind(r) THEN "maintenance" ELSE "replayed"
    BY <1>6 DEF Refuse
  <2>2. pc'[r] = "answered" /\ answer'[r] = a
    BY <1>2, <2>1 DEF Answer
  <2>3. ~Behind(r)
    <3>1. m.revision \in Nat /\ cases[m.case] \in Case
      BY DEF Inv, LiveAreKept, ReceiptsFit, Fitting, Typed
    <3>. QED
      BY <1>1, <3>1 DEF Behind, Case
  <2>4. /\ Missing(r) <=> cases[m.case].deleted
        /\ Differs(r) <=> m.cmd # Cmd(r)
        /\ ~Stale(r)
    BY <1>1 DEF Missing, Differs, Stale, Keyed
  <2>5. CASE req[r].session \in revoked
    BY <2>1, <2>2, <2>5 DEF Refusal, Replays
  <2>6. CASE req[r].session \notin revoked /\ Missing(r)
    BY <2>1, <2>2, <2>4, <2>6 DEF Refusal, Replays
  <2>7. CASE req[r].session \notin revoked /\ ~Missing(r) /\ Differs(r)
    BY <2>1, <2>2, <2>4, <2>7 DEF Refusal, Replays
  <2>8. CASE req[r].session \notin revoked /\ ~Missing(r) /\ ~Differs(r)
    BY <2>1, <2>2, <2>3, <2>4, <2>8 DEF Refusal, Replays
  <2>. QED
    BY <2>5, <2>6, <2>7, <2>8
<1>. QED
  BY <1>4, <1>5, <1>6

\* Until its receipt expires a committed command is replayed, or refused as the
\* rights and the case of the moment demand, and never carried out twice.
THEOREM RetriesReplay == Spec => RetryIsReplayed
<1>1. Inv /\ [Next]_vars =>
        \A r \in Requests, m \in made :
          (/\ pc[r] = "waiting" /\ pc'[r] # "waiting"
           /\ Cmd(r).op \in Keyed /\ m.scope = Scope(req[r]) /\ m.expires > now) => Replays(r, m)
  BY StepReplays
<1>. QED
  BY <1>1, Always, PTL DEF Spec, RetryIsReplayed, Replays
=============================================================================
