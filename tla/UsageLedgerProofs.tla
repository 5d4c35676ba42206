------------------------- MODULE UsageLedgerProofs --------------------------
(* An observation is added to the hourly table at most once, and a stopped  *)
(* process whose last flush succeeded has nothing left, and every accepted  *)
(* observation that is nowhere was reported as expired: for every retention *)
(* and clock error that LedgerAssumption admits.                            *)
EXTENDS UsageLedger, FiniteSetTheorems, TLAPS

\* Where one attempt to write a batch may still come from.
Copies == {batch} \cup orphans

ShapeOK ==
    /\ pending \subseteq seen /\ taken \subseteq seen /\ early \subseteq seen
    /\ seen \subseteq Observations
    /\ thread \in {"loop", "drain", "last", "ended"}
    /\ stopping \in BOOLEAN /\ drained \in BOOLEAN
    /\ batch \in Batches /\ writing \in BOOLEAN
    /\ orphans \subseteq Batches
    /\ markers \subseteq [token : Nat, at : Nat]
    /\ hourly \in [Observations -> Nat]
    /\ now \in Nat /\ skew \in -MaxSkew..MaxSkew /\ issued \in Nat

\* An observation is pending, or in the copies of one batch.
OneToken ==
    /\ \A b \in Copies : b.rows \subseteq seen /\ b.rows \cap pending = {}
    /\ \A b, c \in Copies : b.rows \cap c.rows # {} => b.token = c.token

\* The marker of b is there, or b is older than any marker of it could be.
Covered(b) ==
    \/ \E m \in markers : m.token = b.token /\ m.at >= b.at - MaxSkew
    \/ now - b.at > MarkerTTL - MaxSkew

\* A batch is not dated after it was taken, and none is written when too old.
OnTime ==
    /\ \A b \in Copies : b.at <= now + MaxSkew
    /\ \A b \in orphans : now - b.at <= Retention + MaxSkew
    /\ writing => now - batch.at <= Retention + MaxSkew

CountedIsCovered ==
    /\ \A o \in Observations : hourly[o] # 0 => hourly[o] = 1 /\ o \in seen \ pending
    /\ \A b \in Copies : \A o \in b.rows : hourly[o] # 0 => Covered(b)

Inv == ShapeOK /\ OneToken /\ OnTime /\ CountedIsCovered

LEMMA NoBatchIsBatch == NoBatch \in Batches
BY DEF NoBatch, Batches

LEMMA InitInv == Init => Inv
<1> SUFFICES ASSUME Init PROVE Inv
  OBVIOUS
<1>1. Copies = {NoBatch} /\ NoBatch.rows = {} /\ NoBatch.at = 0
  BY DEF Init, Copies, NoBatch
<1>2. ShapeOK
  <2>1. 0 \in -MaxSkew..MaxSkew
    BY LedgerAssumption
  <2> QED BY <2>1, NoBatchIsBatch DEF Init, ShapeOK
<1>3. OneToken
  BY <1>1 DEF OneToken
<1>4. OnTime
  BY <1>1, LedgerAssumption DEF Init, OnTime
<1>5. CountedIsCovered
  BY <1>1 DEF Init, CountedIsCovered
<1> QED BY <1>2, <1>3, <1>4, <1>5 DEF Inv

LEMMA ReturnTypes ==
    ASSUME ShapeOK, NEW ok \in BOOLEAN, Return(ok)
    PROVE  /\ writing' = FALSE
           /\ thread' \in {"loop", "drain", "last", "ended"} /\ drained' \in BOOLEAN
<1>1. writing' = FALSE /\ thread' \in {"loop", "drain", "last", "ended"}
  BY DEF Return, AfterDrain, ShapeOK
<1>2. drained' = (thread' = "ended" /\ ok)
  BY Zenon DEF Return
<1>3. (thread' = "ended" /\ ok) \in BOOLEAN
  OBVIOUS
<1>4. drained' \in BOOLEAN
  BY <1>2, <1>3, Zenon
<1> QED BY <1>1, <1>4

\* Committing a copy that is on time counts nothing twice: had it been counted,
\* its marker would still be there.
LEMMA CommitCountsOnce ==
    ASSUME Inv, NEW b \in Copies, now - b.at <= Retention + MaxSkew, Commit(b),
           UNCHANGED <<now, seen, pending>>
    PROVE  /\ hourly' \in [Observations -> Nat]
           /\ markers' \subseteq [token : Nat, at : Nat]
           /\ \A o \in Observations : hourly'[o] # 0 => hourly'[o] = 1 /\ o \in seen \ pending
           /\ \A c \in Copies : \A o \in c.rows : hourly'[o] # 0 => Covered(c)'
<1> USE DEF Inv
<1>1. b \in Batches /\ b.at <= now + MaxSkew
  BY DEF Copies, ShapeOK, OnTime
<1>2. \A c \in Copies : c \in Batches /\ c.at <= now + MaxSkew
  BY DEF Copies, ShapeOK, OnTime
<1>3. MaxSkew \in Nat /\ MarkerTTL \in Nat /\ Retention \in Nat
      /\ Retention + 2 * MaxSkew <= MarkerTTL /\ now \in Nat
  BY LedgerAssumption DEF ShapeOK
<1>4. b.at \in Int /\ b.token \in Nat /\ b.rows \subseteq Observations
  BY <1>1 DEF Batches
<1>5. ASSUME b.token \notin Tokens, NEW o \in b.rows PROVE hourly[o] = 0
  <2>1. ~Covered(b)
    BY <1>3, <1>4, <1>5 DEF Covered, Tokens
  <2> QED BY <2>1, <1>4, <1>5 DEF CountedIsCovered, ShapeOK
<1>6. hourly' \in [Observations -> Nat]
  BY DEF Commit, ShapeOK
<1>7. markers' \subseteq [token : Nat, at : Nat]
  BY <1>4, <1>3 DEF Commit, ShapeOK
<1>8. \A o \in Observations : hourly'[o] # 0 => hourly'[o] = 1 /\ o \in seen \ pending
  <2> SUFFICES ASSUME NEW o \in Observations, hourly'[o] # 0
               PROVE  hourly'[o] = 1 /\ o \in seen \ pending
    OBVIOUS
  <2>1. CASE o \in b.rows /\ b.token \notin Tokens
    <3>1. hourly'[o] = 1
      BY <2>1, <1>5 DEF Commit, ShapeOK
    <3>2. o \in seen /\ o \notin pending
      BY <2>1 DEF OneToken
    <3> QED BY <3>1, <3>2
  <2>2. CASE ~(o \in b.rows /\ b.token \notin Tokens)
    BY <2>2 DEF Commit, CountedIsCovered
  <2> QED BY <2>1, <2>2
<1>9. ASSUME NEW c \in Copies, Covered(c) PROVE Covered(c)'
  <2>1. CASE now - c.at > MarkerTTL - MaxSkew
    BY <2>1 DEF Covered
  <2>2. ASSUME NEW m \in markers, m.token = c.token, m.at >= c.at - MaxSkew
        PROVE  Covered(c)'
    <3>1. m.at \in Nat /\ c.at \in Int
      BY <1>2 DEF ShapeOK, Batches
    <3>2. CASE Live(m)
      BY <3>2, <2>2 DEF Commit, Covered
    <3>3. CASE ~Live(m)
      <4>1. now - c.at > MarkerTTL - MaxSkew
        BY <3>1, <3>3, <2>2, <1>3 DEF Live
      <4> QED BY <4>1 DEF Covered
    <3> QED BY <3>2, <3>3
  <2> QED BY <1>9, <2>1, <2>2 DEF Covered
<1>10. ASSUME NEW c \in Copies, NEW o \in c.rows, hourly'[o] # 0 PROVE Covered(c)'
  <2>1. o \in Observations
    BY <1>2, <1>10 DEF Batches
  <2>2. CASE hourly[o] # 0
    BY <2>2, <1>9, <1>10 DEF CountedIsCovered
  <2>3. CASE hourly[o] = 0
    <3>1. o \in b.rows /\ b.token \notin Tokens
      BY <2>1, <2>3, <1>10 DEF Commit
    <3>2. c.token = b.token
      BY <3>1, <1>10 DEF OneToken
    <3>3. [token |-> b.token, at |-> now] \in markers'
      <4>1. Live([token |-> b.token, at |-> now])
        BY <1>3 DEF Live
      <4> QED BY <4>1, <3>1 DEF Commit
    <3>4. now >= c.at - MaxSkew
      BY <1>2, <1>3 DEF Batches
    <3> QED BY <3>2, <3>3, <3>4 DEF Covered
  <2> QED BY <2>2, <2>3
<1> QED BY <1>6, <1>7, <1>8, <1>10

LEMMA ObserveKeepsInv ==
    ASSUME Inv, NEW o \in Observations, Observe(o) PROVE Inv'
<1> USE DEF Inv
<1>1. /\ seen' = seen \cup {o} /\ o \notin seen
      /\ pending' \in {pending, pending \cup {o}} /\ taken' \in {taken, taken \cup {o}}
      /\ UNCHANGED <<thread, stopping, drained>>
      /\ UNCHANGED <<batch, writing, hourly, markers, orphans, now, skew, issued, early>>
  BY DEF Observe, flusher, db
<1>2. Copies' = Copies /\ hourly[o] = 0
  BY <1>1 DEF Copies, CountedIsCovered, ShapeOK
<1>3. ShapeOK'
  BY <1>1 DEF ShapeOK
<1>4. OneToken' /\ OnTime'
  BY <1>1, <1>2 DEF OneToken, OnTime
<1>5. CountedIsCovered'
  BY <1>1, <1>2 DEF CountedIsCovered, Covered
<1> QED BY <1>3, <1>4, <1>5

\* A batch is dated by the process's clock when it is taken; a retained one is
\* written only when that clock does not find it too old.
LEMMA FlushKeepsInv == ASSUME Inv, Flush PROVE Inv'
<1> USE DEF Inv
<1> DEFINE b == Current
<1>1. /\ pending' = pending \ b.rows
      /\ batch' \in {b, NoBatch}
      /\ writing' => batch' = b /\ ~TooOld(b)
      /\ writing' \in BOOLEAN /\ issued' = IF b.rows = {} THEN issued ELSE b.token
      /\ thread' \in {"loop", "drain", "last", "ended"} /\ drained' \in BOOLEAN
      /\ UNCHANGED <<stopping, hourly, markers, orphans, now, skew, seen, taken, early>>
  BY DEF Flush, Untaken, Return, AfterDrain, db, history, ShapeOK
<1>2. /\ b \in Batches /\ b.at <= now + MaxSkew
      /\ now - b.at >= 0 - MaxSkew \/ b = batch
      /\ \/ b = batch
         \/ b.rows = pending
  <2>1. CASE batch.rows # {}
    BY <2>1 DEF Current, ShapeOK, OnTime, Copies
  <2>2. CASE batch.rows = {}
    <3>1. pending \subseteq Observations /\ MaxSkew \in Nat
      BY LedgerAssumption DEF ShapeOK, Inv
    <3> QED BY <2>2, <3>1 DEF Current, ShapeOK, Batches, Wall
  <2> QED BY <2>1, <2>2
<1> HIDE DEF b
<1>3. ShapeOK'
  BY <1>1, <1>2, NoBatchIsBatch DEF ShapeOK, Batches
<1>4. \A o \in b.rows : o \in seen /\ (b # batch => hourly[o] = 0)
      /\ (b # batch => \A c \in Copies : o \notin c.rows)
  BY <1>2 DEF OneToken, CountedIsCovered, ShapeOK, Copies, Batches
<1>5. Copies' \subseteq Copies \cup {b, NoBatch}
  BY <1>1 DEF Copies
<1>6. NoBatch.rows = {} /\ NoBatch.at = 0
  BY DEF NoBatch
<1>7. orphans \subseteq Copies /\ batch \in Copies /\ Copies' \subseteq orphans \cup {b, NoBatch}
  BY <1>1 DEF Copies
<1>8. OneToken'
  <2>1. \A c \in orphans \cup {b, NoBatch} : c.rows \subseteq seen /\ c.rows \cap pending' = {}
    BY <1>1, <1>4, <1>6, <1>7 DEF OneToken
  <2>2. \A c, d \in orphans \cup {b, NoBatch} : c.rows \cap d.rows # {} => c.token = d.token
    BY <1>4, <1>6, <1>7 DEF OneToken
  <2> QED BY <2>1, <2>2, <1>1, <1>7 DEF OneToken
<1>9. OnTime'
  <2>1. \A c \in Copies' : c.at <= now + MaxSkew
    BY <1>2, <1>5, <1>6, LedgerAssumption DEF OnTime, ShapeOK
  <2>2. writing' => now - batch'.at <= Retention + MaxSkew
    BY <1>1, <1>2, LedgerAssumption DEF TooOld, Wall, ShapeOK, Batches
  <2> QED BY <2>1, <2>2, <1>1 DEF OnTime
<1>10. CountedIsCovered'
  <2>1. \A c \in Copies' : \A o \in c.rows : hourly[o] # 0 => Covered(c)
    BY <1>4, <1>6, <1>7 DEF CountedIsCovered
  <2> QED BY <2>1, <1>1 DEF CountedIsCovered, Covered
<1> QED BY <1>3, <1>8, <1>9, <1>10

LEMMA WriteSucceedsKeepsInv == ASSUME Inv, WriteSucceeds PROVE Inv'
<1> USE DEF Inv
<1>1. /\ batch' = NoBatch /\ writing' = FALSE /\ Commit(batch)
      /\ thread' \in {"loop", "drain", "last", "ended"} /\ drained' \in BOOLEAN
      /\ UNCHANGED <<stopping, pending, orphans, now, skew, issued, seen, taken, early>>
  BY ReturnTypes DEF WriteSucceeds, aggregator, history
<1>2. batch \in Copies /\ now - batch.at <= Retention + MaxSkew
  BY DEF WriteSucceeds, OnTime, Copies
<1>3. /\ hourly' \in [Observations -> Nat]
      /\ markers' \subseteq [token : Nat, at : Nat]
      /\ \A o \in Observations : hourly'[o] # 0 => hourly'[o] = 1 /\ o \in seen \ pending
      /\ \A c \in Copies : \A o \in c.rows : hourly'[o] # 0 => Covered(c)'
  BY <1>1, <1>2, CommitCountsOnce
<1>4. Copies' \subseteq Copies \cup {NoBatch} /\ NoBatch.rows = {} /\ NoBatch.at = 0
  BY <1>1 DEF Copies, NoBatch
<1>5. ShapeOK'
  BY <1>1, <1>3, NoBatchIsBatch DEF ShapeOK
<1>6. OneToken'
  BY <1>1, <1>4 DEF OneToken
<1>7. OnTime'
  BY <1>1, <1>4, LedgerAssumption DEF OnTime, ShapeOK
<1>8. CountedIsCovered'
  <2>1. \A c \in Copies \cup {NoBatch} : \A o \in c.rows : hourly'[o] # 0 => Covered(c)'
    BY <1>3, <1>4
  <2>2. \A c \in Copies' : \A o \in c.rows : hourly'[o] # 0 => Covered(c)'
    BY <2>1, <1>4
  <2>3. Covered(NoBatch)' <=> Covered(NoBatch)'
    OBVIOUS
  <2> QED BY <2>2, <1>1, <1>3 DEF CountedIsCovered, Covered
<1> QED BY <1>5, <1>6, <1>7, <1>8

LEMMA OrphanEndsKeepsInv ==
    ASSUME Inv, NEW t \in orphans, OrphanEnds(t) PROVE Inv'
<1> USE DEF Inv
<1>1. /\ orphans' = orphans \ {t}
      /\ UNCHANGED <<pending, batch, writing, thread, stopping, drained, now, skew, issued,
                     seen, taken, early>>
  BY DEF OrphanEnds, aggregator, flusher, history
<1>2. t \in Copies /\ now - t.at <= Retention + MaxSkew /\ Copies' \subseteq Copies
  BY <1>1 DEF OnTime, Copies
<1>3. /\ hourly' \in [Observations -> Nat]
      /\ markers' \subseteq [token : Nat, at : Nat]
      /\ \A o \in Observations : hourly'[o] # 0 => hourly'[o] = 1 /\ o \in seen \ pending
      /\ \A c \in Copies : \A o \in c.rows : hourly'[o] # 0 => Covered(c)'
  <2>1. CASE Commit(t)
    BY <2>1, <1>1, <1>2, CommitCountsOnce
  <2>2. CASE UNCHANGED <<hourly, markers>>
    BY <2>2, <1>1 DEF ShapeOK, CountedIsCovered, Covered
  <2> QED BY <2>1, <2>2 DEF OrphanEnds
<1>4. ShapeOK'
  BY <1>1, <1>3 DEF ShapeOK
<1>5. OneToken' /\ OnTime'
  BY <1>1, <1>2 DEF OneToken, OnTime
<1>6. CountedIsCovered'
  BY <1>1, <1>2, <1>3 DEF CountedIsCovered, Covered
<1> QED BY <1>4, <1>5, <1>6

\* A copy more of a batch that is being written is a copy that is on time.
LEMMA WriteIsLostKeepsInv == ASSUME Inv, WriteIsLost PROVE Inv'
<1> USE DEF Inv
<1>1. /\ writing' = FALSE /\ writing = TRUE /\ batch' = batch
      /\ orphans' \in {orphans, orphans \cup {batch}}
      /\ thread' \in {"loop", "drain", "last", "ended"} /\ drained' \in BOOLEAN
      /\ UNCHANGED <<stopping, pending, hourly, markers, now, skew, issued, seen, taken, early>>
  BY ReturnTypes DEF WriteIsLost, Kept, Sent, aggregator, history, ShapeOK
<1>2. Copies' = Copies
  BY <1>1 DEF Copies
<1>3. ShapeOK' /\ OneToken' /\ OnTime'
  BY <1>1, <1>2 DEF ShapeOK, OneToken, OnTime
<1>4. CountedIsCovered'
  BY <1>1, <1>2 DEF CountedIsCovered, Covered
<1> QED BY <1>3, <1>4

LEMMA CrashKeepsInv == ASSUME Inv, Crash PROVE Inv'
<1> USE DEF Inv
<1>1. /\ pending' = {} /\ taken' = {} /\ early' = {} /\ batch' = NoBatch
      /\ writing' = FALSE /\ thread' = "loop" /\ stopping' = FALSE /\ drained' = FALSE
      /\ \/ orphans' = orphans
         \/ writing /\ orphans' = orphans \cup {batch}
      /\ UNCHANGED <<hourly, markers, now, skew, issued, seen>>
  BY DEF Crash, Sent
<1>2. Copies' \subseteq Copies \cup {NoBatch} /\ NoBatch.rows = {} /\ NoBatch.at = 0
  BY <1>1 DEF Copies, NoBatch
<1>3. ShapeOK'
  BY <1>1, NoBatchIsBatch DEF ShapeOK
<1>4. OneToken'
  BY <1>1, <1>2 DEF OneToken
<1>5. OnTime'
  BY <1>1, <1>2, LedgerAssumption DEF OnTime, ShapeOK
<1>6. CountedIsCovered'
  <2>1. \A c \in Copies' : \A o \in c.rows : hourly[o] # 0 => Covered(c)
    BY <1>2 DEF CountedIsCovered
  <2> QED BY <2>1, <1>1 DEF CountedIsCovered, Covered
<1> QED BY <1>3, <1>4, <1>5, <1>6

\* Time passes only between writes; a marker or the age of its batch covers it.
LEMMA TickKeepsInv == ASSUME Inv, Tick PROVE Inv'
<1> USE DEF Inv
<1>1. /\ now' = now + 1 /\ writing = FALSE /\ orphans = {}
      /\ UNCHANGED <<pending, batch, writing, thread, stopping, drained, hourly, markers,
                     orphans, skew, issued, seen, taken, early>>
  BY DEF Tick, aggregator, flusher, db, history, ShapeOK
<1>2. Copies' = Copies
  BY <1>1 DEF Copies
<1>3. now \in Nat /\ MaxSkew \in Nat /\ MarkerTTL \in Nat
      /\ \A b \in Copies : b.at \in Int /\ b.at <= now + MaxSkew
  BY LedgerAssumption DEF ShapeOK, OnTime, Copies, Batches
<1>4. ShapeOK' /\ OneToken'
  BY <1>1, <1>2 DEF ShapeOK, OneToken
<1>5. OnTime'
  BY <1>1, <1>2, <1>3 DEF OnTime
<1>6. \A b \in Copies : Covered(b) => Covered(b)'
  BY <1>1, <1>3 DEF Covered
<1>7. CountedIsCovered'
  BY <1>1, <1>2, <1>6 DEF CountedIsCovered
<1> QED BY <1>4, <1>5, <1>7

\* A marker is pruned when every batch it could cover is too old.
LEMMA PruneKeepsInv ==
    ASSUME Inv, NEW p \in markers, Prune(p) PROVE Inv'
<1> USE DEF Inv
<1>1. /\ markers' = markers \ {p} /\ ~Live(p)
      /\ UNCHANGED <<pending, batch, writing, thread, stopping, drained, hourly, orphans,
                     now, skew, issued, seen, taken, early>>
  BY DEF Prune, aggregator, flusher, history
<1>2. Copies' = Copies
  BY <1>1 DEF Copies
<1>3. ShapeOK' /\ OneToken' /\ OnTime'
  BY <1>1, <1>2 DEF ShapeOK, OneToken, OnTime
<1>4. ASSUME NEW b \in Copies, Covered(b) PROVE Covered(b)'
  <2>1. b.at \in Int /\ p.at \in Nat /\ now \in Nat /\ MaxSkew \in Nat /\ MarkerTTL \in Nat
    BY LedgerAssumption DEF ShapeOK, Copies, Batches
  <2>2. p.at >= b.at - MaxSkew => now - b.at > MarkerTTL - MaxSkew
    BY <2>1, <1>1 DEF Live
  <2> QED BY <2>2, <1>1, <1>4 DEF Covered
<1>5. CountedIsCovered'
  BY <1>1, <1>2, <1>4 DEF CountedIsCovered
<1> QED BY <1>3, <1>5

LEMMA OthersKeepInv ==
    ASSUME Inv, UNCHANGED <<pending, batch, hourly, markers, orphans, now, issued, seen, taken>>,
           skew' \in -MaxSkew..MaxSkew, early' \subseteq seen,
           writing' \in BOOLEAN, writing' => writing,
           thread' \in {"loop", "drain", "last", "ended"},
           stopping' \in BOOLEAN, drained' \in BOOLEAN
    PROVE  Inv'
<1> USE DEF Inv
<1>1. Copies' = Copies
  BY DEF Copies
<1>2. ShapeOK' /\ OneToken' /\ OnTime'
  BY <1>1 DEF ShapeOK, OneToken, OnTime
<1>3. CountedIsCovered'
  BY <1>1 DEF CountedIsCovered, Covered
<1> QED BY <1>2, <1>3

LEMMA NextKeepsInv == Inv /\ [Next]_vars => Inv'
<1> SUFFICES ASSUME Inv, [Next]_vars PROVE Inv'
  OBVIOUS
<1> USE DEF Inv
<1>1. ASSUME NEW o \in Observations, Observe(o) PROVE Inv'
  BY <1>1, ObserveKeepsInv
<1>2. CASE Flush \/ WriteSucceeds \/ WriteIsLost \/ Crash \/ Tick
  BY <1>2, FlushKeepsInv, WriteSucceedsKeepsInv, WriteIsLostKeepsInv, CrashKeepsInv,
     TickKeepsInv
<1>3. CASE WriteFails
  BY <1>3, OthersKeepInv, ReturnTypes DEF WriteFails, Kept, aggregator, db, history, ShapeOK
<1>4. CASE LeaveLoop \/ Stop \/ UNCHANGED vars
  <2>1. /\ UNCHANGED <<pending, batch, writing, hourly, markers, orphans, now, skew, issued,
                       seen, taken, drained>>
        /\ early' \in {early, taken} /\ thread' \in {thread, "drain"}
        /\ stopping' = stopping \/ stopping' = TRUE
    BY <1>4 DEF LeaveLoop, Stop, vars, aggregator, flusher, db, history
  <2>2. stopping' \in BOOLEAN
    BY <2>1 DEF ShapeOK
  <2> QED BY <2>1, <2>2, OthersKeepInv DEF ShapeOK
<1>5. ASSUME NEW t \in orphans, OrphanEnds(t) PROVE Inv'
  BY <1>5, OrphanEndsKeepsInv
<1>6. ASSUME NEW m \in markers, Prune(m) PROVE Inv'
  BY <1>6, PruneKeepsInv
<1>7. ASSUME NEW d \in -MaxSkew..MaxSkew, SetClock(d) PROVE Inv'
  BY <1>7, OthersKeepInv DEF SetClock, aggregator, flusher, db, history, ShapeOK
<1> QED BY <1>1, <1>2, <1>3, <1>4, <1>5, <1>6, <1>7 DEF Next

LEMMA AlwaysInv == Spec => []Inv
BY InitInv, NextKeepsInv, PTL DEF Spec

\* The hourly table never holds an observation twice.
THEOREM NeverCountedTwice == Spec => []CountedOnce
<1>1. Inv => CountedOnce
  BY DEF Inv, CountedIsCovered, ShapeOK, CountedOnce
<1> QED BY <1>1, AlwaysInv, PTL

\* What the two flushes at the end leave: before the second, no retained batch;
\* during it, nothing early is pending.
Draining ==
    /\ thread # "loop" => stopping
    /\ thread = "ended" => ~writing
    /\ thread = "last" => IF writing THEN early \cap pending = {} ELSE batch.rows = {}
    /\ drained => thread = "ended"
    /\ DrainedOnStop

LEMMA NextKeepsDraining == Inv /\ Draining /\ [Next]_vars => Draining'
<1> SUFFICES ASSUME Inv, Draining, [Next]_vars PROVE Draining'
  OBVIOUS
<1> USE DEF Draining, DrainedOnStop
<1>1. early \subseteq seen /\ pending \subseteq seen /\ batch.rows \cap pending = {}
  BY DEF Inv, ShapeOK, OneToken, Copies
<1>2. thread \in {"loop", "drain", "last", "ended"} /\ writing \in BOOLEAN
      /\ stopping \in BOOLEAN /\ drained \in BOOLEAN
  BY DEF Inv, ShapeOK
<1>3. ASSUME NEW o \in Observations, Observe(o) PROVE Draining'
  BY <1>1, <1>3 DEF Observe, flusher
<1>4. CASE Flush
  <2>1. CASE thread = "last"
    <3>1. Current.rows = pending
      BY <2>1, <1>4 DEF Flush, Current
    <3> QED BY <2>1, <3>1, <1>2, <1>4 DEF Flush, Untaken, Return, history, NoBatch
  <2>2. CASE thread # "last"
    BY <2>2, <1>2, <1>4 DEF Flush, Return, AfterDrain, NoBatch
  <2> QED BY <2>1, <2>2
<1>5. CASE WriteSucceeds
  BY <1>2, <1>5 DEF WriteSucceeds, Return, AfterDrain, NoBatch, aggregator, history
<1>6. CASE WriteFails \/ WriteIsLost
  BY <1>2, <1>6 DEF WriteFails, WriteIsLost, Return, AfterDrain, Kept, aggregator, history
<1>7. CASE LeaveLoop \/ Stop
  BY <1>2, <1>7 DEF LeaveLoop, Stop, aggregator, flusher, history
<1>8. CASE Crash
  BY <1>8 DEF Crash
<1>9. CASE \/ \E t \in orphans : OrphanEnds(t)
           \/ \E m \in markers : Prune(m)
           \/ Tick
           \/ \E d \in -MaxSkew..MaxSkew : SetClock(d)
           \/ UNCHANGED vars
  <2>1. UNCHANGED <<pending, batch, writing, thread, drained, stopping, early>>
    BY <1>9 DEF OrphanEnds, Prune, Tick, SetClock, vars, aggregator, flusher, history
  <2> QED BY <2>1
<1> QED BY <1>3, <1>4, <1>5, <1>6, <1>7, <1>8, <1>9 DEF Next

\* A process whose last flush succeeded keeps nothing accepted before stop.
THEOREM StopDrains == Spec => []DrainedOnStop
<1>1. Init => Draining
  BY DEF Init, Draining, DrainedOnStop
<1>2. Draining => DrainedOnStop
  BY DEF Draining
<1> QED BY <1>1, <1>2, NextKeepsDraining, AlwaysInv, PTL DEF Spec

-----------------------------------------------------------------------------
(* What is lost is reported.                                               *)

Lost == {o \in taken : o \notin pending \cup batch.rows /\ hourly[o] = 0}

\* A token stands for the rows it was issued for, and its marker for their
\* being in the table: a write that its marker skips loses nothing.
TokenOK ==
    /\ \A m \in markers : m.token <= issued
    /\ batch.rows # {} => batch.token = issued
    /\ \A c \in Copies : c.token <= issued
    /\ \A c \in Copies : c.token = 0 <=> c.rows = {}
    /\ \A c, d \in Copies : c.token = d.token => c.rows = d.rows
    /\ \A c \in Copies : c.token \in Tokens => \A o \in c.rows : hourly[o] # 0

LossOK ==
    /\ IsFiniteSet(seen) /\ expired \in Nat
    /\ LossIsReported

Reported == TokenOK /\ LossOK

LEMMA LostIsFinite ==
    ASSUME Inv, LossOK
    PROVE  /\ IsFiniteSet(Lost) /\ IsFiniteSet(seen) /\ expired \in Nat
           /\ Cardinality(Lost) \in Nat /\ Cardinality(Lost) <= expired
<1>1. Lost \subseteq seen
  BY DEF Lost, Inv, ShapeOK
<1>2. IsFiniteSet(Lost)
  BY <1>1, FS_Subset DEF LossOK
<1>3. Cardinality(Lost) \in Nat
  BY <1>2, FS_CardinalityType
<1> QED BY <1>2, <1>3 DEF LossOK, LossIsReported, Lost

\* A step that loses nothing more keeps the account.
LEMMA NoMoreLost ==
    ASSUME Inv, LossOK, Lost' \subseteq Lost, IsFiniteSet(seen)', expired' = expired
    PROVE  LossOK'
<1>1. Cardinality(Lost') <= Cardinality(Lost) /\ Cardinality(Lost') \in Nat
  BY LostIsFinite, FS_Subset, FS_CardinalityType
<1>2. Cardinality(Lost') <= expired'
  BY <1>1, LostIsFinite
<1> QED BY <1>2, LostIsFinite DEF LossOK, LossIsReported, Lost

LEMMA InitReported == Init => Reported
<1> SUFFICES ASSUME Init PROVE Reported
  OBVIOUS
<1>1. Copies = {NoBatch} /\ NoBatch.rows = {} /\ NoBatch.token = 0
  BY DEF Init, Copies, NoBatch
<1>2. TokenOK
  BY <1>1 DEF Init, TokenOK, Tokens
<1>3. Lost = {} /\ IsFiniteSet(seen)
  BY FS_EmptySet DEF Init, Lost
<1>4. Cardinality(Lost) = 0
  BY <1>3, FS_EmptySet
<1>5. LossIsReported
  BY <1>4 DEF Init, LossIsReported, Lost
<1> QED BY <1>2, <1>3, <1>5 DEF Init, Reported, LossOK

LEMMA ObserveReports ==
    ASSUME Inv, Reported, NEW o \in Observations, Observe(o) PROVE Reported'
<1>1. /\ seen' = seen \cup {o} /\ o \notin seen
      /\ \/ pending' = pending \cup {o} /\ taken' = taken \cup {o}
         \/ pending' = pending /\ taken' = taken
      /\ UNCHANGED <<batch, hourly, markers, orphans, issued, expired>>
  BY DEF Observe, flusher, db
<1>2. TokenOK'
  BY <1>1 DEF Reported, TokenOK, Copies, Tokens
<1>3. Lost' \subseteq Lost
  BY <1>1 DEF Lost
<1>4. IsFiniteSet(seen)'
  BY <1>1, FS_AddElement DEF Reported, LossOK
<1> QED BY <1>1, <1>2, <1>3, <1>4, NoMoreLost DEF Reported

\* Only a batch that has become too old is let go uncounted, and as many as it
\* had are added to expired.
LEMMA FlushReports == ASSUME Inv, Reported, Flush PROVE Reported'
<1> DEFINE b == Current
<1>1. /\ pending' = pending \ b.rows
      /\ issued' = IF b.rows = {} THEN issued ELSE b.token
      /\ \/ batch' = NoBatch /\ expired' = expired + Cardinality(b.rows)
         \/ batch' = b /\ expired' = expired
      /\ UNCHANGED <<hourly, markers, orphans, seen, taken>>
  BY DEF Flush, Untaken, RecordExpired, db, history
<1>2. \/ b = batch /\ batch.rows # {}
      \/ /\ batch.rows = {} /\ b.rows = pending
         /\ b.token = IF pending = {} THEN 0 ELSE issued + 1
  BY DEF Current
<1>3. batch \in Copies /\ orphans \subseteq Copies /\ Copies' \subseteq orphans \cup {b, NoBatch}
  BY <1>1 DEF Copies
<1>4. /\ issued \in Nat /\ b.rows \subseteq seen /\ pending \subseteq seen
      /\ \A m \in markers : m.token \in Nat
      /\ \A c \in Copies : c.token \in Nat
  BY <1>2, <1>3 DEF Inv, ShapeOK, OneToken, Copies, Batches
<1> HIDE DEF b
<1>5. issued <= issued' /\ issued' \in Nat /\ b.token <= issued' /\ b.token \in Nat
      /\ (b.token = 0 <=> b.rows = {})
      /\ (b = batch \/ b.rows = {} \/ b.token = issued + 1)
  BY <1>1, <1>2, <1>3, <1>4 DEF Reported, TokenOK
<1>6. NoBatch.token = 0 /\ NoBatch.rows = {}
  BY DEF NoBatch
<1>10. ASSUME NEW c \in orphans
       PROVE  /\ c.token \in Nat /\ c.token <= issued /\ c.token <= issued'
              /\ (c.token = 0 <=> c.rows = {})
              /\ c.token = b.token => c.rows = b.rows
  <2>1. c \in Copies /\ c.token \in Nat /\ c.token <= issued /\ (c.token = 0 <=> c.rows = {})
    <3>1. c \in Copies
      BY <1>3
    <3> QED BY <3>1, <1>4 DEF Reported, TokenOK
  <2>2. c.token <= issued'
    BY <2>1, <1>4, <1>5
  <2>3. CASE b = batch
    BY <2>1, <2>2, <2>3, <1>3 DEF Reported, TokenOK
  <2>4. CASE b.rows = {}
    BY <2>1, <2>2, <2>4, <1>5
  <2>5. CASE b.token = issued + 1
    BY <2>1, <2>2, <2>5, <1>4
  <2> QED BY <2>1, <2>2, <2>3, <2>4, <2>5, <1>5
<1>7. TokenOK'
  <2>1. \A m \in markers' : m.token <= issued'
    BY <1>1, <1>4, <1>5 DEF Reported, TokenOK
  <2>5. batch'.rows # {} => batch'.token = issued'
    BY <1>1, <1>6
  <2>2. \A c \in orphans \cup {b, NoBatch} : c.token <= issued' /\ (c.token = 0 <=> c.rows = {})
    BY <1>5, <1>6, <1>10
  <2>3. \A c, d \in orphans \cup {b, NoBatch} : c.token = d.token => c.rows = d.rows
    BY <1>3, <1>5, <1>6, <1>10 DEF Reported, TokenOK
  <2>4. \A c \in orphans \cup {b, NoBatch} :
            c.token \in Tokens => \A o \in c.rows : hourly[o] # 0
    BY <1>3, <1>4, <1>5, <1>6 DEF Reported, TokenOK, Tokens
  <2> QED BY <2>1, <2>2, <2>3, <2>4, <2>5, <1>1, <1>3 DEF TokenOK, Tokens
<1>8. IsFiniteSet(seen) /\ IsFiniteSet(seen)' /\ IsFiniteSet(b.rows)
  BY <1>1, <1>4, FS_Subset DEF Reported, LossOK
<1>9. LossOK'
  <2>1. CASE batch' = b /\ expired' = expired
    BY <2>1, <1>1, <1>2, <1>8, NoMoreLost DEF Lost, Reported
  <2>2. CASE batch' = NoBatch /\ expired' = expired + Cardinality(b.rows)
    <3>1. Lost' \subseteq Lost \cup b.rows
      BY <2>2, <1>1, <1>2 DEF Lost
    <3>2. /\ Cardinality(Lost') <= Cardinality(Lost \cup b.rows)
          /\ IsFiniteSet(Lost \cup b.rows) /\ Cardinality(Lost') \in Nat
      BY <3>1, <1>8, LostIsFinite, FS_Union, FS_Subset, FS_CardinalityType DEF Reported
    <3>3. /\ Cardinality(Lost \cup b.rows)
               = Cardinality(Lost) + Cardinality(b.rows) - Cardinality(Lost \cap b.rows)
          /\ Cardinality(b.rows) \in Nat
      BY <1>8, LostIsFinite, FS_Union, FS_CardinalityType DEF Reported
    <3>4. Cardinality(Lost \cap b.rows) \in Nat
      BY <1>8, FS_Subset, FS_CardinalityType
    <3>5. Cardinality(Lost') <= expired' /\ expired' \in Nat
      BY <2>2, <3>2, <3>3, <3>4, LostIsFinite DEF Reported
    <3> QED BY <3>5, <1>8 DEF LossOK, LossIsReported, Lost
  <2> QED BY <2>1, <2>2, <1>1
<1> QED BY <1>7, <1>9 DEF Reported

\* After its commit, the rows of a copy are in the table, whether this was the
\* first or its marker was found; so are those of the other copies of its token.
LEMMA CommitRecords ==
    ASSUME Inv, Reported, NEW b \in Copies, Commit(b), issued' = issued
    PROVE  /\ \A o \in b.rows : hourly'[o] # 0
           /\ \A o \in Observations : hourly[o] # 0 => hourly'[o] # 0
           /\ \A m \in markers' : m.token <= issued
           /\ \A c \in Copies : c.token \in Tokens' => \A o \in c.rows : hourly'[o] # 0
<1>1. hourly' = [o \in Observations |->
                   IF o \in b.rows /\ b.token \notin Tokens THEN hourly[o] + 1 ELSE hourly[o]]
  BY DEF Commit
<1>2. hourly \in [Observations -> Nat] /\ \A c \in Copies : c.rows \subseteq Observations
  BY DEF Inv, ShapeOK, Copies, Batches
<1>3. \A o \in Observations : hourly[o] # 0 => hourly'[o] # 0
  BY <1>1, <1>2
<1>4. \A o \in b.rows : hourly'[o] # 0
  BY <1>1, <1>2 DEF Reported, TokenOK
<1>5. \A m \in markers' : m \in markers \/ m.token = b.token
  BY DEF Commit
<1>6. \A m \in markers' : m.token <= issued
  BY <1>5 DEF Reported, TokenOK
<1>7. Tokens' \subseteq Tokens \cup {b.token}
  BY <1>5 DEF Tokens
<1>8. \A c \in Copies : c.token \in Tokens' => \A o \in c.rows : hourly'[o] # 0
  BY <1>2, <1>3, <1>4, <1>7 DEF Reported, TokenOK
<1> QED BY <1>3, <1>4, <1>6, <1>8

LEMMA WriteSucceedsReports == ASSUME Inv, Reported, WriteSucceeds PROVE Reported'
<1>1. /\ batch' = NoBatch /\ Commit(batch)
      /\ UNCHANGED <<pending, expired, orphans, issued, seen, taken>>
  BY DEF WriteSucceeds, aggregator, history
<1>2. batch \in Copies /\ Copies' \subseteq Copies \cup {NoBatch}
      /\ NoBatch.token = 0 /\ NoBatch.rows = {} /\ issued \in Nat
  BY <1>1 DEF Copies, NoBatch, Inv, ShapeOK
<1>3. /\ \A o \in batch.rows : hourly'[o] # 0
      /\ \A o \in Observations : hourly[o] # 0 => hourly'[o] # 0
      /\ \A m \in markers' : m.token <= issued
      /\ \A c \in Copies : c.token \in Tokens' => \A o \in c.rows : hourly'[o] # 0
  BY <1>1, <1>2, CommitRecords
<1>4. TokenOK'
  <2>1. \A c \in Copies \cup {NoBatch} :
            c.token <= issued /\ (c.token = 0 <=> c.rows = {})
    BY <1>2 DEF Reported, TokenOK
  <2>2. \A c, d \in Copies \cup {NoBatch} : c.token = d.token => c.rows = d.rows
    BY <2>1, <1>2 DEF Reported, TokenOK
  <2>3. \A c \in Copies' : c.token \in Tokens' => \A o \in c.rows : hourly'[o] # 0
    BY <1>2, <1>3
  <2> QED BY <2>1, <2>2, <2>3, <1>1, <1>2, <1>3 DEF TokenOK
<1>5. Lost' \subseteq Lost
  BY <1>1, <1>2, <1>3 DEF Lost, Inv, ShapeOK
<1>6. IsFiniteSet(seen)'
  BY <1>1 DEF Reported, LossOK
<1> QED BY <1>1, <1>4, <1>5, <1>6, NoMoreLost DEF Reported

LEMMA OrphanEndsReports ==
    ASSUME Inv, Reported, NEW t \in orphans, OrphanEnds(t) PROVE Reported'
<1>1. /\ orphans' = orphans \ {t} /\ t \in Copies
      /\ UNCHANGED <<pending, expired, batch, issued, seen, taken>>
  BY DEF OrphanEnds, aggregator, flusher, history, Copies
<1>2. Copies' \subseteq Copies
  BY <1>1 DEF Copies
<1>3. /\ \A o \in Observations : hourly[o] # 0 => hourly'[o] # 0
      /\ \A m \in markers' : m.token <= issued
      /\ \A c \in Copies : c.token \in Tokens' => \A o \in c.rows : hourly'[o] # 0
  <2>1. CASE Commit(t)
    BY <2>1, <1>1, CommitRecords
  <2>2. CASE UNCHANGED <<hourly, markers>>
    BY <2>2 DEF Reported, TokenOK, Tokens
  <2> QED BY <2>1, <2>2 DEF OrphanEnds
<1>4. TokenOK'
  BY <1>1, <1>2, <1>3 DEF Reported, TokenOK
<1>5. Lost' \subseteq Lost
  BY <1>1, <1>3 DEF Lost, Inv, ShapeOK
<1>6. IsFiniteSet(seen)'
  BY <1>1 DEF Reported, LossOK
<1> QED BY <1>1, <1>4, <1>5, <1>6, NoMoreLost DEF Reported

\* Nothing is lost or counted, and there is no new batch.
LEMMA OthersReport ==
    ASSUME Inv, Reported,
           UNCHANGED <<pending, expired, batch, hourly, issued, seen, taken>>,
           markers' \subseteq markers, orphans' \subseteq Copies
    PROVE  Reported'
<1>1. Copies' \subseteq Copies /\ Tokens' \subseteq Tokens
  BY DEF Copies, Tokens
<1>2. TokenOK'
  BY <1>1 DEF Reported, TokenOK
<1>3. Lost' \subseteq Lost /\ IsFiniteSet(seen)'
  BY DEF Lost, Reported, LossOK
<1> QED BY <1>2, <1>3, NoMoreLost DEF Reported

\* What a killed process had accepted and not written is nobody's to report.
LEMMA CrashReports == ASSUME Inv, Reported, Crash PROVE Reported'
<1>1. /\ expired' = 0 /\ taken' = {} /\ batch' = NoBatch /\ orphans' \subseteq Copies
      /\ UNCHANGED <<hourly, markers, issued, seen>>
  BY DEF Crash, Sent, Copies
<1>2. Copies' \subseteq Copies \cup {NoBatch}
      /\ NoBatch.token = 0 /\ NoBatch.rows = {} /\ issued \in Nat
  BY <1>1 DEF Copies, NoBatch, Inv, ShapeOK
<1>3. TokenOK'
  <2>1. \A c \in Copies \cup {NoBatch} :
            c.token <= issued /\ (c.token = 0 <=> c.rows = {})
    BY <1>2 DEF Reported, TokenOK
  <2>2. \A c, d \in Copies \cup {NoBatch} : c.token = d.token => c.rows = d.rows
    BY <2>1, <1>2 DEF Reported, TokenOK
  <2>3. \A c \in Copies \cup {NoBatch} : c.token \in Tokens => \A o \in c.rows : hourly[o] # 0
    BY <1>2 DEF Reported, TokenOK
  <2>4. Tokens' = Tokens
    BY <1>1 DEF Tokens
  <2> QED BY <2>1, <2>2, <2>3, <2>4, <1>1, <1>2 DEF Reported, TokenOK
<1>4. Lost' \subseteq Lost /\ IsFiniteSet(seen)' /\ Lost' = {}
  BY <1>1 DEF Lost, Reported, LossOK
<1>5. Cardinality(Lost') = 0
  BY <1>4, FS_EmptySet
<1>6. LossOK'
  BY <1>1, <1>4, <1>5 DEF LossOK, LossIsReported, Lost
<1> QED BY <1>3, <1>6 DEF Reported

LEMMA NextReports == Inv /\ Reported /\ [Next]_vars => Reported'
<1> SUFFICES ASSUME Inv, Reported, [Next]_vars PROVE Reported'
  OBVIOUS
<1>1. ASSUME NEW o \in Observations, Observe(o) PROVE Reported'
  BY <1>1, ObserveReports
<1>2. CASE Flush \/ WriteSucceeds \/ Crash
  BY <1>2, FlushReports, WriteSucceedsReports, CrashReports
<1>3. CASE WriteFails \/ WriteIsLost
  BY <1>3, OthersReport DEF WriteFails, WriteIsLost, Kept, Sent, aggregator, db, history, Copies
<1>4. ASSUME NEW t \in orphans, OrphanEnds(t) PROVE Reported'
  BY <1>4, OrphanEndsReports
<1>5. ASSUME NEW m \in markers, Prune(m) PROVE Reported'
  BY <1>5, OthersReport DEF Prune, aggregator, flusher, history, Copies
<1>6. CASE LeaveLoop \/ Stop \/ Tick \/ (\E d \in -MaxSkew..MaxSkew : SetClock(d))
           \/ UNCHANGED vars
  <2>1. UNCHANGED <<pending, expired, batch, hourly, issued, seen, taken, markers, orphans>>
    BY <1>6 DEF LeaveLoop, Stop, Tick, SetClock, vars, aggregator, flusher, db, history
  <2> QED BY <2>1, OthersReport DEF Copies
<1> QED BY <1>1, <1>2, <1>3, <1>4, <1>5, <1>6 DEF Next

\* Every observation a process accepted is pending, in its batch, in the table,
\* or among those it reported as expired, however its writes ended.
THEOREM NoLossIsSilent == Spec => []LossIsReported
<1>1. Reported => LossIsReported
  BY DEF Reported, LossOK
<1> QED BY <1>1, InitReported, NextReports, AlwaysInv, PTL DEF Spec
=============================================================================
