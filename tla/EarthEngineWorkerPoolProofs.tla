---------------------- MODULE EarthEngineWorkerPoolProofs ----------------------
(* An answer is the request's own, a worker has one owner, an idle one is   *)
(* clean, a slot has one live process, and an available pool loses no slot: *)
(* for any number of slots and requests, whichever workers resist and       *)
(* however often shutdown is called.                                        *)
(* Of the code's two slots, no worker outlives a pool that is given up or   *)
(* shut down.                                                               *)
EXTENDS EarthEngineWorkerPool, FiniteSetTheorems, SequenceTheorems, TLAPS

Distinct(s) == \A i, j \in DOMAIN s : s[i][1] = s[j][1] => i = j

Holds(r) == job[r] \in Unfinished

\* A replacement is on its way.
Bringing == ~ctl.boot /\ ctl.at \in {"spawn", "register", "await"}

Types ==
    /\ TypeOK
    /\ ctl \in [at : {"none", "spawn", "register", "await", "condemn", "sweep",
                      "sweep-close", "rescue", "loop", "exit"},
                boot : BOOLEAN, w : Workers \cup {Nobody},
                pending : SUBSET Workers, todo : Seq(Workers)]
    /\ shut \in [at : {"none", "join", "stop", "close", "executor", "drain",
                       "returned", "raised"},
                 calls : Nat, todo : Seq(Workers), error : BOOLEAN]
    /\ ctl.at \in {"spawn", "register", "await", "rescue"} => ctl.w \in Workers
    /\ ctl.at = "sweep-close" => ctl.todo # <<>>
    /\ shut.at = "close" => shut.todo # <<>>
    /\ \A r \in Requests : Holds(r) => held[r] \in Workers
    /\ \A r \in Requests : fetch[r] \in {"new", "acquiring"} => job[r] = "none"
    /\ ctl.at \in {"none", "loop", "rescue"} => ~ctl.boot
    /\ Bringing /\ ctl.at # "await" => ctl.pending = {}
    /\ Bringing => ctl.pending \subseteq {ctl.w}

Phases ==
    /\ shut.calls = 0 => ~closing /\ shut.at = "none" /\ state # "closing"
    /\ shut.calls # 0 => state \notin {"available", "starting"}
    /\ state \in {"available", "starting"} => executor = "up"
    /\ executor = "none" /\ shut.calls = 0 =>
          /\ ctl.at = "none" /\ slots = <<>> /\ idle = <<>> /\ events = <<>> /\ attempts = {}
          /\ \A r \in Requests : job[r] = "none"
          /\ \A w \in Workers : proc[w] = "unborn"
    /\ ctl.boot =>
          /\ idle = <<>> /\ events = <<>> /\ attempts = {} /\ state # "available"
          /\ \A r \in Requests : job[r] = "none"
          /\ \A w \in Workers : w[2] # 1 => proc[w] = "unborn"
          /\ ctl.at \in {"spawn", "register"} =>
                ctl.w[2] = 1 /\ \A w \in Workers : w[1] > ctl.w[1] => proc[w] = "unborn"
    /\ state = "starting" => ctl.boot /\ ctl.at \in {"spawn", "register", "await", "condemn"}
    /\ ctl.at \in {"sweep", "sweep-close", "rescue"} => state # "available"
    /\ ctl.at \in {"sweep", "sweep-close"} => idle = <<>>
    /\ idle # <<>> => state = "available" \/ shut.at = "join"

Seats ==
    /\ Distinct(idle) /\ Distinct(events) /\ Distinct(slots)
    /\ \A r, q \in Requests : Holds(r) /\ Holds(q) /\ held[r][1] = held[q][1] => r = q
    /\ \A r \in Requests : Holds(r) => \A w \in ToSet(idle) \cup ToSet(events) : w[1] # held[r][1]
    /\ \A w \in ToSet(idle) : \A e \in ToSet(events) : w[1] # e[1]
    /\ Bringing =>
          /\ \A w \in ToSet(idle) \cup ToSet(events) : w[1] # ctl.w[1]
          /\ \A r \in Requests : Holds(r) => held[r][1] # ctl.w[1]

Current(w) ==
    /\ proc[w] # "unborn"
    /\ \A v \in Workers : v[1] = w[1] /\ v[2] > w[2] => proc[v] = "unborn"

Births ==
    /\ \A v, w \in Workers :
          v[1] = w[1] /\ v[2] < w[2] /\ proc[w] # "unborn" => proc[v] = "closed"
    /\ \A w \in ToSet(idle) : Current(w)
    /\ \A r \in Requests : Holds(r) => Current(held[r])
    /\ \A w \in ToSet(events) : Current(w) /\ proc[w] = "closed"
    /\ \A r \in Requests : job[r] \in {"pop", "schedule"} => proc[held[r]] = "closed"
    /\ ctl.at = "spawn" =>
          \A v \in Workers : v[1] = ctl.w[1] =>
              IF v[2] < ctl.w[2] THEN proc[v] = "closed" ELSE proc[v] = "unborn"
    /\ ctl.at \in {"register", "await"} => Current(ctl.w)
    /\ ctl.at \in {"rescue", "condemn", "sweep", "sweep-close"} /\ ~ctl.boot /\ ctl.w # Nobody =>
          proc[ctl.w] # "unborn"
    /\ state = "starting" => \A w \in ToSet(slots) : proc[w] # "unborn"

Numbered ==
    LET n == Cardinality({r \in Requests : job[r] = "done"})
    IN  /\ \A w \in ToSet(idle) : w[2] =< n + 1
        /\ \A r \in Requests : Holds(r) => held[r][2] =< n + 1
        /\ Bringing => ctl.w[2] =< n + 1
        /\ \A w \in ToSet(events) : w[2] =< n

Young(w) ==
    /\ work[w] = None /\ mail[w] \in {None, "ready", "failed"}
    /\ proc[w] = "starting" => mail[w] = None

Clean(w) == work[w] = None /\ mail[w] = None /\ proc[w] # "starting"

Pipes ==
    /\ \A w \in Workers : proc[w] = "unborn" => work[w] = None /\ mail[w] = None
    /\ \A w \in ToSet(idle) : Clean(w)
    /\ \A r \in Requests : job[r] = "queued" => Clean(held[r])
    /\ \A r \in Requests : job[r] = "polling" =>
          /\ proc[held[r]] # "starting"
          /\ mail[held[r]] \in {None, r, "garbage"} /\ work[held[r]] \in {None, r}
          /\ work[held[r]] = r => mail[held[r]] = None
    /\ ctl.at \in {"spawn", "register", "await"} => \A w \in ctl.pending : Young(w)
    /\ ctl.at = "register" => Young(ctl.w)
    /\ ctl.at = "await" /\ ~ctl.boot /\ ctl.w \notin ctl.pending => Clean(ctl.w)
    /\ state = "starting" => \A w \in ToSet(slots) \ ctl.pending : Clean(w)

Known ==
    /\ \A w \in ToSet(idle) : Registered(w)
    /\ state = "available" =>
          /\ \A r \in Requests : Holds(r) /\ job[r] # "schedule" => Registered(held[r])
          /\ ~ctl.boot /\ ctl.at = "await" => Registered(ctl.w) /\ proc[ctl.w] # "closed"
          /\ \A w \in ToSet(idle) : proc[w] # "closed"
          /\ \A r \in Requests :
                job[r] \in {"queued", "polling", "retire", "kill", "close"} => proc[held[r]] # "closed"
          /\ ctl.at = "register" => proc[ctl.w] # "closed"
    /\ state = "starting" =>
          /\ \A w \in ToSet(slots) : proc[w] # "closed" /\ w[2] = 1
          /\ ctl.at = "register" => proc[ctl.w] # "closed"
    /\ \A w \in attempts :
          /\ proc[w] = "closed" /\ w \notin ToSet(idle)
          /\ \A r \in Requests : Holds(r) => held[r] # w
          /\ Bringing => ctl.w # w

Seated(i) ==
    \/ \E w \in ToSet(idle) : w[1] = i
    \/ \E r \in Requests : Holds(r) /\ held[r][1] = i
    \/ \E w \in ToSet(events) : w[1] = i
    \/ ctl.at \in {"spawn", "register", "await"} /\ ctl.w[1] = i
    \/ ctl.at = "condemn"

Covered ==
    /\ state = "available" => \A i \in Indexes : Seated(i)
    /\ state = "starting" =>
          /\ ctl.at \in {"spawn", "register"} =>
                \A i \in Indexes : i < ctl.w[1] => \E w \in ToSet(slots) : w[1] = i
          /\ ctl.at = "await" => \A i \in Indexes : \E w \in ToSet(slots) : w[1] = i
    /\ state = "available" /\ events # <<>> => ctl.at # "none"

Inv == Types /\ Phases /\ Seats /\ Births /\ Numbered /\ Pipes /\ Known /\ Covered

-----------------------------------------------------------------------------
(* Queues of workers as sets.                                                *)

LEMMA NothingQueued == ToSet(<<>>) = {} /\ Distinct(<<>>)
BY DEF ToSet, Distinct

LEMMA SomethingQueued ==
    ASSUME NEW s \in Seq(Workers)
    PROVE  /\ ToSet(s) \subseteq Workers
           /\ s = <<>> <=> ToSet(s) = {}
BY DEF ToSet

LEMMA Appended ==
    ASSUME NEW s \in Seq(Workers), NEW w \in Workers
    PROVE  /\ Append(s, w) \in Seq(Workers) /\ ToSet(Append(s, w)) = ToSet(s) \cup {w}
           /\ Append(s, w) # <<>>
           /\ Distinct(s) /\ (\A v \in ToSet(s) : v[1] # w[1]) => Distinct(Append(s, w))
<1> DEFINE t == Append(s, w)
<1>1. /\ t \in Seq(Workers) /\ Len(t) = Len(s) + 1 /\ DOMAIN t = 1 .. Len(s) + 1
      /\ t[Len(s) + 1] = w /\ \A i \in 1 .. Len(s) : t[i] = s[i]
  BY AppendProperties
<1>2. DOMAIN s = 1 .. Len(s) /\ Len(s) \in Nat
  OBVIOUS
<1> HIDE DEF t
<1>3. ToSet(t) = ToSet(s) \cup {w}
  BY <1>1, <1>2 DEF ToSet
<1>4. ASSUME Distinct(s), \A v \in ToSet(s) : v[1] # w[1] PROVE Distinct(t)
  <2>1. \A i \in DOMAIN s : s[i][1] # w[1]
    BY <1>4 DEF ToSet
  <2> QED BY <1>1, <1>2, <1>4, <2>1 DEF Distinct
<1>5. t # <<>>
  BY <1>1, <1>2
<1> QED BY <1>1, <1>3, <1>4, <1>5 DEF t

LEMMA Enqueued ==
    ASSUME NEW s \in Seq(Workers), NEW w \in Workers
    PROVE  /\ s \o <<w>> = Append(s, w)
           /\ <<>> \o s = s
<1>1. s \o <<w>> = Append(s, w)
  OBVIOUS
<1>2. <<>> \o s = s
  BY ConcatEmptySeq
<1> QED BY <1>1, <1>2

LEMMA Dequeued ==
    ASSUME NEW s \in Seq(Workers), s # <<>>
    PROVE  /\ Head(s) \in Workers /\ Tail(s) \in Seq(Workers)
           /\ ToSet(s) = ToSet(Tail(s)) \cup {Head(s)}
           /\ Distinct(s) => Distinct(Tail(s)) /\ \A v \in ToSet(Tail(s)) : v[1] # Head(s)[1]
<1> DEFINE t == Tail(s)
           n == Len(s) - 1
<1>1. /\ DOMAIN s = 1 .. n + 1 /\ n \in Nat /\ DOMAIN t = 1 .. n
      /\ t \in Seq(Workers) /\ \A i \in 1 .. n : t[i] = s[i + 1]
      /\ Head(s) = s[1] /\ Head(s) \in Workers
  BY HeadTailProperties
<1> HIDE DEF t, n
<1>2. ToSet(s) = ToSet(t) \cup {Head(s)}
  <2>1. ASSUME NEW i \in 1 .. n + 1 PROVE i = 1 \/ (i - 1 \in 1 .. n /\ s[i] = t[i - 1])
    BY <1>1
  <2>2. \A i \in 1 .. n : i + 1 \in 1 .. n + 1 /\ t[i] = s[i + 1]
    BY <1>1
  <2>3. 1 \in 1 .. n + 1
    BY <1>1
  <2>4. ASSUME NEW i \in DOMAIN s PROVE s[i] \in ToSet(t) \cup {Head(s)}
    BY <1>1, <2>1 DEF ToSet
  <2>5. ASSUME NEW i \in DOMAIN t PROVE t[i] \in ToSet(s)
    BY <1>1, <2>2 DEF ToSet
  <2>6. Head(s) \in ToSet(s)
    BY <1>1, <2>3 DEF ToSet
  <2>7. ToSet(s) \subseteq ToSet(t) \cup {Head(s)}
    BY <2>4 DEF ToSet
  <2>8. ToSet(t) \subseteq ToSet(s)
    BY <2>5 DEF ToSet
  <2> QED BY <2>6, <2>7, <2>8
<1>3. ASSUME Distinct(s) PROVE Distinct(t) /\ \A v \in ToSet(t) : v[1] # Head(s)[1]
  <2>1. \A i \in 1 .. n : t[i][1] # Head(s)[1]
    <3>1. ASSUME NEW i \in 1 .. n, t[i][1] = Head(s)[1] PROVE FALSE
      <4>1. i + 1 \in DOMAIN s /\ 1 \in DOMAIN s /\ s[i + 1][1] = s[1][1] /\ i + 1 # 1
        BY <3>1, <1>1
      <4> QED BY <4>1, <1>3 DEF Distinct
    <3> QED BY <3>1
  <2>2. Distinct(t)
    <3> SUFFICES ASSUME NEW i \in DOMAIN t, NEW j \in DOMAIN t, t[i][1] = t[j][1] PROVE i = j
      BY DEF Distinct
    <3>1. i + 1 \in DOMAIN s /\ j + 1 \in DOMAIN s /\ s[i + 1][1] = s[j + 1][1]
      BY <1>1
    <3>2. i + 1 = j + 1
      BY <1>3, <3>1 DEF Distinct
    <3> QED BY <1>1, <3>2
  <2> QED BY <1>1, <2>1, <2>2 DEF ToSet
<1> QED BY <1>1, <1>2, <1>3 DEF t

LEMMA PutIn ==
    ASSUME slots \in Seq(Workers), Distinct(slots), NEW w \in Workers
    PROVE  /\ Put(w) \in Seq(Workers) /\ Distinct(Put(w)) /\ Put(w) # <<>>
           /\ ToSet(Put(w)) = {v \in ToSet(slots) : v[1] # w[1]} \cup {w}
<1>1. CASE \E v \in ToSet(slots) : v[1] = w[1]
  <2>1. Put(w) = [i \in DOMAIN slots |-> IF slots[i][1] = w[1] THEN w ELSE slots[i]]
    BY <1>1 DEF Put
  <2>2. PICK p \in DOMAIN slots : slots[p][1] = w[1]
    BY <1>1 DEF ToSet
  <2>3. DOMAIN Put(w) = DOMAIN slots /\ \A i \in DOMAIN slots : Put(w)[i] = IF i = p THEN w ELSE slots[i]
    BY <2>1, <2>2 DEF Distinct
  <2>4. \A i \in DOMAIN slots : slots[i][1] = w[1] <=> i = p
    BY <2>2 DEF Distinct
  <2>5. DOMAIN slots = 1 .. Len(slots) /\ Len(slots) \in Nat /\ \A i \in 1 .. Len(slots) : slots[i] \in Workers
    OBVIOUS
  <2>6. Put(w) \in Seq(Workers)
    BY <2>1, <2>5, IsASeq
  <2>7. Distinct(Put(w))
    BY <2>2, <2>3, <2>4 DEF Distinct
  <2>8. ToSet(Put(w)) = {v \in ToSet(slots) : v[1] # w[1]} \cup {w}
    BY <2>2, <2>3, <2>4 DEF ToSet
  <2>9. Put(w) # <<>>
    BY <2>2, <2>3, <2>5
  <2> QED BY <2>6, <2>7, <2>8, <2>9
<1>2. CASE \A v \in ToSet(slots) : v[1] # w[1]
  <2>1. Put(w) = Append(slots, w)
    BY <1>2 DEF Put
  <2> QED BY <1>2, <2>1, Appended
<1> QED BY <1>1, <1>2

LEMMA TakenOut ==
    ASSUME slots \in Seq(Workers), Distinct(slots), NEW w \in Workers
    PROVE  /\ Without(w) \in Seq(Workers) /\ Distinct(Without(w))
           /\ ToSet(Without(w)) = ToSet(slots) \ {w}
<1>1. CASE Registered(w)
  <2> DEFINE p == CHOOSE i \in DOMAIN slots : slots[i] = w
             n == Len(slots) - 1
             t == RemoveAt(slots, p)
  <2>1. p \in DOMAIN slots /\ slots[p] = w
    BY <1>1 DEF Registered, ToSet
  <2>2. DOMAIN slots = 1 .. n + 1 /\ Len(slots) = n + 1 /\ n \in Nat /\ p \in 1 .. n + 1
        /\ \A i \in 1 .. n + 1 : slots[i] \in Workers
    BY <2>1
  <2>3. t \in Seq(Workers) /\ Len(t) = n /\ \A i \in 1 .. n : t[i] = slots[IF i < p THEN i ELSE i + 1]
    <3> HIDE DEF p, n
    <3>1. SubSeq(slots, 1, p - 1) \in Seq(Workers) /\ Len(SubSeq(slots, 1, p - 1)) = p - 1
          /\ \A i \in 1 .. p - 1 : SubSeq(slots, 1, p - 1)[i] = slots[i]
      BY <2>2, SubSeqProperties
    <3>2. SubSeq(slots, p + 1, n + 1) \in Seq(Workers) /\ Len(SubSeq(slots, p + 1, n + 1)) = n + 1 - p
          /\ \A i \in 1 .. n + 1 - p : SubSeq(slots, p + 1, n + 1)[i] = slots[p + i]
      <4>1. p + 1 \in 1 .. Len(slots) + 1 /\ n + 1 \in 0 .. Len(slots)
            /\ \A i \in 1 .. n + 1 - p : p + 1 + i - 1 = p + i
        BY <2>2
      <4> QED BY <2>2, <4>1, SubSeqProperties
    <3> QED BY <2>2, <3>1, <3>2, ConcatProperties DEF RemoveAt
  <2>4. Without(w) = t
    BY <1>1 DEF Without
  <2> HIDE DEF t, p, n
  <2>5. DOMAIN t = 1 .. n
    BY <2>3
  <2>6. Distinct(t)
    <3> DEFINE f(i) == IF i < p THEN i ELSE i + 1
    <3> SUFFICES ASSUME NEW i \in DOMAIN t, NEW j \in DOMAIN t, t[i][1] = t[j][1] PROVE i = j
      BY DEF Distinct
    <3>1. i \in 1 .. n /\ j \in 1 .. n
      BY <2>5
    <3>2. t[i] = slots[f(i)] /\ t[j] = slots[f(j)] /\ f(i) \in DOMAIN slots /\ f(j) \in DOMAIN slots
      BY <2>2, <2>3, <3>1
    <3>3. f(i) = f(j)
      <4> HIDE DEF f
      <4> QED BY <3>2 DEF Distinct
    <3> QED BY <2>2, <3>1, <3>3
  <2>7. ToSet(t) \subseteq ToSet(slots) \ {w}
    <3>1. ASSUME NEW i \in 1 .. n PROVE t[i] \in ToSet(slots) /\ t[i] # w
      <4>1. (IF i < p THEN i ELSE i + 1) \in 1 .. n + 1 /\ (IF i < p THEN i ELSE i + 1) # p
        BY <2>2
      <4> QED BY <2>1, <2>2, <2>3, <4>1 DEF Distinct, ToSet
    <3> QED BY <2>5, <3>1 DEF ToSet
  <2>8. ToSet(slots) \ {w} \subseteq ToSet(t)
    <3>1. ASSUME NEW i \in 1 .. n + 1, slots[i] # w PROVE slots[i] \in ToSet(t)
      <4>1. CASE i < p
        <5>1. i \in 1 .. n /\ t[i] = slots[i]
          BY <2>2, <2>3, <4>1
        <5> QED BY <2>5, <5>1 DEF ToSet
      <4>2. CASE i > p
        <5>1. i - 1 \in 1 .. n /\ t[i - 1] = slots[i]
          BY <2>2, <2>3, <4>2
        <5> QED BY <2>5, <5>1 DEF ToSet
      <4> QED BY <2>1, <2>2, <3>1, <4>1, <4>2
    <3> QED BY <2>2, <3>1 DEF ToSet
  <2> QED BY <2>3, <2>4, <2>6, <2>7, <2>8
<1>2. CASE ~Registered(w)
  BY <1>2 DEF Without, Registered
<1> QED BY <1>1, <1>2
-----------------------------------------------------------------------------
(* The controller's and the shutdown's records, and what their steps write.  *)

CtlAts == {"none", "spawn", "register", "await", "condemn", "sweep", "sweep-close",
           "rescue", "loop", "exit"}

Ctls == [at : CtlAts, boot : BOOLEAN, w : Workers \cup {Nobody},
         pending : SUBSET Workers, todo : Seq(Workers)]

CtlRec(l, b, x, P, t) == [at |-> l, boot |-> b, w |-> x, pending |-> P, todo |-> t]

\* The controller's record after a step.
CtlIs(l, b, x, P, t) ==
    ctl' \in Ctls /\ ctl'.at = l /\ ctl'.boot = b /\ ctl'.w = x /\ ctl'.pending = P /\ ctl'.todo = t

LEMMA Becomes ==
    ASSUME NEW l \in CtlAts, NEW b \in BOOLEAN, NEW x \in Workers \cup {Nobody},
           NEW P \in SUBSET Workers, NEW t \in Seq(Workers),
           ctl' = CtlRec(l, b, x, P, t)
    PROVE  CtlIs(l, b, x, P, t)
BY DEF Ctls, CtlRec, CtlIs

LEMMA CtlMoves ==
    ASSUME NEW c \in Ctls
    PROVE  /\ \A l : [c EXCEPT !.at = l] = CtlRec(l, c.boot, c.w, c.pending, c.todo)
           /\ \A l, x : [c EXCEPT !.at = l, !.w = x] = CtlRec(l, c.boot, x, c.pending, c.todo)
           /\ \A l, t : [c EXCEPT !.at = l, !.todo = t] = CtlRec(l, c.boot, c.w, c.pending, t)
           /\ \A l, P : [c EXCEPT !.at = l, !.pending = P] = CtlRec(l, c.boot, c.w, P, c.todo)
           /\ \A P : [c EXCEPT !.pending = P] = CtlRec(c.at, c.boot, c.w, P, c.todo)
<1>1. \A l : [c EXCEPT !.at = l] = CtlRec(l, c.boot, c.w, c.pending, c.todo)
  BY DEF Ctls, CtlRec
<1>2. ASSUME NEW l, NEW x PROVE [c EXCEPT !.at = l, !.w = x] = CtlRec(l, c.boot, x, c.pending, c.todo)
  <2> DEFINE d == [c EXCEPT !.at = l]
  <2>1. d = CtlRec(l, c.boot, c.w, c.pending, c.todo)
    BY <1>1
  <2>2. [c EXCEPT !.at = l, !.w = x] = [d EXCEPT !.w = x]
    OBVIOUS
  <2> HIDE DEF d
  <2> QED BY <2>1, <2>2 DEF CtlRec
<1>3. ASSUME NEW l, NEW t PROVE [c EXCEPT !.at = l, !.todo = t] = CtlRec(l, c.boot, c.w, c.pending, t)
  <2> DEFINE d == [c EXCEPT !.at = l]
  <2>1. d = CtlRec(l, c.boot, c.w, c.pending, c.todo)
    BY <1>1
  <2>2. [c EXCEPT !.at = l, !.todo = t] = [d EXCEPT !.todo = t]
    OBVIOUS
  <2> HIDE DEF d
  <2> QED BY <2>1, <2>2 DEF CtlRec
<1>4. ASSUME NEW l, NEW P PROVE [c EXCEPT !.at = l, !.pending = P] = CtlRec(l, c.boot, c.w, P, c.todo)
  <2> DEFINE d == [c EXCEPT !.at = l]
  <2>1. d = CtlRec(l, c.boot, c.w, c.pending, c.todo)
    BY <1>1
  <2>2. [c EXCEPT !.at = l, !.pending = P] = [d EXCEPT !.pending = P]
    OBVIOUS
  <2> HIDE DEF d
  <2> QED BY <2>1, <2>2 DEF CtlRec
<1>5. \A P : [c EXCEPT !.pending = P] = CtlRec(c.at, c.boot, c.w, P, c.todo)
  BY DEF Ctls, CtlRec
<1> QED BY <1>1, <1>2, <1>3, <1>4, <1>5

LEMMA IdleMoves ==
    /\ Idle \in Ctls /\ Idle = CtlRec("none", FALSE, Nobody, {}, <<>>)
    /\ \A l : [Idle EXCEPT !.at = l] = CtlRec(l, FALSE, Nobody, {}, <<>>)
    /\ \A x : [Idle EXCEPT !.at = "spawn", !.w = x] = CtlRec("spawn", FALSE, x, {}, <<>>)
<1>1. Idle \in Ctls /\ Idle = CtlRec("none", FALSE, Nobody, {}, <<>>)
  BY DEF Idle, CtlRec, Ctls, CtlAts
<1>2. Idle.boot = FALSE /\ Idle.w = Nobody /\ Idle.pending = {} /\ Idle.todo = <<>>
  BY DEF Idle
<1> HIDE DEF Idle
<1>3. \A l : [Idle EXCEPT !.at = l] = CtlRec(l, FALSE, Nobody, {}, <<>>)
  <2>1. \A l : [Idle EXCEPT !.at = l] = CtlRec(l, Idle.boot, Idle.w, Idle.pending, Idle.todo)
    BY <1>1, CtlMoves
  <2> QED BY <2>1, <1>2
<1>4. ASSUME NEW x PROVE [Idle EXCEPT !.at = "spawn", !.w = x] = CtlRec("spawn", FALSE, x, {}, <<>>)
  <2>1. \A l, y : [Idle EXCEPT !.at = l, !.w = y] = CtlRec(l, Idle.boot, y, Idle.pending, Idle.todo)
    BY <1>1, CtlMoves
  <2> QED BY <1>2, <2>1
<1> QED BY <1>1, <1>3, <1>4

\* The startup goes on to the next index.
LEMMA NextIndex ==
    ASSUME NEW c \in Ctls, c.w \in Workers, NEW P
    PROVE  [c EXCEPT !.at = "spawn", !.w[1] = @ + 1, !.pending = P] =
             CtlRec("spawn", c.boot, <<c.w[1] + 1, c.w[2]>>, P, c.todo)
<1>1. c.w = <<c.w[1], c.w[2]>>
  BY DEF Workers
<1>2. [c.w EXCEPT ![1] = @ + 1] = <<c.w[1] + 1, c.w[2]>>
  BY <1>1
<1> DEFINE d == [c EXCEPT !.at = "spawn"]
           v == [c.w EXCEPT ![1] = @ + 1]
           e == [d EXCEPT !.w = v]
<1>3. d = CtlRec("spawn", c.boot, c.w, c.pending, c.todo)
  BY CtlMoves
<1>4. d.w = c.w
  BY <1>3 DEF CtlRec
<1>5. [c EXCEPT !.at = "spawn", !.w[1] = @ + 1, !.pending = P] = [e EXCEPT !.pending = P]
  BY <1>4
<1> HIDE DEF d, v
<1>6. e = CtlRec("spawn", c.boot, v, c.pending, c.todo)
  BY <1>3 DEF CtlRec
<1> HIDE DEF e
<1>7. [e EXCEPT !.pending = P] = CtlRec("spawn", c.boot, v, P, c.todo)
  BY <1>6 DEF CtlRec
<1> QED BY <1>2, <1>5, <1>7 DEF v

LEMMA CtlTyped ==
    ASSUME Types
    PROVE  /\ ctl \in Ctls /\ ctl.at \in CtlAts /\ ctl.boot \in BOOLEAN
           /\ ctl.w \in Workers \cup {Nobody} /\ ctl.pending \subseteq Workers
           /\ ctl.todo \in Seq(Workers)
BY DEF Types, Ctls, CtlAts

LEMMA Goes ==
    ASSUME Types, NEW l \in CtlAts
    PROVE  CtlGoto(l) => CtlIs(l, ctl.boot, ctl.w, ctl.pending, ctl.todo)
<1>1. CtlGoto(l) => ctl' = CtlRec(l, ctl.boot, ctl.w, ctl.pending, ctl.todo)
  BY CtlTyped, CtlMoves DEF CtlGoto
<1> QED BY <1>1, CtlTyped, Becomes

LEMMA Rests ==
    ASSUME ctl' = Idle
    PROVE  CtlIs("none", FALSE, Nobody, {}, <<>>)
<1>1. {} \in SUBSET Workers /\ <<>> \in Seq(Workers) /\ "none" \in CtlAts /\ Nobody \in Workers \cup {Nobody}
  BY DEF CtlAts
<1> QED BY <1>1, IdleMoves, Becomes

LEMMA Restarts ==
    ASSUME NEW l \in CtlAts, ctl' = [Idle EXCEPT !.at = l]
    PROVE  CtlIs(l, FALSE, Nobody, {}, <<>>)
<1>1. {} \in SUBSET Workers /\ <<>> \in Seq(Workers) /\ Nobody \in Workers \cup {Nobody}
  OBVIOUS
<1> QED BY <1>1, IdleMoves, Becomes

LEMMA StartIs ==
    ASSUME Types, NEW enabled \in BOOLEAN, Start(enabled)
    PROVE  /\ \/ CtlIs("spawn", TRUE, <<0, 1>>, {}, <<>>) /\ state' = "starting" /\ executor' = "up"
              \/ UNCHANGED <<executor, ctl>> /\ state' = "unavailable"
           /\ <<0, 1>> \in Workers
<1>1. <<0, 1>> \in Workers
  <2>1. Cardinality(Requests) \in Nat
    BY PoolAssumption, FS_CardinalityType
  <2>2. 0 \in Indexes
    BY PoolAssumption DEF Indexes
  <2> QED BY <2>1, <2>2 DEF Workers, Generations
<1>2. CtlRec("spawn", TRUE, <<0, 1>>, {}, <<>>) = [at |-> "spawn", boot |-> TRUE, w |-> <<0, 1>>, pending |-> {}, todo |-> <<>>]
  BY DEF CtlRec
<1>3. {} \in SUBSET Workers /\ <<>> \in Seq(Workers) /\ "spawn" \in CtlAts /\ TRUE \in BOOLEAN
  BY DEF CtlAts
<1> QED BY <1>1, <1>2, <1>3, Becomes DEF Start

LEMMA SpawnIs ==
    ASSUME Types, CtlSpawn
    PROVE  /\ ctl.w \in Workers
           /\ \/ ctl.boot /\ closing /\ UNCHANGED proc /\ CtlIs("none", FALSE, Nobody, {}, <<>>)
              \/ /\ ~(ctl.boot /\ closing) /\ proc' = [proc EXCEPT ![ctl.w] = "starting"]
                 /\ CtlIs("register", ctl.boot, ctl.w, ctl.pending, ctl.todo)
              \/ /\ ~(ctl.boot /\ closing) /\ UNCHANGED proc
                 /\ CtlIs("condemn", ctl.boot, Nobody, ctl.pending, ctl.todo)
<1>1. ctl.w \in Workers
  BY DEF Types, CtlSpawn
<1>2. ASSUME ctl' = [ctl EXCEPT !.at = "condemn", !.w = Nobody]
      PROVE  CtlIs("condemn", ctl.boot, Nobody, ctl.pending, ctl.todo)
  <2>1. ctl' = CtlRec("condemn", ctl.boot, Nobody, ctl.pending, ctl.todo)
    <3>1. \A l, x : [ctl EXCEPT !.at = l, !.w = x] = CtlRec(l, ctl.boot, x, ctl.pending, ctl.todo)
      BY CtlTyped, CtlMoves
    <3> QED BY <1>2, <3>1
  <2>2. "condemn" \in CtlAts /\ Nobody \in Workers \cup {Nobody}
    BY DEF CtlAts
  <2> QED BY <2>1, <2>2, CtlTyped, Becomes
<1>3. "register" \in CtlAts
  BY DEF CtlAts
<1> QED BY <1>1, <1>2, <1>3, Rests, Goes DEF CtlSpawn

\* A controller that marks the pool from its handler holds nobody.
LEMMA Marks ==
    ASSUME Types, ctl' = [ctl EXCEPT !.at = "condemn", !.w = Nobody]
    PROVE  CtlIs("condemn", ctl.boot, Nobody, ctl.pending, ctl.todo)
<1>1. "condemn" \in CtlAts /\ Nobody \in Workers \cup {Nobody}
  BY DEF CtlAts
<1>2. \A l, x : [ctl EXCEPT !.at = l, !.w = x] = CtlRec(l, ctl.boot, x, ctl.pending, ctl.todo)
  BY CtlTyped, CtlMoves
<1>3. ctl' = CtlRec("condemn", ctl.boot, Nobody, ctl.pending, ctl.todo)
  BY <1>2
<1> QED BY <1>1, <1>3, CtlTyped, Becomes

LEMMA RegisterIs ==
    ASSUME Types, CtlRegister
    PROVE  /\ ctl.w \in Workers
           /\ \/ /\ Wanted /\ slots' = Put(ctl.w) /\ UNCHANGED <<proc, mail>>
                 /\ \/ /\ ctl.boot /\ ctl.w[1] + 1 \in Indexes
                       /\ <<ctl.w[1] + 1, ctl.w[2]>> \in Workers
                       /\ CtlIs("spawn", ctl.boot, <<ctl.w[1] + 1, ctl.w[2]>>,
                                ctl.pending \cup {ctl.w}, ctl.todo)
                    \/ /\ ~(ctl.boot /\ ctl.w[1] + 1 \in Indexes)
                       /\ CtlIs("await", ctl.boot, ctl.w, ctl.pending \cup {ctl.w}, ctl.todo)
              \/ /\ ~Wanted /\ UNCHANGED slots
                 /\ \/ Close(ctl.w) /\ CtlIs("exit", ctl.boot, ctl.w, ctl.pending, ctl.todo)
                    \/ /\ ctl.w \in Resisting /\ UNCHANGED <<proc, mail>>
                       /\ \/ ctl.boot /\ CtlIs("condemn", ctl.boot, Nobody, ctl.pending, ctl.todo)
                          \/ ~ctl.boot /\ CtlIs("rescue", ctl.boot, ctl.w, ctl.pending, ctl.todo)
<1>1. ctl.w \in Workers /\ ctl \in Ctls /\ ctl.pending \cup {ctl.w} \in SUBSET Workers
  BY CtlTyped DEF Types, CtlRegister
<1>2. {"spawn", "await", "exit", "condemn", "rescue"} \subseteq CtlAts
  BY DEF CtlAts
<1>3. ASSUME ctl.w[1] + 1 \in Indexes,
             ctl' = [ctl EXCEPT !.at = "spawn", !.w[1] = @ + 1, !.pending = @ \cup {ctl.w}]
      PROVE  /\ <<ctl.w[1] + 1, ctl.w[2]>> \in Workers
             /\ CtlIs("spawn", ctl.boot, <<ctl.w[1] + 1, ctl.w[2]>>, ctl.pending \cup {ctl.w}, ctl.todo)
  <2>1. ctl' = CtlRec("spawn", ctl.boot, <<ctl.w[1] + 1, ctl.w[2]>>, ctl.pending \cup {ctl.w}, ctl.todo)
    <3>1. \A P : [ctl EXCEPT !.at = "spawn", !.w[1] = @ + 1, !.pending = P] =
                   CtlRec("spawn", ctl.boot, <<ctl.w[1] + 1, ctl.w[2]>>, P, ctl.todo)
      BY <1>1, NextIndex
    <3> QED BY <1>3, <3>1
  <2>2. <<ctl.w[1] + 1, ctl.w[2]>> \in Workers
    BY <1>1, <1>3 DEF Workers
  <2> QED BY <1>1, <1>2, <2>1, <2>2, CtlTyped, Becomes
<1>4. ASSUME ctl' = [ctl EXCEPT !.at = "await", !.pending = @ \cup {ctl.w}]
      PROVE  CtlIs("await", ctl.boot, ctl.w, ctl.pending \cup {ctl.w}, ctl.todo)
  <2>1. ctl' = CtlRec("await", ctl.boot, ctl.w, ctl.pending \cup {ctl.w}, ctl.todo)
    <3>1. \A l, P : [ctl EXCEPT !.at = l, !.pending = P] = CtlRec(l, ctl.boot, ctl.w, P, ctl.todo)
      BY <1>1, CtlMoves
    <3> QED BY <1>4, <3>1
  <2> QED BY <1>1, <1>2, <2>1, CtlTyped, Becomes
<1>5. ctl.boot \in BOOLEAN
  BY CtlTyped
<1>6. \A l \in {"exit", "rescue"} : CtlGoto(l) => CtlIs(l, ctl.boot, ctl.w, ctl.pending, ctl.todo)
  BY <1>2, Goes
<1>7. CASE Wanted
  BY <1>1, <1>3, <1>4, <1>7 DEF CtlRegister
<1>8. CASE ~Wanted
  BY <1>1, <1>5, <1>6, <1>8, Marks DEF CtlRegister, CtlGoto
<1> QED BY <1>7, <1>8

LEMMA ReadyIs ==
    ASSUME Types, CtlReady
    PROVE  \E w \in ctl.pending :
              /\ w \in Workers /\ mail[w] = "ready" /\ mail' = [mail EXCEPT ![w] = None]
              /\ CtlIs("await", ctl.boot, ctl.w, ctl.pending \ {w}, ctl.todo)
<1>1. PICK w \in ctl.pending :
        /\ mail[w] = "ready" /\ mail' = [mail EXCEPT ![w] = None]
        /\ ctl' = [ctl EXCEPT !.pending = @ \ {w}]
  BY DEF CtlReady
<1>2. ctl' = CtlRec(ctl.at, ctl.boot, ctl.w, ctl.pending \ {w}, ctl.todo)
  <2>1. \A P : [ctl EXCEPT !.pending = P] = CtlRec(ctl.at, ctl.boot, ctl.w, P, ctl.todo)
    BY CtlTyped, CtlMoves
  <2> QED BY <1>1, <2>1
<1>3. ctl.at = "await" /\ ctl.pending \ {w} \in SUBSET Workers /\ w \in Workers
  BY CtlTyped DEF CtlReady
<1> QED BY <1>1, <1>2, <1>3, CtlTyped, Becomes

LEMMA EnlistIs ==
    ASSUME Types, CtlEnlist
    PROVE  \/ /\ Wanted /\ ~closing /\ state' = "available"
              /\ idle' = idle \o (IF ctl.boot THEN slots ELSE <<ctl.w>>)
              /\ \/ ctl.boot /\ CtlIs("none", FALSE, Nobody, {}, <<>>)
                 \/ ~ctl.boot /\ CtlIs("loop", FALSE, ctl.w, ctl.pending, ctl.todo)
           \/ /\ ~(Wanted /\ ~closing) /\ UNCHANGED <<idle, state>>
              /\ CtlIs("exit", ctl.boot, ctl.w, ctl.pending, ctl.todo)
<1>1. "exit" \in CtlAts /\ "loop" \in CtlAts
  BY DEF CtlAts
<1>2. ctl.boot \in BOOLEAN
  BY CtlTyped
<1> QED BY <1>1, <1>2, Goes, Rests DEF CtlEnlist

LEMMA CondemnIs ==
    ASSUME Types, CtlCondemn
    PROVE  \/ state = "closing" /\ UNCHANGED pool /\ CtlIs("exit", ctl.boot, ctl.w, ctl.pending, ctl.todo)
           \/ /\ state # "closing" /\ state' = "unavailable"
              /\ slots' = <<>> /\ idle' = <<>> /\ events' = <<>> /\ UNCHANGED <<closing, attempts>>
              /\ CtlIs("sweep", ctl.boot, ctl.w, ctl.pending, slots)
<1>1. "exit" \in CtlAts /\ "sweep" \in CtlAts /\ slots \in Seq(Workers)
  BY DEF CtlAts, Types, TypeOK
<1>2. \A l, t : [ctl EXCEPT !.at = l, !.todo = t] = CtlRec(l, ctl.boot, ctl.w, ctl.pending, t)
  BY CtlTyped, CtlMoves
<1>3. CASE state = "closing"
  BY <1>1, <1>3, Goes DEF CtlCondemn
<1>4. CASE state # "closing"
  <2>1. ctl' = CtlRec("sweep", ctl.boot, ctl.w, ctl.pending, slots)
    BY <1>2, <1>4 DEF CtlCondemn
  <2>2. CtlIs("sweep", ctl.boot, ctl.w, ctl.pending, slots)
    BY <1>1, <2>1, CtlTyped, Becomes
  <2> QED BY <1>4, <2>2 DEF CtlCondemn
<1> QED BY <1>3, <1>4

LEMMA SweepIs ==
    ASSUME Types, CtlSweep
    PROVE  \/ /\ ctl.todo = <<>> /\ UNCHANGED <<proc, work>>
              /\ CtlIs("exit", ctl.boot, ctl.w, ctl.pending, ctl.todo)
           \/ /\ ctl.todo # <<>> /\ Head(ctl.todo) \in Workers /\ Kill(Head(ctl.todo))
              /\ CtlIs("sweep-close", ctl.boot, ctl.w, ctl.pending, ctl.todo)
<1>1. "exit" \in CtlAts /\ "sweep-close" \in CtlAts
  BY DEF CtlAts
<1>2. ctl.todo # <<>> => Head(ctl.todo) \in Workers
  BY CtlTyped, Dequeued
<1> QED BY <1>1, <1>2, Goes DEF CtlSweep

LEMMA SweepCloseIs ==
    ASSUME Types, CtlSweepClose
    PROVE  /\ Head(ctl.todo) \in Workers
           /\ \/ /\ proc[Head(ctl.todo)] = "closed" /\ UNCHANGED <<proc, mail, slots>>
                 /\ \/ ctl.w = Nobody /\ CtlIs("exit", ctl.boot, ctl.w, ctl.pending, ctl.todo)
                    \/ /\ ctl.w # Nobody /\ ctl.boot
                       /\ CtlIs("condemn", ctl.boot, Nobody, ctl.pending, ctl.todo)
                    \/ /\ ctl.w # Nobody /\ ~ctl.boot
                       /\ CtlIs("rescue", ctl.boot, ctl.w, ctl.pending, ctl.todo)
              \/ /\ proc[Head(ctl.todo)] = "dead" /\ Close(Head(ctl.todo)) /\ UNCHANGED slots
                 /\ CtlIs("sweep", ctl.boot, ctl.w, ctl.pending, Tail(ctl.todo))
              \/ /\ Alive(Head(ctl.todo)) /\ slots' = Put(Head(ctl.todo)) /\ UNCHANGED <<proc, mail>>
                 /\ CtlIs("sweep", ctl.boot, ctl.w, ctl.pending, Tail(ctl.todo))
<1>1. {"exit", "rescue", "sweep"} \subseteq CtlAts
  BY DEF CtlAts
<1>2. Head(ctl.todo) \in Workers /\ Tail(ctl.todo) \in Seq(Workers)
  BY CtlTyped, Dequeued DEF Types, CtlSweepClose
<1>3. ASSUME ctl' = [ctl EXCEPT !.at = "sweep", !.todo = Tail(@)]
      PROVE  CtlIs("sweep", ctl.boot, ctl.w, ctl.pending, Tail(ctl.todo))
  <2>1. \A l, t : [ctl EXCEPT !.at = l, !.todo = t] = CtlRec(l, ctl.boot, ctl.w, ctl.pending, t)
    BY CtlTyped, CtlMoves
  <2>2. ctl' = CtlRec("sweep", ctl.boot, ctl.w, ctl.pending, Tail(ctl.todo))
    BY <1>3, <2>1
  <2> QED BY <1>1, <1>2, <2>2, CtlTyped, Becomes
<1>4. \A l \in {"exit", "rescue"} : CtlGoto(l) => CtlIs(l, ctl.boot, ctl.w, ctl.pending, ctl.todo)
  BY <1>1, Goes
<1>5. ASSUME proc[Head(ctl.todo)] = "closed", UNCHANGED <<proc, mail, slots>>, ctl' = AfterValueError
      PROVE  \/ ctl.w = Nobody /\ CtlIs("exit", ctl.boot, ctl.w, ctl.pending, ctl.todo)
             \/ /\ ctl.w # Nobody /\ ctl.boot
                /\ CtlIs("condemn", ctl.boot, Nobody, ctl.pending, ctl.todo)
             \/ /\ ctl.w # Nobody /\ ~ctl.boot
                /\ CtlIs("rescue", ctl.boot, ctl.w, ctl.pending, ctl.todo)
  BY <1>4, <1>5, Marks, CtlTyped DEF AfterValueError, CtlGoto
<1> QED BY <1>2, <1>3, <1>5 DEF CtlSweepClose

LEMMA RescueIs ==
    ASSUME Types, CtlRescue
    PROVE  /\ ctl.w \in Workers
           /\ \/ /\ proc[ctl.w] = "closed" \/ ctl.w \in Resisting
                 /\ UNCHANGED workers /\ CtlIs("exit", ctl.boot, ctl.w, ctl.pending, ctl.todo)
              \/ /\ proc[ctl.w] # "closed" /\ Close(ctl.w)
                 /\ work' = [work EXCEPT ![ctl.w] = None]
                 /\ CtlIs("condemn", ctl.boot, Nobody, ctl.pending, ctl.todo)
<1>1. {"exit", "condemn"} \subseteq CtlAts /\ ctl.w \in Workers /\ Nobody \in Workers \cup {Nobody}
  BY DEF CtlAts, Types, CtlRescue
<1>2. ASSUME ctl' = [ctl EXCEPT !.at = "condemn", !.w = Nobody]
      PROVE  CtlIs("condemn", ctl.boot, Nobody, ctl.pending, ctl.todo)
  BY <1>2, Marks
<1>3. CtlGoto("exit") => CtlIs("exit", ctl.boot, ctl.w, ctl.pending, ctl.todo)
  BY <1>1, Goes
<1> QED BY <1>1, <1>2, <1>3 DEF CtlRescue

LEMMA ExitIs ==
    ASSUME CtlExit
    PROVE  \/ ~ctl.boot /\ MustGoOn /\ CtlIs("loop", FALSE, Nobody, {}, <<>>)
           \/ ~(~ctl.boot /\ MustGoOn) /\ CtlIs("none", FALSE, Nobody, {}, <<>>)
<1>1. "loop" \in CtlAts
  BY DEF CtlAts
<1> QED BY <1>1, Rests, Restarts DEF CtlExit

LEMMA LoopIs ==
    ASSUME Types, Numbered, CtlLoop
    PROVE  \/ UNCHANGED events /\ CtlIs("exit", FALSE, ctl.w, ctl.pending, ctl.todo)
              /\ (closing \/ events = <<>>)
           \/ /\ events # <<>> /\ events' = Tail(events) /\ ~closing
              /\ Head(events) \in Workers
              /\ <<Head(events)[1], Head(events)[2] + 1>> \in Workers
              /\ CtlIs("spawn", FALSE, <<Head(events)[1], Head(events)[2] + 1>>, {}, <<>>)
<1>0. ctl.boot = FALSE /\ "exit" \in CtlAts /\ "spawn" \in CtlAts
  BY CtlTyped DEF Types, CtlLoop, CtlAts
<1>1. CASE closing \/ events = <<>>
  BY <1>0, <1>1, Goes DEF CtlLoop
<1>2. CASE ~closing /\ events # <<>>
  <2> DEFINE e == Head(events)
             x == <<e[1], e[2] + 1>>
  <2>1. e \in Workers /\ e \in ToSet(events)
    BY <1>2, Dequeued DEF Types, TypeOK
  <2>2. x \in Workers
    <3> DEFINE D == {r \in Requests : job[r] = "done"}
    <3>1. IsFiniteSet(Requests) /\ D \subseteq Requests
      BY PoolAssumption
    <3>2. Cardinality(D) \in Nat /\ Cardinality(Requests) \in Nat /\ Cardinality(D) =< Cardinality(Requests)
      BY <3>1, FS_Subset, FS_CardinalityType
    <3>3. e[2] =< Cardinality(D)
      BY <2>1 DEF Numbered
    <3> HIDE DEF D
    <3>4. e[2] \in Nat /\ e[1] \in Indexes
      BY <2>1 DEF Workers, Generations
    <3>5. e[2] + 1 \in Generations
      BY <3>2, <3>3, <3>4 DEF Generations
    <3> QED BY <3>4, <3>5 DEF Workers
  <2>3. ctl' = [Idle EXCEPT !.at = "spawn", !.w = x] /\ events' = Tail(events)
    BY <1>2 DEF CtlLoop
  <2>4. {} \in SUBSET Workers /\ <<>> \in Seq(Workers)
    OBVIOUS
  <2> HIDE DEF x
  <2>5. ctl' = CtlRec("spawn", FALSE, x, {}, <<>>)
    BY <2>3, IdleMoves
  <2>6. CtlIs("spawn", FALSE, x, {}, <<>>)
    BY <1>0, <2>2, <2>4, <2>5, Becomes
  <2> QED BY <1>2, <2>1, <2>2, <2>3, <2>6 DEF x
<1> QED BY <1>1, <1>2
-----------------------------------------------------------------------------
Shuts == [at : {"none", "join", "stop", "close", "executor", "drain", "returned", "raised"},
          calls : Nat, todo : Seq(Workers), error : BOOLEAN]

\* The shutdown's record after a step.
ShutIs(l, n, t) == shut' \in Shuts /\ shut'.at = l /\ shut'.calls = n /\ shut'.todo = t

ShutAts == {"none", "join", "stop", "close", "executor", "drain", "returned", "raised"}

LEMMA ShutTyped ==
    ASSUME Types
    PROVE  /\ shut \in Shuts /\ shut.at \in ShutAts /\ shut.calls \in Nat
           /\ shut.todo \in Seq(Workers) /\ shut.error \in BOOLEAN
BY DEF Types, Shuts, ShutAts

LEMMA ShutGoes ==
    ASSUME Types, NEW l \in ShutAts, ShutGoto(l)
    PROVE  ShutIs(l, shut.calls, shut.todo)
<1>1. shut' = [shut EXCEPT !.at = l]
  BY DEF ShutGoto
<1> QED BY <1>1, ShutTyped DEF ShutIs, Shuts, ShutAts

LEMMA ShutMovesOn ==
    ASSUME Types, NEW l \in ShutAts, NEW t \in Seq(Workers),
           \/ shut' = [shut EXCEPT !.at = l, !.todo = t]
           \/ shut' = [shut EXCEPT !.at = l, !.todo = t, !.error = TRUE]
    PROVE  ShutIs(l, shut.calls, t)
<1> DEFINE a == [shut EXCEPT !.at = l]
           b == [a EXCEPT !.todo = t]
           c == [b EXCEPT !.error = TRUE]
<1>1. a \in Shuts /\ a.at = l /\ a.calls = shut.calls
  BY ShutTyped DEF Shuts, ShutAts
<1>2. shut' = b \/ shut' = c
  OBVIOUS
<1> HIDE DEF a
<1>3. b \in Shuts /\ b.at = l /\ b.calls = shut.calls /\ b.todo = t
  BY <1>1 DEF Shuts
<1> HIDE DEF b
<1>4. c \in Shuts /\ c.at = l /\ c.calls = shut.calls /\ c.todo = t
  BY <1>3 DEF Shuts
<1> QED BY <1>2, <1>3, <1>4 DEF ShutIs

-----------------------------------------------------------------------------
(* What each part of the invariant does not look at.                         *)

LEMMA PhasesFrame ==
    ASSUME Phases, UNCHANGED <<pool, executor, proc, job, ctl, shut>>
    PROVE  Phases'
BY DEF Phases, pool

LEMMA SeatsFrame ==
    ASSUME Seats, UNCHANGED <<idle, events, slots, job, held, ctl>>
    PROVE  Seats'
BY DEF Seats, Distinct, Holds, Bringing

LEMMA BirthsFrame ==
    ASSUME Births, UNCHANGED <<state, slots, idle, events, proc, job, held, ctl>>
    PROVE  Births'
BY DEF Births, Holds, Current

LEMMA NumberedFrame ==
    ASSUME Numbered, UNCHANGED <<idle, events, job, held, ctl>>
    PROVE  Numbered'
BY DEF Numbered, Holds, Bringing

LEMMA PipesFrame ==
    ASSUME Pipes, UNCHANGED <<state, slots, idle, proc, work, mail, job, held, ctl>>
    PROVE  Pipes'
BY DEF Pipes, Clean, Young

LEMMA KnownFrame ==
    ASSUME Known, UNCHANGED <<state, slots, idle, attempts, proc, job, held, ctl>>
    PROVE  Known'
BY DEF Known, Registered, Holds, Bringing

LEMMA CoveredFrame ==
    ASSUME Covered, UNCHANGED <<state, slots, idle, events, job, held, ctl>>
    PROVE  Covered'
BY DEF Covered, Seated, Holds

-----------------------------------------------------------------------------
(* The coroutines' steps that touch nothing but themselves.                  *)

LEMMA CallsKeep ==
    ASSUME Inv, NEW r \in Requests,
           Admit(r) \/ Receive(r) \/ Expire(r) \/ Cancel(r) \/ Contain(r) \/ Tick(r)
    PROVE  Inv'
<1>1. UNCHANGED <<pool, executor, workers, jobs, ctl, shut>>
  BY DEF Admit, Receive, Expire, Cancel, Contain, Tick
<1>2. UNCHANGED <<state, closing, slots, idle, events, attempts, proc, work, mail, job, held, answer>>
  BY <1>1 DEF pool, workers, jobs
<1>3. Types'
  <2>0. /\ fetch \in [Requests -> InFlight \cup {"new", "done"}]
        /\ clock \in [Requests -> {"far", "reserve", "past"}] /\ stale \in [Requests -> BOOLEAN]
    BY DEF Inv, Types, TypeOK
  <2>1. /\ fetch' \in [Requests -> InFlight \cup {"new", "done"}]
        /\ \A q \in Requests : fetch'[q] \in {"new", "acquiring"} => fetch[q] \in {"new", "acquiring"}
    <3>1. UNCHANGED fetch \/ \E l \in InFlight \cup {"done"} :
             FetchGoto(r, l) /\ (l = "acquiring" => fetch[r] = "new")
      BY DEF InFlight, Admit, Receive, Expire, Cancel, Contain, Tick
    <3> QED BY <2>0, <3>1 DEF FetchGoto, InFlight
  <2>2. clock' \in [Requests -> {"far", "reserve", "past"}] /\ stale' \in [Requests -> BOOLEAN]
    <3>1. CASE Tick(r)
      BY <2>0, <3>1 DEF Tick
    <3>2. CASE ~Tick(r)
      <4>1. UNCHANGED clock
        BY <3>2 DEF Admit, Receive, Expire, Cancel, Contain
      <4>2. stale' = stale \/ stale' = [stale EXCEPT ![r] = TRUE]
        BY <3>2 DEF Admit, Receive, Expire, Cancel, Contain
      <4> QED BY <2>0, <4>1, <4>2
    <3> QED BY <3>1, <3>2
  <2> QED BY <1>1, <1>2, <2>1, <2>2 DEF Inv, Types, TypeOK, Bringing, Holds
<1> QED BY <1>1, <1>2, <1>3, PhasesFrame, SeatsFrame, BirthsFrame, NumberedFrame, PipesFrame,
          KnownFrame, CoveredFrame DEF Inv
-----------------------------------------------------------------------------
(* The worker processes.                                                     *)

\* A process ends: by itself, by terminate or by kill.
Ends(w) ==
    /\ Alive(w)
    /\ proc' = [proc EXCEPT ![w] = "dead"] /\ work' = [work EXCEPT ![w] = None]

LEMMA Killed ==
    ASSUME NEW w \in Workers, Kill(w)
    PROVE  Ends(w) \/ UNCHANGED <<proc, work>>
BY DEF Kill, Ends

\* What a live process does makes no worker unborn or closed, or not so any more.
Lives ==
    /\ proc' \in [Workers -> {"unborn", "starting", "live", "dead", "closed"}]
    /\ \A v \in Workers : /\ proc'[v] = "unborn" <=> proc[v] = "unborn"
                          /\ proc'[v] = "closed" <=> proc[v] = "closed"
                          /\ proc'[v] = "starting" => proc[v] = "starting"

LEMMA PhasesAlive ==
    ASSUME Phases, Lives, UNCHANGED <<pool, executor, job, ctl, shut>>
    PROVE  Phases'
BY DEF Phases, Lives, pool

LEMMA BirthsAlive ==
    ASSUME Inv, Lives, UNCHANGED <<state, slots, idle, events, job, held, ctl>>
    PROVE  Births'
<1>1. /\ \A v \in ToSet(idle) \cup ToSet(events) \cup ToSet(slots) : v \in Workers
      /\ \A r \in Requests : Holds(r) => held[r] \in Workers
      /\ ctl.w \in Workers \cup {Nobody}
      /\ ctl.at \in {"spawn", "register", "await"} => ctl.w \in Workers
  BY SomethingQueued DEF Inv, Types, TypeOK
<1> QED BY <1>1 DEF Inv, Births, Holds, Current, Lives, Unfinished

LEMMA KnownAlive ==
    ASSUME Inv, Lives, UNCHANGED <<state, slots, idle, attempts, job, held, ctl>>
    PROVE  Known'
<1>1. /\ \A v \in ToSet(idle) \cup attempts \cup ToSet(slots) : v \in Workers
      /\ \A r \in Requests : Holds(r) => held[r] \in Workers
      /\ ctl.at \in {"spawn", "register", "await"} => ctl.w \in Workers
  BY SomethingQueued DEF Inv, Types, TypeOK
<1> QED BY <1>1 DEF Inv, Known, Holds, Registered, Lives, Unfinished, Bringing

LEMMA EndsLives ==
    ASSUME Types, NEW w \in Workers, Ends(w)
    PROVE  Lives /\ work' \in [Workers -> Requests \cup {None}]
BY DEF Types, TypeOK, Ends, Lives, Alive

LEMMA PipesEnd ==
    ASSUME Inv, NEW w \in Workers, Ends(w), UNCHANGED <<state, slots, idle, mail, job, held, ctl>>
    PROVE  Pipes'
<1>1. /\ \A v \in ToSet(idle) \cup ToSet(slots) : v \in Workers
      /\ \A r \in Requests : Holds(r) => held[r] \in Workers
      /\ ctl.at \in {"spawn", "register", "await"} => ctl.w \in Workers
      /\ ctl.pending \subseteq Workers
  BY SomethingQueued, CtlTyped DEF Inv, Types, TypeOK
<1>2. /\ proc \in [Workers -> {"unborn", "starting", "live", "dead", "closed"}]
      /\ work \in [Workers -> Requests \cup {None}]
  BY DEF Inv, Types, TypeOK
<1>3. /\ Lives /\ \A v \in Workers : work'[v] = IF v = w THEN None ELSE work[v]
      /\ Alive(w)
  BY <1>2, EndsLives DEF Inv, Ends
<1> QED BY <1>1, <1>3 DEF Inv, Pipes, Holds, Clean, Young, Unfinished, Lives, Alive

LEMMA WorkerKeeps ==
    ASSUME Inv, NEW w \in Workers, WorkerInitializes(w) \/ WorkerAnswers(w) \/ WorkerDies(w)
    PROVE  Inv'
<1>1. UNCHANGED <<pool, executor, calls, jobs, ctl, shut>>
  BY DEF WorkerInitializes, WorkerAnswers, WorkerDies
<1>2. UNCHANGED <<state, closing, slots, idle, events, attempts, fetch, clock, stale, job, held, answer>>
  BY <1>1 DEF pool, calls, jobs
<1>3. /\ proc \in [Workers -> {"unborn", "starting", "live", "dead", "closed"}]
      /\ work \in [Workers -> Requests \cup {None}]
      /\ mail \in [Workers -> Requests \cup {None, "ready", "failed", "garbage"}]
  BY DEF Inv, Types, TypeOK
<1>4. Lives
  BY <1>3 DEF WorkerInitializes, WorkerAnswers, WorkerDies, Lives, Alive
<1>5. /\ work' \in [Workers -> Requests \cup {None}]
      /\ mail' \in [Workers -> Requests \cup {None, "ready", "failed", "garbage"}]
  BY <1>3 DEF WorkerInitializes, WorkerAnswers, WorkerDies
<1>6. Types'
  BY <1>1, <1>2, <1>4, <1>5 DEF Inv, Types, TypeOK, Bringing, Holds, Lives
<1>7. Pipes'
  <2>1. /\ \A v \in ToSet(idle) \cup ToSet(slots) : v \in Workers
        /\ \A r \in Requests : Holds(r) => held[r] \in Workers
        /\ ctl.at \in {"spawn", "register", "await"} => ctl.w \in Workers
        /\ ctl.pending \subseteq Workers
    BY SomethingQueued, CtlTyped DEF Inv, Types, TypeOK
  <2>2. CASE WorkerInitializes(w)
    <3>1. /\ proc[w] = "starting" /\ work' = work
          /\ \A v \in Workers : v # w => proc'[v] = proc[v] /\ mail'[v] = mail[v]
          /\ mail'[w] \in {"ready", "failed"} /\ proc'[w] \notin {"starting", "unborn"}
      BY <1>3, <2>2 DEF WorkerInitializes
    <3> QED BY <1>1, <1>2, <2>1, <3>1 DEF Inv, Pipes, Holds, Clean, Young, Unfinished
  <2>3. CASE WorkerAnswers(w)
    <3>1. /\ proc[w] = "live" /\ work[w] # None /\ proc' = proc
          /\ \A v \in Workers : v # w => work'[v] = work[v] /\ mail'[v] = mail[v]
          /\ mail'[w] \in {work[w], "garbage"} /\ work'[w] = None
      BY <1>3, <2>3 DEF WorkerAnswers
    <3> QED BY <1>1, <1>2, <2>1, <3>1 DEF Inv, Pipes, Holds, Clean, Young, Unfinished
  <2>4. CASE WorkerDies(w)
    BY <1>1, <1>2, <2>4, PipesEnd DEF WorkerDies, Ends
  <2> QED BY <2>2, <2>3, <2>4
<1> QED BY <1>1, <1>2, <1>4, <1>6, <1>7, PhasesAlive, SeatsFrame, BirthsAlive, NumberedFrame,
          KnownAlive, CoveredFrame DEF Inv
-----------------------------------------------------------------------------
(* shutdown.                                                                 *)

\* The workers' names in the queues and in the jobs.
LEMMA Members ==
    ASSUME Types
    PROVE  /\ \A v \in ToSet(idle) \cup ToSet(slots) \cup ToSet(events) \cup attempts : v \in Workers
           /\ \A r \in Requests : Holds(r) => held[r] \in Workers
           /\ ctl.at \in {"spawn", "register", "await", "rescue"} => ctl.w \in Workers
           /\ ctl.pending \subseteq Workers
BY SomethingQueued, CtlTyped DEF Types, TypeOK

LEMMA Maps ==
    ASSUME Types
    PROVE  /\ proc \in [Workers -> {"unborn", "starting", "live", "dead", "closed"}]
           /\ work \in [Workers -> Requests \cup {None}]
           /\ mail \in [Workers -> Requests \cup {None, "ready", "failed", "garbage"}]
           /\ job \in [Requests -> Unfinished \cup {"none", "done", "cancelled"}]
           /\ held \in [Requests -> Workers \cup {Nobody}]
           /\ slots \in Seq(Workers) /\ idle \in Seq(Workers) /\ events \in Seq(Workers)
           /\ attempts \subseteq Workers
BY DEF Types, TypeOK

\* While shutdown runs the pool is neither available nor starting.
LEMMA ShutGoesOn ==
    ASSUME Phases, shut.at \in {"join", "stop", "close", "executor", "drain"}
    PROVE  /\ shut.calls # 0 /\ state \notin {"available", "starting"}
           /\ shut.at # "join" => idle = <<>>
BY DEF Phases

LEMMA ShutBeginKeeps ==
    ASSUME Inv, ShutBegin
    PROVE  Inv'
<1>1. /\ state' = "closing" /\ closing' = TRUE
      /\ ShutIs("join", shut.calls + 1, <<>>) /\ shut.calls + 1 # 0 /\ shut.calls + 1 \in Nat
      /\ UNCHANGED <<slots, idle, events, attempts, executor, proc, work, mail, fetch, clock,
                     stale, job, held, answer, ctl>>
  BY ShutTyped DEF Inv, ShutBegin, ShutIs, Shuts, workers, calls, jobs
<1>2. Types'
  BY <1>1 DEF Inv, Types, TypeOK, ShutIs, Shuts, Bringing, Holds
<1>3. Phases'
  BY <1>1 DEF Inv, Phases, ShutIs
<1>4. Births' /\ Pipes' /\ Known' /\ Covered'
  BY <1>1 DEF Inv, Births, Pipes, Known, Covered, Holds, Current, Clean, Young, Registered, Bringing
<1> QED BY <1>1, <1>2, <1>3, <1>4, SeatsFrame, NumberedFrame DEF Inv

LEMMA ShutJoinKeeps ==
    ASSUME Inv, ShutJoin
    PROVE  Inv'
<1>1. /\ slots' = <<>> /\ idle' = <<>> /\ ctl.at = "none"
      /\ UNCHANGED <<state, closing, events, attempts, executor, proc, work, mail, fetch, clock,
                     stale, job, held, answer, ctl>>
  BY DEF ShutJoin, ControllersJoined, workers, calls, jobs
<1>2. ShutIs("stop", shut.calls, slots)
  BY Maps, ShutMovesOn DEF Inv, ShutJoin, ShutAts
<1>3. shut.calls # 0 /\ state \notin {"available", "starting"}
  BY ShutGoesOn DEF Inv, ShutJoin
<1>4. Types'
  BY <1>1, <1>2 DEF Inv, Types, TypeOK, ShutIs, Shuts, Bringing, Holds
<1>5. Phases'
  BY <1>1, <1>2, <1>3 DEF Inv, Phases, ShutIs
<1>6. Seats' /\ Births' /\ Numbered' /\ Pipes' /\ Known' /\ Covered'
  BY <1>1, <1>3, NothingQueued DEF Inv, Seats, Births, Numbered, Pipes, Known, Covered, Holds, Current,
     Clean, Young, Registered, Bringing
<1> QED BY <1>4, <1>5, <1>6 DEF Inv

LEMMA ShutStopKeeps ==
    ASSUME Inv, ShutStop
    PROVE  Inv'
<1>1. UNCHANGED <<pool, state, closing, slots, idle, events, attempts, executor, mail, fetch, clock,
                  stale, job, held, answer, ctl>>
  BY DEF ShutStop, pool, calls, jobs
<1>2. /\ ShutIs(shut'.at, shut.calls, shut.todo) /\ shut'.at \in {"executor", "raised", "close"}
      /\ shut'.at = "close" => shut.todo # <<>>
      /\ UNCHANGED <<proc, work>> \/ \E w \in Workers : Ends(w)
  <2>1. CASE shut.todo = <<>>
    <3>1. ShutIs("executor", shut.calls, shut.todo)
      BY <2>1, ShutGoes DEF Inv, ShutStop, ShutAts
    <3> QED BY <2>1, <3>1 DEF ShutStop, ShutIs
  <2>2. CASE shut.todo # <<>> /\ proc[Head(shut.todo)] = "closed"
    <3>1. ShutIs("raised", shut.calls, shut.todo)
      BY <2>2, ShutGoes DEF Inv, ShutStop, ShutAts
    <3> QED BY <2>2, <3>1 DEF ShutStop, ShutIs
  <2>3. CASE shut.todo # <<>> /\ proc[Head(shut.todo)] # "closed"
    <3>1. ShutIs("close", shut.calls, shut.todo)
      BY <2>3, ShutGoes DEF Inv, ShutStop, ShutAts
    <3>2. Head(shut.todo) \in Workers /\ Kill(Head(shut.todo))
      BY <2>3, ShutTyped, Dequeued DEF Inv, ShutStop
    <3>3. Ends(Head(shut.todo)) \/ UNCHANGED <<proc, work>>
      BY <3>2, Killed
    <3> QED BY <2>3, <3>1, <3>2, <3>3 DEF ShutIs
  <2> QED BY <2>1, <2>2, <2>3
<1>3. shut.calls # 0 /\ state \notin {"available", "starting"} /\ idle = <<>>
  BY ShutGoesOn DEF Inv, ShutStop
<1>4. Lives /\ work' \in [Workers -> Requests \cup {None}]
  BY <1>2, EndsLives, Maps DEF Inv, Lives
<1>5. Types'
  BY <1>1, <1>2, <1>4 DEF Inv, Types, TypeOK, ShutIs, Shuts, Bringing, Holds, Lives
<1>6. Phases'
  BY <1>1, <1>2, <1>3, <1>4 DEF Inv, Phases, ShutIs, Lives
<1>7. Pipes'
  BY <1>1, <1>2, PipesEnd, PipesFrame DEF Inv
<1> QED BY <1>1, <1>4, <1>5, <1>6, <1>7, SeatsFrame, BirthsAlive, NumberedFrame, KnownAlive,
          CoveredFrame DEF Inv

LEMMA ShutCloseKeeps ==
    ASSUME Inv, ShutClose
    PROVE  Inv'
<1> DEFINE w == Head(shut.todo)
<1>1. UNCHANGED <<state, closing, idle, events, attempts, executor, work, fetch, clock,
                  stale, job, held, answer, ctl>>
  BY DEF ShutClose, calls, jobs
<1>2. w \in Workers /\ Tail(shut.todo) \in Seq(Workers)
  BY ShutTyped, Dequeued DEF Inv, Types, ShutClose
<1>3. ShutIs(shut'.at, shut.calls, shut'.todo) /\ shut'.at \in {"stop", "raised"}
  <2>1. ASSUME NEW l \in ShutAts, NEW t, l \in {"stop", "raised"}, ShutIs(l, shut.calls, t)
        PROVE  ShutIs(shut'.at, shut.calls, shut'.todo) /\ shut'.at \in {"stop", "raised"}
    BY <2>1 DEF ShutIs
  <2>2. "stop" \in ShutAts /\ "raised" \in ShutAts
    BY DEF ShutAts
  <2>3. CASE ShutGoto("raised")
    BY <2>1, <2>2, <2>3, ShutGoes DEF Inv
  <2>4. CASE \/ shut' = [shut EXCEPT !.at = "stop", !.todo = Tail(@)]
             \/ shut' = [shut EXCEPT !.at = "stop", !.todo = Tail(@), !.error = TRUE]
    <3>1. ShutIs("stop", shut.calls, Tail(shut.todo))
      BY <1>2, <2>2, <2>4, ShutMovesOn DEF Inv
    <3> QED BY <2>1, <2>2, <3>1
  <2> QED BY <2>3, <2>4 DEF ShutClose
<1>4. shut.calls # 0 /\ state \notin {"available", "starting"} /\ idle = <<>>
  BY ShutGoesOn DEF Inv, ShutClose
<1>5. slots' \in Seq(Workers) /\ Distinct(slots)'
  <2>1. slots' = slots \/ slots' = Put(w)
    BY DEF ShutClose
  <2>2. slots \in Seq(Workers) /\ Distinct(slots)
    BY Maps DEF Inv, Seats
  <2> QED BY <1>2, <2>1, <2>2, PutIn
<1>6. UNCHANGED <<proc, mail>> \/ (proc[w] = "dead" /\ Close(w))
  BY DEF ShutClose
<1> HIDE DEF w
<1>7. Types'
  <2>1. /\ proc' \in [Workers -> {"unborn", "starting", "live", "dead", "closed"}]
        /\ mail' \in [Workers -> Requests \cup {None, "ready", "failed", "garbage"}]
    BY <1>6, Maps DEF Inv, Close
  <2> QED BY <1>1, <1>3, <1>5, <2>1 DEF Inv, Types, TypeOK, ShutIs, Shuts, Bringing, Holds
<1>8. \A v \in Workers : (proc[v] = "closed" => proc'[v] = "closed") /\ (proc[v] = "unborn" <=> proc'[v] = "unborn")
  BY <1>2, <1>6, Maps DEF Inv, Close
<1>9. Phases'
  BY <1>1, <1>3, <1>4, <1>8 DEF Inv, Phases, ShutIs
<1>10. Seats'
  BY <1>1, <1>5 DEF Inv, Seats, Holds, Bringing
<1>11. Births'
  <2>1. CASE UNCHANGED <<proc, mail>>
    BY <1>1, <1>4, <2>1 DEF Inv, Births, Holds, Current
  <2>2. CASE proc[w] = "dead" /\ Close(w)
    <3>1. /\ proc'[w] = "closed" /\ \A v \in Workers : v # w => proc'[v] = proc[v]
      BY <2>2, <1>2, Maps DEF Inv, Close
    <3>2. \A v \in Workers : Current(v) => Current(v)'
      BY <1>8 DEF Current
    <3>3. (\A u, v \in Workers : u[1] = v[1] /\ u[2] < v[2] /\ proc[v] # "unborn" => proc[u] = "closed")'
      BY <1>8 DEF Inv, Births
    <3>4. (ctl.at = "spawn" =>
              \A v \in Workers : v[1] = ctl.w[1] =>
                  IF v[2] < ctl.w[2] THEN proc[v] = "closed" ELSE proc[v] = "unborn")'
      BY <1>1, <1>8 DEF Inv, Births
    <3>5. ctl.w \in Workers \cup {Nobody}
      BY CtlTyped DEF Inv
    <3> QED BY <1>1, <1>4, <1>8, <3>2, <3>3, <3>4, <3>5, Members DEF Inv, Births, Holds, Unfinished
  <2> QED BY <1>6, <2>1, <2>2
<1>12. Pipes'
  <2>1. CASE UNCHANGED <<proc, mail>>
    BY <1>1, <1>4, <2>1 DEF Inv, Pipes, Clean, Young
  <2>2. CASE proc[w] = "dead" /\ Close(w)
    <3>1. /\ proc'[w] = "closed" /\ \A v \in Workers : v # w => proc'[v] = proc[v] /\ mail'[v] = mail[v]
          /\ mail'[w] = None
      BY <2>2, <1>2, Maps DEF Inv, Close
    <3> QED BY <1>1, <1>4, <3>1, Members DEF Inv, Pipes, Clean, Young, Holds, Unfinished
  <2> QED BY <1>6, <2>1, <2>2
<1>13. Known'
  BY <1>1, <1>4, <1>8, Members, NothingQueued DEF Inv, Known, Holds, Bringing, Registered
<1>14. Covered'
  BY <1>1, <1>4 DEF Inv, Covered
<1> QED BY <1>1, <1>7, <1>9, <1>10, <1>11, <1>12, <1>13, <1>14, NumberedFrame DEF Inv

LEMMA ShutExecutorKeeps ==
    ASSUME Inv, ShutExecutor
    PROVE  Inv'
<1>1. UNCHANGED <<state, closing, slots, idle, events, attempts, proc, work, mail, fetch, clock,
                  stale, held, answer, ctl>>
  BY DEF ShutExecutor, pool, workers, calls
<1>2. ShutIs("drain", shut.calls, shut.todo)
  BY ShutGoes DEF Inv, ShutExecutor, ShutAts
<1>3. shut.calls # 0 /\ state \notin {"available", "starting"} /\ idle = <<>>
  BY ShutGoesOn DEF Inv, ShutExecutor
<1>4. /\ executor' \in {"none", "up", "shut"}
      /\ job' \in [Requests -> Unfinished \cup {"none", "done", "cancelled"}]
      /\ \A r \in Requests : /\ job'[r] = IF job[r] = "queued" THEN "cancelled" ELSE job[r]
                             /\ Holds(r)' => Holds(r)
  BY Maps DEF Inv, Types, TypeOK, ShutExecutor, Holds, Unfinished
<1>5. Types'
  BY <1>1, <1>2, <1>4 DEF Inv, Types, TypeOK, ShutIs, Shuts, Bringing
<1>6. Phases'
  BY <1>1, <1>2, <1>3, <1>4 DEF Inv, Phases, ShutIs
<1>7. Seats' /\ Births' /\ Known' /\ Covered'
  <2>1. Seats'
    BY <1>1, <1>4 DEF Inv, Seats, Bringing
  <2>2. Births'
    BY <1>1, <1>3, <1>4 DEF Inv, Births, Current
  <2> QED BY <1>1, <1>3, <1>4, <2>1, <2>2 DEF Inv, Known, Covered, Registered, Bringing
<1>8. Numbered'
  <2>1. {r \in Requests : job[r] = "done"}' = {r \in Requests : job[r] = "done"}
    BY <1>4
  <2> QED BY <1>1, <1>4, <2>1 DEF Inv, Numbered, Bringing
<1>9. Pipes'
  BY <1>1, <1>3, <1>4 DEF Inv, Pipes, Clean, Young
<1> QED BY <1>5, <1>6, <1>7, <1>8, <1>9 DEF Inv

LEMMA ShutFinishKeeps ==
    ASSUME Inv, ShutFinish
    PROVE  Inv'
<1>1. /\ events' = <<>> /\ attempts' = {} /\ executor' = "none" /\ state' \in {"unavailable", "stopped"}
      /\ UNCHANGED <<closing, slots, idle, proc, work, mail, fetch, clock, stale, job, held,
                     answer, ctl>>
  BY DEF ShutFinish, workers, calls, jobs
<1>2. ShutIs(shut'.at, shut.calls, shut.todo) /\ shut'.at \in {"raised", "returned"}
  <2>1. ShutIs("raised", shut.calls, shut.todo) \/ ShutIs("returned", shut.calls, shut.todo)
    BY ShutGoes DEF Inv, ShutFinish, ShutAts
  <2> QED BY <2>1 DEF ShutIs
<1>3. shut.calls # 0 /\ state \notin {"available", "starting"} /\ idle = <<>>
  BY ShutGoesOn DEF Inv, ShutFinish
<1>4. Types'
  BY <1>1, <1>2 DEF Inv, Types, TypeOK, ShutIs, Shuts, Bringing, Holds
<1>5. Phases'
  BY <1>1, <1>2, <1>3 DEF Inv, Phases, ShutIs
<1>6. Seats' /\ Births' /\ Numbered' /\ Pipes' /\ Known' /\ Covered'
  BY <1>1, <1>3, NothingQueued DEF Inv, Seats, Births, Numbered, Pipes, Known, Covered, Holds, Current,
     Clean, Young, Registered, Bringing
<1> QED BY <1>4, <1>5, <1>6 DEF Inv
-----------------------------------------------------------------------------
(* The executor's jobs.                                                      *)

Finished == {r \in Requests : job[r] = "done"}

LEMMA FinishedIsFinite ==
    IsFiniteSet(Finished) /\ Cardinality(Finished) \in Nat
<1>1. Finished \subseteq Requests /\ IsFiniteSet(Requests)
  BY PoolAssumption DEF Finished
<1> QED BY <1>1, FS_Subset, FS_CardinalityType

\* A worker that a job holds is nobody else's.
LEMMA JobKnows ==
    ASSUME Inv, NEW r \in Requests, Holds(r)
    PROVE  /\ held[r] \in Workers /\ ~ctl.boot /\ state # "starting"
           /\ fetch[r] \notin {"new", "acquiring"} /\ ~(executor = "none" /\ shut.calls = 0)
           /\ held[r] \notin ToSet(idle) \cup ToSet(events) \cup attempts
           /\ \A q \in Requests : Holds(q) /\ held[q] = held[r] => q = r
           /\ ctl.at \in {"spawn", "register", "await"} => ctl.w # held[r] /\ held[r] \notin ctl.pending
<1>1. job[r] # "none"
  BY DEF Holds, Unfinished
<1> QED BY <1>1 DEF Inv, Types, Phases, Seats, Known, Bringing

\* The job goes on with the worker it holds.
LEMMA JobGoesOn ==
    ASSUME Types, NEW r \in Requests, Holds(r), NEW l \in Unfinished, JobStays(r, l)
    PROVE  /\ job' \in [Requests -> Unfinished \cup {"none", "done", "cancelled"}]
           /\ job'[r] = l /\ \A q \in Requests : q # r => job'[q] = job[q]
           /\ UNCHANGED <<held, answer>>
           /\ \A q \in Requests : (Holds(q)' <=> Holds(q)) /\ (Holds(q) => job'[q] # "none")
           /\ Finished' = Finished
<1>1. /\ job' \in [Requests -> Unfinished \cup {"none", "done", "cancelled"}]
      /\ job'[r] = l /\ \A q \in Requests : q # r => job'[q] = job[q]
      /\ UNCHANGED <<held, answer>>
  BY Maps DEF JobStays, JobGoto
<1> QED BY <1>1 DEF Holds, Finished, Unfinished

\* The job ends and holds nothing any more.
LEMMA JobIsDone ==
    ASSUME Types, NEW r \in Requests, Holds(r), NEW a \in {r, "timeout", "error"}, JobEnds(r, a)
    PROVE  /\ job' \in [Requests -> Unfinished \cup {"none", "done", "cancelled"}]
           /\ held' \in [Requests -> Workers \cup {Nobody}]
           /\ answer' \in [Requests -> Requests \cup {None, "timeout", "error"}]
           /\ job'[r] = "done" /\ \A q \in Requests : q # r => job'[q] = job[q] /\ held'[q] = held[q]
           /\ \A q \in Requests : Holds(q)' <=> Holds(q) /\ q # r
           /\ Finished' = Finished \cup {r}
           /\ Cardinality(Finished') = Cardinality(Finished) + 1
           /\ Cardinality(Finished) \in Nat
<1>1. /\ job' \in [Requests -> Unfinished \cup {"none", "done", "cancelled"}]
      /\ held' \in [Requests -> Workers \cup {Nobody}]
      /\ answer' \in [Requests -> Requests \cup {None, "timeout", "error"}]
      /\ job'[r] = "done" /\ \A q \in Requests : q # r => job'[q] = job[q] /\ held'[q] = held[q]
  BY Maps DEF Types, TypeOK, JobEnds, JobGoto
<1>2. /\ \A q \in Requests : Holds(q)' <=> Holds(q) /\ q # r
      /\ Finished' = Finished \cup {r} /\ r \notin Finished
  BY <1>1 DEF Holds, Finished, Unfinished
<1>3. Cardinality(Finished \cup {r}) = Cardinality(Finished) + 1
  BY <1>2, FinishedIsFinite, FS_AddElement
<1> QED BY <1>1, <1>2, <1>3, FinishedIsFinite

-----------------------------------------------------------------------------
(* What the parts of the invariant say of a job that only goes on.           *)

LEMMA GoesOnSafely ==
    ASSUME Inv, NEW r \in Requests, Holds(r), NEW l \in Unfinished, JobStays(r, l),
           UNCHANGED <<closing, attempts, executor, fetch, clock, stale, ctl, shut, idle, state, events>>,
           proc' \in [Workers -> {"unborn", "starting", "live", "dead", "closed"}],
           work' \in [Workers -> Requests \cup {None}],
           mail' \in [Workers -> Requests \cup {None, "ready", "failed", "garbage"}],
           slots' \in Seq(Workers), Distinct(slots)',
           \A v \in Workers : proc'[v] = "unborn" <=> proc[v] = "unborn"
    PROVE  Types' /\ Phases' /\ Seats' /\ Numbered' /\ Covered'
<1>1. /\ job' \in [Requests -> Unfinished \cup {"none", "done", "cancelled"}]
      /\ job'[r] = l /\ \A q \in Requests : q # r => job'[q] = job[q]
      /\ UNCHANGED <<held, answer>>
      /\ \A q \in Requests : (Holds(q)' <=> Holds(q)) /\ (Holds(q) => job'[q] # "none")
      /\ Finished' = Finished
  BY JobGoesOn DEF Inv
<1>2. ~ctl.boot /\ state # "starting" /\ fetch[r] \notin {"new", "acquiring"} /\ ~(executor = "none" /\ shut.calls = 0)
  BY JobKnows
<1>3. Types'
  BY <1>1, <1>2 DEF Inv, Types, TypeOK, Bringing
<1>4. Phases'
  BY <1>1, <1>2 DEF Inv, Phases
<1>5. Seats'
  BY <1>1 DEF Inv, Seats, Bringing
<1>6. Numbered'
  BY <1>1 DEF Inv, Numbered, Bringing, Finished
<1>7. Covered'
  BY <1>1, <1>2 DEF Inv, Covered, Seated
<1> QED BY <1>3, <1>4, <1>5, <1>6, <1>7

\* A job that ends gives its worker back when the pool is available, or else loses it.
LEMMA EndsSafely ==
    ASSUME Inv, NEW r \in Requests, Holds(r), NEW a \in {r, "timeout", "error"}, JobEnds(r, a),
           UNCHANGED <<state, closing, slots, events, attempts, executor, proc, work, fetch, clock,
                       stale, ctl, shut>>,
           mail' \in [Workers -> Requests \cup {None, "ready", "failed", "garbage"}],
           \/ state # "available" /\ UNCHANGED idle
           \/ /\ state = "available" /\ Registered(held[r]) /\ job[r] \in {"queued", "polling"}
              /\ idle' = Append(idle, held[r])
    PROVE  /\ Types' /\ Phases' /\ Seats' /\ Births' /\ Numbered' /\ Known' /\ Covered'
           /\ ToSet(idle') \subseteq ToSet(idle) \cup {held[r]}
           /\ ToSet(idle') \subseteq Workers
<1> DEFINE w == held[r]
<1>1. /\ job' \in [Requests -> Unfinished \cup {"none", "done", "cancelled"}]
      /\ held' \in [Requests -> Workers \cup {Nobody}]
      /\ answer' \in [Requests -> Requests \cup {None, "timeout", "error"}]
      /\ job'[r] = "done" /\ \A q \in Requests : q # r => job'[q] = job[q] /\ held'[q] = held[q]
      /\ \A q \in Requests : Holds(q)' <=> Holds(q) /\ q # r
      /\ Cardinality(Finished') = Cardinality(Finished) + 1
      /\ Cardinality(Finished) \in Nat
  BY JobIsDone DEF Inv
<1>2. /\ w \in Workers /\ ~ctl.boot /\ state # "starting" /\ fetch[r] \notin {"new", "acquiring"}
      /\ ~(executor = "none" /\ shut.calls = 0)
  BY JobKnows
<1>3. /\ \A v \in ToSet(idle) \cup ToSet(events) : v[1] # w[1]
      /\ Bringing => ctl.w[1] # w[1]
  BY DEF Inv, Seats
<1>4. /\ idle' \in Seq(Workers) /\ Distinct(idle') /\ ToSet(idle') \subseteq ToSet(idle) \cup {w}
      /\ state = "available" => ToSet(idle') = ToSet(idle) \cup {w} /\ Registered(w)
      /\ state # "available" => idle' = idle
      /\ ToSet(idle') \subseteq Workers
  <2>1. idle \in Seq(Workers) /\ Distinct(idle) /\ ToSet(idle) \subseteq Workers
    BY Maps, SomethingQueued DEF Inv, Seats
  <2>2. CASE state = "available"
    <3>1. idle' = Append(idle, w) /\ Registered(w)
      BY <2>2
    <3> HIDE DEF w
    <3>2. /\ Append(idle, w) \in Seq(Workers) /\ ToSet(Append(idle, w)) = ToSet(idle) \cup {w}
          /\ Distinct(Append(idle, w))
      BY <1>2, <1>3, <2>1, Appended
    <3> QED BY <1>2, <2>1, <2>2, <3>1, <3>2
  <2>3. CASE state # "available"
    BY <2>1, <2>3
  <2> QED BY <2>2, <2>3
<1>5. Types'
  BY <1>1, <1>2, <1>4 DEF Inv, Types, TypeOK, Bringing
<1>6. Phases'
  BY <1>1, <1>2, <1>4 DEF Inv, Phases
<1>7. Seats'
  BY SMTT(30), <1>1, <1>3, <1>4 DEF Inv, Seats, Bringing
<1>8. Births'
  <2>1. Current(w) /\ \A v : Current(v)' <=> Current(v)
    BY DEF Inv, Births, Current
  <2> QED BY <1>1, <1>4, <2>1 DEF Inv, Births, Unfinished
<1>9. Numbered'
  <2>1. /\ \A v \in ToSet(idle) : v[2] =< Cardinality(Finished) + 1
        /\ \A q \in Requests : Holds(q) => held[q][2] =< Cardinality(Finished) + 1
        /\ Bringing => ctl.w[2] =< Cardinality(Finished) + 1
        /\ \A v \in ToSet(events) : v[2] =< Cardinality(Finished)
    BY DEF Inv, Numbered, Finished
  <2>2. /\ \A v \in ToSet(idle') : v[2] \in Nat
        /\ \A q \in Requests : Holds(q) => held[q][2] \in Nat
        /\ Bringing => ctl.w[2] \in Nat
        /\ \A v \in ToSet(events) : v[2] \in Nat
    BY <1>4, Members DEF Inv, Workers, Generations, Bringing
  <2>3. \A v \in ToSet(idle') : v[2] =< Cardinality(Finished) + 2
    BY <1>1, <1>2, <1>4, <2>1, <2>2
  <2>4. \A q \in Requests : Holds(q)' => held'[q][2] =< Cardinality(Finished) + 2
    BY <1>1, <2>1, <2>2
  <2>5. /\ Bringing => ctl.w[2] =< Cardinality(Finished) + 2
        /\ \A v \in ToSet(events) : v[2] =< Cardinality(Finished) + 1
    BY <1>1, <2>1, <2>2
  <2>6. Cardinality(Finished') + 1 = Cardinality(Finished) + 2
    BY <1>1
  <2>7. Bringing' <=> Bringing
    BY DEF Bringing
  <2> QED BY <1>1, <2>3, <2>4, <2>5, <2>6, <2>7 DEF Numbered, Finished
<1>10. Known'
  <2>1. state = "available" => proc[w] # "closed"
    BY DEF Inv, Known
  <2>2. w \notin attempts
    BY JobKnows
  <2>3. \A v \in ToSet(idle') : Registered(v)'
    BY <1>4 DEF Inv, Known, Registered
  <2>4. \A v \in attempts : v \notin ToSet(idle')
    BY <1>4, <2>2 DEF Inv, Known
  <2>5. state = "available" => \A v \in ToSet(idle') : proc[v] # "closed"
    BY <1>4, <2>1 DEF Inv, Known
  <2>6. \A q \in Requests : Holds(q)' => q # r /\ Holds(q) /\ held'[q] = held[q] /\ job'[q] = job[q]
    BY <1>1
  <2>7. \A v : Registered(v)' <=> Registered(v)
    BY DEF Registered
  <2> QED BY <2>3, <2>4, <2>5, <2>6, <2>7, <1>1 DEF Inv, Known, Bringing
<1>11. Covered'
  <2>1. \A i \in Indexes : state = "available" /\ Seated(i) => Seated(i)'
    BY <1>1, <1>4 DEF Seated
  <2> QED BY <1>1, <1>2, <2>1 DEF Inv, Covered
<1> QED BY <1>4, <1>5, <1>6, <1>7, <1>8, <1>9, <1>10, <1>11

LEMMA DispatchKeeps ==
    ASSUME Inv, NEW r \in Requests, Dispatch(r)
    PROVE  Inv'
<1> DEFINE w == held[r]
<1>1. /\ Holds(r) /\ job[r] = "queued"
      /\ UNCHANGED <<state, closing, slots, events, attempts, executor, proc, mail, fetch, clock,
                     stale, ctl, shut>>
  BY DEF Dispatch, Holds, Unfinished, calls
<1>2. /\ w \in Workers /\ w \notin ToSet(idle) \cup ToSet(events) \cup attempts /\ ~ctl.boot
      /\ \A q \in Requests : Holds(q) /\ held[q] = w => q = r
      /\ ctl.at \in {"spawn", "register", "await"} => ctl.w # w /\ w \notin ctl.pending
      /\ state # "starting"
  BY <1>1, JobKnows
<1>3. Clean(w) /\ proc[w] # "unborn"
  BY <1>1 DEF Inv, Pipes, Births, Current
<1>4. Distinct(slots)
  BY DEF Inv, Seats
<1>5. CASE state = "available" /\ Registered(w) /\ ~stale[r] /\ clock[r] # "past"
  <2>1. /\ JobStays(r, "polling") /\ UNCHANGED idle
        /\ work' = IF proc[w] = "live" THEN [work EXCEPT ![w] = r] ELSE work
    BY <1>5 DEF Dispatch
  <2>2. "polling" \in Unfinished
    BY DEF Unfinished
  <2>3. /\ job'[r] = "polling" /\ \A q \in Requests : q # r => job'[q] = job[q]
        /\ UNCHANGED <<held, answer>>
        /\ \A q \in Requests : Holds(q)' <=> Holds(q)
    BY <1>1, <2>1, <2>2, JobGoesOn DEF Inv
  <2>4. /\ work' \in [Workers -> Requests \cup {None}] /\ work'[w] \in {None, r}
        /\ \A v \in Workers : v # w => work'[v] = work[v]
    BY <1>2, <1>3, <2>1, Maps DEF Inv, Clean
  <2>5. Types' /\ Phases' /\ Seats' /\ Numbered' /\ Covered'
    BY <1>1, <1>4, <2>1, <2>2, <2>4, GoesOnSafely, Maps DEF Inv
  <2>6. Births'
    BY <1>1, <2>1, <2>3 DEF Inv, Births, Current
  <2>7. Known'
    BY <1>1, <1>2, <2>1, <2>3 DEF Inv, Known, Registered, Bringing
  <2>8. Pipes'
    <3>2. \A v \in Workers : v # w => (Clean(v)' <=> Clean(v)) /\ (Young(v)' <=> Young(v))
      BY <1>1, <2>4 DEF Clean, Young
    <3>3. \A v \in ToSet(idle') : Clean(v)'
      BY <1>2, <2>1, <3>2, Members DEF Inv, Pipes
    <3>4. \A q \in Requests : job'[q] = "queued" => q # r /\ held[q] # w /\ held[q] \in Workers /\ Clean(held[q])
      BY <1>2, <2>3, Members DEF Inv, Pipes, Holds, Unfinished
    <3>5. \A q \in Requests : job'[q] = "queued" => Clean(held[q])'
      BY <2>3, <1>1, <2>4, <3>4 DEF Clean
    <3>6. \A q \in Requests : job[q] = "polling" => q # r /\ held[q] # w /\ held[q] \in Workers
      BY <1>1, <1>2, Members DEF Inv, Holds, Unfinished
    <3>7. \A q \in Requests : job'[q] = "polling" =>
            /\ proc[held[q]] # "starting"
            /\ mail[held[q]] \in {None, q, "garbage"} /\ work'[held[q]] \in {None, q}
            /\ work'[held[q]] = q => mail[held[q]] = None
      <4>1. ASSUME NEW q \in Requests, q # r, job'[q] = "polling"
            PROVE  /\ job[q] = "polling" /\ held[q] \in Workers /\ work'[held[q]] = work[held[q]]
        BY <2>3, <2>4, <3>6, <4>1
      <4>2. mail[held[r]] = None /\ proc[held[r]] # "starting"
        BY <1>3 DEF Clean
      <4>3. work'[held[r]] \in {None, r}
        BY <2>4
      <4> QED BY <4>1, <4>2, <4>3 DEF Inv, Pipes
    <3>8. ctl.at \in {"spawn", "register", "await"} => \A v \in ctl.pending : v \in Workers /\ v # w
      BY <1>2, Members DEF Inv
    <3>9. ctl.at \in {"spawn", "register", "await"} => \A v \in ctl.pending : Young(v)'
      BY <3>2, <3>8 DEF Inv, Pipes
    <3>10. ctl.at = "register" => Young(ctl.w)'
      BY <1>1, <1>2, <2>4, Members DEF Inv, Pipes, Young
    <3>11. ctl.at = "await" /\ ~ctl.boot /\ ctl.w \notin ctl.pending => Clean(ctl.w)'
      BY <1>1, <1>2, <2>4, Members DEF Inv, Pipes, Clean
    <3>12. \A v \in Workers : proc[v] = "unborn" => work'[v] = None /\ mail[v] = None
      BY <1>3, <2>4 DEF Inv, Pipes
    <3> QED BY <1>1, <1>2, <2>1, <2>3, <3>3, <3>5, <3>7, <3>9, <3>10, <3>11, <3>12 DEF Pipes, Clean, Young
  <2> QED BY <2>5, <2>6, <2>7, <2>8 DEF Inv
<1>6. CASE ~(state = "available" /\ Registered(w) /\ ~stale[r] /\ clock[r] # "past")
  <2>1. JobEnds(r, "timeout") /\ Release(w) /\ UNCHANGED work
    BY <1>6 DEF Dispatch
  <2>2. \/ state # "available" /\ UNCHANGED idle
        \/ state = "available" /\ Registered(w) /\ idle' = Append(idle, w)
    BY <1>1, <2>1 DEF Release, Inv, Known
  <2>3. /\ Types' /\ Phases' /\ Seats' /\ Births' /\ Numbered' /\ Known' /\ Covered'
        /\ ToSet(idle') \subseteq ToSet(idle) \cup {w}
    BY <1>1, <2>1, <2>2, EndsSafely, Maps DEF Inv
  <2>4. /\ job'[r] = "done"
        /\ \A q \in Requests : q # r => job'[q] = job[q] /\ held'[q] = held[q]
    BY <1>1, <2>1, JobIsDone DEF Inv
  <2>5. \A v \in ToSet(idle') : Clean(v)
    BY <1>3, <2>3 DEF Inv, Pipes
  <2>6. Pipes'
    BY <1>1, <1>2, <2>1, <2>4, <2>5 DEF Inv, Pipes, Clean, Young
  <2> QED BY <2>3, <2>6 DEF Inv
<1> QED BY <1>5, <1>6

\* A job that goes on to contain its worker, which is read, ended or closed or not.
LEMMA ContainsSafely ==
    ASSUME Inv, NEW r \in Requests, Holds(r), NEW l \in {"retire", "kill", "close"}, JobStays(r, l),
           job[r] \in {"polling", "retire", "kill"},
           UNCHANGED <<state, closing, slots, idle, events, attempts, executor, fetch, clock, stale, ctl, shut>>,
           \/ UNCHANGED <<proc, work>> /\ mail' = [mail EXCEPT ![held[r]] = None]
           \/ UNCHANGED <<proc, work, mail>>
           \/ Ends(held[r]) /\ UNCHANGED mail
    PROVE  Inv'
<1> DEFINE w == held[r]
<1>1. l \in Unfinished
  BY DEF Unfinished
<1>2. /\ job'[r] = l /\ UNCHANGED <<held, answer>>
      /\ \A q \in Requests : q # r => job'[q] = job[q]
      /\ \A q \in Requests : Holds(q)' <=> Holds(q)
  BY <1>1, JobGoesOn DEF Inv
<1>3. /\ w \in Workers /\ w \notin ToSet(idle) \cup ToSet(events) \cup attempts /\ ~ctl.boot
      /\ state # "starting"
      /\ \A q \in Requests : Holds(q) /\ held[q] = w => q = r
      /\ ctl.at \in {"spawn", "register", "await"} => ctl.w # w /\ w \notin ctl.pending
  BY JobKnows
<1>4. Lives /\ work' \in [Workers -> Requests \cup {None}]
  BY <1>3, EndsLives, Maps DEF Inv, Lives
<1>5. mail' \in [Workers -> Requests \cup {None, "ready", "failed", "garbage"}]
  BY <1>3, Maps DEF Inv
<1>6. slots' \in Seq(Workers) /\ Distinct(slots)'
  BY Maps DEF Inv, Seats
<1>7. Types' /\ Phases' /\ Seats' /\ Numbered' /\ Covered'
  BY <1>1, <1>4, <1>5, <1>6, GoesOnSafely DEF Lives
<1>8. Births'
  <2>1. \A v \in Workers : Current(v) => Current(v)'
    BY <1>4 DEF Current, Lives
  <2>2. \A q \in Requests : job'[q] \in {"pop", "schedule"} => job[q] = job'[q] /\ held[q] \in Workers
    BY <1>2, Members DEF Inv, Holds, Unfinished
  <2>3. ctl.at \in {"rescue", "condemn", "sweep", "sweep-close"} /\ ~ctl.boot /\ ctl.w # Nobody =>
          ctl.w \in Workers
    BY CtlTyped DEF Inv
  <2>4. (ctl.at = "spawn" =>
            \A v \in Workers : v[1] = ctl.w[1] =>
                IF v[2] < ctl.w[2] THEN proc[v] = "closed" ELSE proc[v] = "unborn")'
    BY <1>4 DEF Inv, Births, Lives
  <2>5. (\A u, v \in Workers : u[1] = v[1] /\ u[2] < v[2] /\ proc[v] # "unborn" => proc[u] = "closed")'
    BY <1>4 DEF Inv, Births, Lives
  <2> QED BY <1>2, <1>3, <1>4, <2>1, <2>2, <2>3, <2>4, <2>5, Members DEF Inv, Births, Lives
<1>9. Known'
  BY <1>2, <1>3, <1>4, Members DEF Inv, Known, Registered, Bringing, Lives, Holds, Unfinished
<1>10. Pipes'
  <2>1. \A v \in Workers : v # w => proc'[v] = proc[v] /\ work'[v] = work[v] /\ mail'[v] = mail[v]
    BY <1>3, Maps DEF Inv, Ends
  <2>2. \A v \in Workers : v # w => (Clean(v)' <=> Clean(v)) /\ (Young(v)' <=> Young(v))
    BY <2>1 DEF Clean, Young
  <2>3. \A v \in Workers : proc'[v] = "unborn" => work'[v] = None /\ mail'[v] = None
    <3>1. proc'[w] = "unborn" => proc[w] = "unborn"
      BY <1>3, <1>4 DEF Lives
    <3>2. proc[w] # "unborn"
      BY DEF Inv, Births, Current
    <3> QED BY <2>1, <3>1, <3>2 DEF Inv, Pipes
  <2>4. \A v \in ToSet(idle) : Clean(v)'
    BY <1>3, <2>2, Members DEF Inv, Pipes
  <2>5. \A q \in Requests : job'[q] = "queued" => Clean(held[q])'
    <3>1. ASSUME NEW q \in Requests, job'[q] = "queued"
          PROVE  held[q] \in Workers /\ held[q] # w /\ job[q] = "queued"
      BY <1>2, <1>3, <3>1, Members DEF Inv, Holds, Unfinished
    <3> QED BY <1>2, <2>1, <3>1 DEF Inv, Pipes, Clean
  <2>6. ASSUME NEW q \in Requests, job'[q] = "polling"
        PROVE  /\ proc'[held[q]] # "starting"
               /\ mail'[held[q]] \in {None, q, "garbage"} /\ work'[held[q]] \in {None, q}
               /\ work'[held[q]] = q => mail'[held[q]] = None
    <3>1. held[q] \in Workers /\ held[q] # w /\ job[q] = "polling"
      BY <1>2, <1>3, <2>6, Members DEF Inv, Holds, Unfinished
    <3> QED BY <2>1, <3>1 DEF Inv, Pipes
  <2>7. ctl.at \in {"spawn", "register", "await"} => \A v \in ctl.pending : Young(v)'
    BY <1>3, <2>2, Members DEF Inv, Pipes
  <2>8. ctl.at = "register" => Young(ctl.w)'
    BY <1>3, <2>1, Members DEF Inv, Pipes, Young
  <2>9. ctl.at = "await" /\ ~ctl.boot /\ ctl.w \notin ctl.pending => Clean(ctl.w)'
    BY <1>3, <2>1, Members DEF Inv, Pipes, Clean
  <2> QED BY <1>2, <1>3, <2>3, <2>4, <2>5, <2>6, <2>7, <2>8, <2>9 DEF Pipes, Clean, Young
<1> QED BY <1>7, <1>8, <1>9, <1>10 DEF Inv

LEMMA TakeKeeps ==
    ASSUME Inv, NEW r \in Requests, Take(r)
    PROVE  Inv'
<1> DEFINE w == held[r]
<1>1. /\ Holds(r) /\ job[r] = "polling" /\ mail[w] # None /\ mail' = [mail EXCEPT ![w] = None]
      /\ UNCHANGED <<state, closing, slots, events, attempts, executor, proc, work, fetch, clock,
                     stale, ctl, shut>>
  BY DEF Take, Holds, Unfinished, calls
<1>2. /\ w \in Workers /\ w \notin ToSet(idle) \cup ToSet(events) \cup attempts /\ ~ctl.boot
      /\ \A q \in Requests : Holds(q) /\ held[q] = w => q = r
      /\ ctl.at \in {"spawn", "register", "await"} => ctl.w # w /\ w \notin ctl.pending
      /\ state # "starting"
  BY <1>1, JobKnows
<1>3. CASE Accepts(r)
  <2>1. JobEnds(r, r) /\ Release(w) /\ mail[w] = r
    BY <1>1, <1>3 DEF Take, Accepts
  <2>2. \/ state # "available" /\ UNCHANGED idle
        \/ state = "available" /\ Registered(w) /\ idle' = Append(idle, w)
    BY <1>1, <2>1 DEF Release, Inv, Known
  <2>3. mail' \in [Workers -> Requests \cup {None, "ready", "failed", "garbage"}]
    BY <1>1, <1>2, Maps DEF Inv
  <2>4. /\ Types' /\ Phases' /\ Seats' /\ Births' /\ Numbered' /\ Known' /\ Covered'
        /\ ToSet(idle') \subseteq ToSet(idle) \cup {w}
    BY <1>1, <2>1, <2>2, <2>3, EndsSafely
  <2>5. /\ job'[r] = "done"
        /\ \A q \in Requests : q # r => job'[q] = job[q] /\ held'[q] = held[q]
    BY <1>1, <2>1, JobIsDone DEF Inv
  <2>6. /\ work[w] = None /\ proc[w] # "starting" /\ mail'[w] = None
        /\ \A v \in Workers : v # w => mail'[v] = mail[v]
    BY <1>1, <1>2, <2>1, Maps DEF Inv, Pipes
  <2>7. \A v \in ToSet(idle') : Clean(v)'
    <3>1. \A v \in ToSet(idle) : v \in Workers /\ v # w /\ Clean(v)
      BY <1>2, Members DEF Inv, Pipes
    <3> QED BY <1>1, <2>4, <2>6, <3>1 DEF Clean
  <2>8. Pipes'
    <3>1. ASSUME NEW q \in Requests, job'[q] \in {"queued", "polling"}
          PROVE  held'[q] = held[q] /\ held[q] \in Workers /\ held[q] # w /\ job[q] = job'[q]
      BY <1>2, <2>5, <3>1, Members DEF Inv, Holds, Unfinished
    <3> QED BY <1>1, <1>2, <2>6, <2>7, <3>1, Members DEF Inv, Pipes, Clean, Young
  <2> QED BY <2>4, <2>8 DEF Inv
<1>4. CASE ~Accepts(r)
  <2>1. JobStays(r, "retire") /\ UNCHANGED idle
    BY <1>4 DEF Take
  <2> QED BY <1>1, <2>1, ContainsSafely
<1> QED BY <1>3, <1>4

LEMMA GiveUpJobKeeps ==
    ASSUME Inv, NEW r \in Requests, GiveUpJob(r) \/ LoseWorker(r)
    PROVE  Inv'
<1>1. /\ job[r] = "polling" /\ JobStays(r, "retire")
      /\ UNCHANGED <<state, closing, slots, idle, events, attempts, executor, proc, work, mail, fetch,
                     clock, stale, ctl, shut>>
  BY DEF GiveUpJob, LoseWorker, GiveUp, pool, workers, calls
<1> QED BY <1>1, ContainsSafely DEF Holds, Unfinished

LEMMA RetireKillKeeps ==
    ASSUME Inv, NEW r \in Requests, RetireKill(r)
    PROVE  Inv'
<1>1. /\ job[r] = "kill" /\ JobStays(r, "close") /\ Kill(held[r]) /\ UNCHANGED mail
      /\ UNCHANGED <<state, closing, slots, idle, events, attempts, executor, fetch, clock, stale,
                     ctl, shut>>
  BY DEF RetireKill, pool, calls
<1>2. Holds(r)
  BY <1>1 DEF Holds, Unfinished
<1>3. Ends(held[r]) \/ UNCHANGED <<proc, work>>
  BY <1>1, <1>2, Killed, JobKnows
<1> QED BY <1>1, <1>2, <1>3, ContainsSafely

LEMMA RetireKeeps ==
    ASSUME Inv, NEW r \in Requests, Retire(r)
    PROVE  Inv'
<1>1. /\ job[r] = "retire" /\ Holds(r)
      /\ UNCHANGED <<state, closing, slots, idle, events, attempts, executor, proc, work, mail, fetch,
                     clock, stale, ctl, shut>>
  BY DEF Retire, Holds, Unfinished, pool, workers, calls
<1>2. CASE Registered(held[r])
  BY <1>1, <1>2, ContainsSafely DEF Retire
<1>3. CASE ~Registered(held[r])
  <2>1. JobEnds(r, "error")
    BY <1>3 DEF Retire
  <2>2. state # "available"
    BY <1>1, <1>3 DEF Inv, Known
  <2>3. /\ Types' /\ Phases' /\ Seats' /\ Births' /\ Numbered' /\ Known' /\ Covered'
    BY <1>1, <2>1, <2>2, EndsSafely, Maps DEF Inv
  <2>4. /\ job'[r] = "done"
        /\ \A q \in Requests : q # r => job'[q] = job[q] /\ held'[q] = held[q]
    BY <1>1, <2>1, JobIsDone DEF Inv
  <2>5. Pipes'
    BY <1>1, <2>4 DEF Inv, Pipes, Clean, Young
  <2> QED BY <2>3, <2>5 DEF Inv
<1> QED BY <1>2, <1>3

\* The worker is closed: nobody else was using it.
LEMMA JobClosesWorker ==
    ASSUME Inv, NEW r \in Requests, job[r] = "close", JobStays(r, "pop"), Close(held[r]),
           UNCHANGED <<state, closing, slots, idle, events, attempts, executor, work, fetch, clock,
                       stale, ctl, shut>>
    PROVE  Inv'
<1> DEFINE w == held[r]
<1>0. Holds(r) /\ "pop" \in Unfinished
  BY DEF Holds, Unfinished
<1>2. /\ job'[r] = "pop" /\ UNCHANGED <<held, answer>>
      /\ \A q \in Requests : q # r => job'[q] = job[q]
      /\ \A q \in Requests : Holds(q)' <=> Holds(q)
  BY <1>0, JobGoesOn DEF Inv
<1>3. /\ w \in Workers /\ w \notin ToSet(idle) \cup ToSet(events) \cup attempts /\ ~ctl.boot
      /\ state # "starting"
      /\ \A q \in Requests : Holds(q) /\ held[q] = w => q = r
      /\ ctl.at \in {"spawn", "register", "await"} => ctl.w # w /\ w \notin ctl.pending
  BY <1>0, JobKnows
<1>4. /\ proc'[w] = "closed" /\ mail'[w] = None
      /\ \A v \in Workers : v # w => proc'[v] = proc[v] /\ mail'[v] = mail[v]
      /\ proc' \in [Workers -> {"unborn", "starting", "live", "dead", "closed"}]
      /\ mail' \in [Workers -> Requests \cup {None, "ready", "failed", "garbage"}]
  BY <1>3, Maps DEF Inv, Close
<1>5. proc[w] # "unborn"
  BY <1>0 DEF Inv, Births, Current
<1>6. \A v \in Workers : (proc[v] = "closed" => proc'[v] = "closed") /\ (proc[v] = "unborn" <=> proc'[v] = "unborn")
  BY <1>4, <1>5
<1>7. Types' /\ Phases' /\ Seats' /\ Numbered' /\ Covered'
  BY <1>0, <1>4, <1>6, GoesOnSafely, Maps DEF Inv, Seats
<1>8. Births'
  <2>1. \A v \in Workers : Current(v) => Current(v)'
    BY <1>6 DEF Current
  <2>2. \A q \in Requests : job'[q] \in {"pop", "schedule"} => held[q] \in Workers /\ proc'[held[q]] = "closed"
    BY <1>2, <1>4, <1>6, Members DEF Inv, Holds, Unfinished, Births
  <2>3. ctl.at \in {"rescue", "condemn", "sweep", "sweep-close"} /\ ~ctl.boot /\ ctl.w # Nobody =>
          ctl.w \in Workers
    BY CtlTyped DEF Inv
  <2>4. (ctl.at = "spawn" =>
            \A v \in Workers : v[1] = ctl.w[1] =>
                IF v[2] < ctl.w[2] THEN proc[v] = "closed" ELSE proc[v] = "unborn")'
    BY <1>6 DEF Inv, Births
  <2>5. (\A u, v \in Workers : u[1] = v[1] /\ u[2] < v[2] /\ proc[v] # "unborn" => proc[u] = "closed")'
    BY <1>6 DEF Inv, Births
  <2> QED BY <1>2, <1>3, <1>6, <2>1, <2>2, <2>3, <2>4, <2>5, Members DEF Inv, Births
<1>9. Known'
  <2>1. \A q \in Requests : Holds(q)' /\ q # r => held[q] # w /\ held[q] \in Workers /\ job'[q] = job[q]
    BY <1>2, <1>3, Members DEF Inv
  <2>2. \A v : Registered(v)' <=> Registered(v)
    BY DEF Registered
  <2>3. \A v \in ToSet(idle) : v # w /\ v \in Workers
    BY <1>3, Members DEF Inv
  <2>4. \A v \in attempts : v # w /\ v \in Workers
    BY <1>3, Members DEF Inv
  <2> QED BY <1>0, <1>2, <1>3, <1>4, <2>1, <2>2, <2>3, <2>4, Members DEF Inv, Known, Bringing, Holds, Unfinished
<1>10. Pipes'
  <2>1. ASSUME NEW q \in Requests, job'[q] \in {"queued", "polling"}
        PROVE  held[q] \in Workers /\ held[q] # w /\ job[q] = job'[q]
    BY <1>2, <1>3, <2>1, Members DEF Inv, Holds, Unfinished
  <2> QED BY <1>2, <1>3, <1>4, <1>6, <2>1, Members DEF Inv, Pipes, Clean, Young
<1> QED BY <1>7, <1>8, <1>9, <1>10 DEF Inv

\* The worker could not be stopped: the pool is given up.
LEMMA UnstoppedKeeps ==
    ASSUME Inv, NEW r \in Requests, Holds(r), Unstopped(r, held[r]),
           UNCHANGED <<closing, attempts, executor, proc, work, mail, fetch, clock, stale, ctl, shut>>
    PROVE  Inv'
<1> DEFINE w == held[r]
<1>1. /\ state' = "unavailable" /\ slots' = Put(w) /\ idle' = <<>> /\ events' = <<>>
      /\ JobEnds(r, "error")
  BY DEF Unstopped
<1>2. /\ job' \in [Requests -> Unfinished \cup {"none", "done", "cancelled"}]
      /\ held' \in [Requests -> Workers \cup {Nobody}]
      /\ answer' \in [Requests -> Requests \cup {None, "timeout", "error"}]
      /\ job'[r] = "done" /\ \A q \in Requests : q # r => job'[q] = job[q] /\ held'[q] = held[q]
      /\ \A q \in Requests : Holds(q)' <=> Holds(q) /\ q # r
      /\ Cardinality(Finished') = Cardinality(Finished) + 1
      /\ Cardinality(Finished) \in Nat
  BY <1>1, JobIsDone DEF Inv
<1>3. /\ w \in Workers /\ ~ctl.boot /\ state # "starting" /\ fetch[r] \notin {"new", "acquiring"}
      /\ ~(executor = "none" /\ shut.calls = 0)
  BY JobKnows
<1>4. slots' \in Seq(Workers) /\ Distinct(slots)'
  BY <1>1, <1>3, PutIn, Maps DEF Inv, Seats
<1>5. Types'
  BY <1>1, <1>2, <1>3, <1>4 DEF Inv, Types, TypeOK, Bringing
<1>6. Phases'
  BY <1>1, <1>2, <1>3 DEF Inv, Phases
<1>7. Seats'
  BY <1>1, <1>2, <1>4, NothingQueued DEF Inv, Seats, Bringing
<1>8. Births'
  <2>1. \A v : Current(v)' <=> Current(v)
    BY DEF Current
  <2> QED BY <1>1, <1>2, <2>1, NothingQueued DEF Inv, Births
<1>9. Numbered'
  <2>1. \A q \in Requests : Holds(q)' => held'[q][2] =< Cardinality(Finished) + 2
    <3>1. \A q \in Requests : Holds(q) => held[q][2] \in Nat /\ held[q][2] =< Cardinality(Finished) + 1
      BY Members DEF Inv, Numbered, Finished, Workers, Generations
    <3> QED BY <1>2, <3>1
  <2>2. Bringing => ctl.w[2] =< Cardinality(Finished) + 2
    <3>1. Bringing => ctl.w[2] \in Nat /\ ctl.w[2] =< Cardinality(Finished) + 1
      BY Members DEF Inv, Numbered, Finished, Workers, Generations, Bringing
    <3> QED BY <1>2, <3>1
  <2>3. Cardinality(Finished') + 1 = Cardinality(Finished) + 2 /\ (Bringing' <=> Bringing)
    BY <1>2 DEF Bringing
  <2> QED BY <1>1, <2>1, <2>2, <2>3, NothingQueued DEF Numbered, Finished
<1>10. Pipes'
  BY <1>1, <1>2, NothingQueued DEF Inv, Pipes, Clean, Young
<1>11. Known' /\ Covered'
  BY <1>1, <1>2, NothingQueued DEF Inv, Known, Covered, Bringing
<1> QED BY <1>5, <1>6, <1>7, <1>8, <1>9, <1>10, <1>11 DEF Inv

LEMMA RetireCloseKeeps ==
    ASSUME Inv, NEW r \in Requests, RetireClose(r)
    PROVE  Inv'
<1>1. /\ job[r] = "close" /\ Holds(r)
      /\ UNCHANGED <<closing, attempts, executor, work, fetch, clock, stale, ctl, shut>>
  BY DEF RetireClose, Holds, Unfinished, calls
<1>2. CASE /\ proc[held[r]] = "closed" /\ JobEnds(r, "error")
           /\ UNCHANGED <<state, slots, idle, events, proc, mail>>
  <2>1. state # "available"
    BY <1>1, <1>2 DEF Inv, Known
  <2>2. Types' /\ Phases' /\ Seats' /\ Births' /\ Numbered' /\ Known' /\ Covered'
    BY <1>1, <1>2, <2>1, EndsSafely, Maps DEF Inv
  <2>3. /\ job'[r] = "done"
        /\ \A q \in Requests : q # r => job'[q] = job[q] /\ held'[q] = held[q]
    BY <1>1, <1>2, JobIsDone DEF Inv
  <2>4. Pipes'
    BY <1>1, <1>2, <2>3 DEF Inv, Pipes, Clean, Young
  <2> QED BY <2>2, <2>4 DEF Inv
<1>3. CASE Close(held[r]) /\ JobStays(r, "pop") /\ UNCHANGED <<state, slots, idle, events>>
  BY <1>1, <1>3, JobClosesWorker
<1>4. CASE Unstopped(r, held[r]) /\ UNCHANGED <<proc, mail>>
  BY <1>1, <1>4, UnstoppedKeeps
<1> QED BY <1>2, <1>3, <1>4 DEF RetireClose

LEMMA RetirePopKeeps ==
    ASSUME Inv, NEW r \in Requests, RetirePop(r)
    PROVE  Inv'
<1> DEFINE w == held[r]
<1>1. /\ job[r] = "pop" /\ Holds(r) /\ slots' = Without(w) /\ JobStays(r, "schedule") /\ "schedule" \in Unfinished
      /\ UNCHANGED <<state, closing, idle, events, attempts, executor, proc, work, mail, fetch, clock,
                     stale, ctl, shut>>
  BY DEF RetirePop, Holds, Unfinished, workers, calls
<1>2. /\ job'[r] = "schedule" /\ UNCHANGED <<held, answer>>
      /\ \A q \in Requests : q # r => job'[q] = job[q]
      /\ \A q \in Requests : Holds(q)' <=> Holds(q)
  BY <1>1, JobGoesOn DEF Inv
<1>3. /\ w \in Workers /\ w \notin ToSet(idle) \cup ToSet(events) \cup attempts /\ ~ctl.boot
      /\ state # "starting"
      /\ \A q \in Requests : Holds(q) /\ held[q] = w => q = r
      /\ ctl.at \in {"spawn", "register", "await"} => ctl.w # w /\ w \notin ctl.pending
  BY <1>1, JobKnows
<1>4. slots' \in Seq(Workers) /\ Distinct(slots') /\ ToSet(slots') = ToSet(slots) \ {w}
  BY <1>1, <1>3, TakenOut, Maps DEF Inv, Seats
<1>5. Types' /\ Phases' /\ Seats' /\ Numbered' /\ Covered'
  BY <1>1, <1>4, GoesOnSafely, Maps DEF Inv
<1>6. Births'
  <2>1. \A v : Current(v)' <=> Current(v)
    BY <1>1 DEF Current
  <2> QED BY <1>1, <1>2, <1>3, <2>1 DEF Inv, Births
<1>7. Pipes'
  BY <1>1, <1>2, <1>3 DEF Inv, Pipes, Clean, Young
<1>8. Known'
  <2>1. \A v : Registered(v)' <=> Registered(v) /\ v # w
    BY <1>4 DEF Registered
  <2> QED BY <1>1, <1>2, <1>3, <2>1 DEF Inv, Known, Bringing
<1> QED BY <1>5, <1>6, <1>7, <1>8 DEF Inv

LEMMA ScheduleKeeps ==
    ASSUME Inv, NEW r \in Requests, Schedule(r)
    PROVE  Inv'
<1> DEFINE w == held[r]
<1>1. /\ job[r] = "schedule" /\ Holds(r) /\ JobEnds(r, "error")
      /\ UNCHANGED <<state, closing, slots, idle, executor, proc, work, mail, fetch, clock, stale, shut>>
  BY DEF Schedule, Holds, Unfinished, workers, calls
<1>2. /\ w \in Workers /\ w \notin ToSet(idle) \cup ToSet(events) \cup attempts /\ ~ctl.boot
      /\ state # "starting" /\ fetch[r] \notin {"new", "acquiring"}
      /\ ~(executor = "none" /\ shut.calls = 0)
      /\ \A q \in Requests : Holds(q) /\ held[q] = w => q = r
      /\ ctl.at \in {"spawn", "register", "await"} => ctl.w # w /\ w \notin ctl.pending
  BY <1>1, JobKnows
<1>3. CASE UNCHANGED <<events, attempts, ctl>> /\ state # "available"
  <2>1. Types' /\ Phases' /\ Seats' /\ Births' /\ Numbered' /\ Known' /\ Covered'
    BY <1>1, <1>3, EndsSafely, Maps DEF Inv
  <2>2. /\ job'[r] = "done"
        /\ \A q \in Requests : q # r => job'[q] = job[q] /\ held'[q] = held[q]
    BY <1>1, JobIsDone DEF Inv
  <2>3. Pipes'
    BY <1>1, <1>3, <2>2 DEF Inv, Pipes, Clean, Young
  <2> QED BY <2>1, <2>3 DEF Inv
<1>4. CASE /\ attempts' = {v \in attempts : v[1] # w[1]} \cup {w}
           /\ events' = Append(events, w)
           /\ ctl' = IF ctl.at = "none" THEN [Idle EXCEPT !.at = "loop"] ELSE ctl
           /\ state = "available"
  <2>1. /\ job' \in [Requests -> Unfinished \cup {"none", "done", "cancelled"}]
        /\ held' \in [Requests -> Workers \cup {Nobody}]
        /\ answer' \in [Requests -> Requests \cup {None, "timeout", "error"}]
        /\ job'[r] = "done" /\ \A q \in Requests : q # r => job'[q] = job[q] /\ held'[q] = held[q]
        /\ \A q \in Requests : Holds(q)' <=> Holds(q) /\ q # r
        /\ Cardinality(Finished') = Cardinality(Finished) + 1
        /\ Cardinality(Finished) \in Nat
    BY <1>1, JobIsDone DEF Inv
  <2>2. /\ \A v \in ToSet(idle) \cup ToSet(events) : v[1] # w[1]
        /\ Bringing => ctl.w[1] # w[1]
    BY <1>1 DEF Inv, Seats
  <2>3. /\ events' \in Seq(Workers) /\ Distinct(events') /\ ToSet(events') = ToSet(events) \cup {w}
        /\ events' # <<>>
    BY <1>2, <1>4, <2>2, Maps, Appended DEF Inv, Seats
  <2>4. /\ ctl' \in Ctls /\ ~ctl'.boot /\ ctl'.at # "none"
        /\ ctl' = ctl \/ ctl'.at = "loop"
    <3>1. "loop" \in CtlAts
      BY DEF CtlAts
    <3>2. ctl' = [Idle EXCEPT !.at = "loop"] => ctl' \in Ctls /\ ~ctl'.boot /\ ctl'.at = "loop"
      BY <3>1, Restarts DEF CtlIs
    <3> QED BY <1>2, <1>4, <3>2, CtlTyped DEF Inv
  <2>5. /\ Bringing' => Bringing /\ ctl' = ctl
        /\ ctl'.at \in {"spawn", "register", "await", "rescue", "condemn", "sweep", "sweep-close"} => ctl' = ctl
        /\ ctl.at \in {"spawn", "register", "await", "condemn"} => ctl' = ctl
    BY <1>4, <2>4 DEF Bringing
  <2>6. attempts' \subseteq Workers
    BY <1>2, <1>4, Members DEF Inv
  <2>7. Types'
    <3>1. TypeOK'
      <4>1. /\ ctl'.at \in CtlAts /\ ctl'.w \in Workers \cup {Nobody}
            /\ ctl'.pending \subseteq Workers /\ ctl'.todo \in Seq(Workers)
        BY <2>4 DEF Ctls
      <4>2. TypeOK /\ UNCHANGED <<state, closing, slots, idle, executor, proc, work, mail, fetch, clock, stale, shut>>
        BY <1>1 DEF Inv, Types
      <4>3. /\ job' \in [Requests -> Unfinished \cup {"none", "done", "cancelled"}]
            /\ held' \in [Requests -> Workers \cup {Nobody}]
            /\ answer' \in [Requests -> Requests \cup {None, "timeout", "error"}]
            /\ events' \in Seq(Workers)
        BY <2>1, <2>3
      <4> QED BY ONLY <4>1, <4>2, <4>3, <2>6 DEF TypeOK, CtlAts
    <3> QED BY ZenonT(40), <3>1, <1>1, <1>2, <2>1, <2>3, <2>4, <2>5 DEF Inv, Types, Ctls, CtlAts
  <2>8. Phases'
    BY <1>1, <1>2, <1>4, <2>1, <2>4, <2>5 DEF Inv, Phases
  <2>9. Seats'
    BY <1>1, <2>1, <2>2, <2>3, <2>5 DEF Inv, Seats
  <2>10. Births'
    <3>1. \A v : Current(v)' <=> Current(v)
      BY <1>1 DEF Current
    <3>2. Current(w) /\ proc[w] = "closed"
      BY <1>1 DEF Inv, Births
    <3> QED BY <1>1, <1>2, <2>1, <2>3, <2>5, <3>1, <3>2 DEF Inv, Births
  <2>11. Numbered'
    <3>1. /\ \A v \in ToSet(idle) : v[2] =< Cardinality(Finished) + 1
          /\ \A q \in Requests : Holds(q) => held[q][2] =< Cardinality(Finished) + 1
          /\ Bringing => ctl.w[2] =< Cardinality(Finished) + 1
          /\ \A v \in ToSet(events) : v[2] =< Cardinality(Finished)
      BY DEF Inv, Numbered, Finished
    <3>2. /\ \A v \in ToSet(idle) \cup ToSet(events) : v[2] \in Nat
          /\ \A q \in Requests : Holds(q) => held[q][2] \in Nat
          /\ Bringing => ctl.w[2] \in Nat
      BY Members DEF Inv, Workers, Generations, Bringing
    <3>3. \A v \in ToSet(idle) : v[2] =< Cardinality(Finished) + 2
      BY <2>1, <3>1, <3>2
    <3>4. \A q \in Requests : Holds(q)' => held'[q][2] =< Cardinality(Finished) + 2
      BY <2>1, <3>1, <3>2
    <3>5. Bringing' => ctl'.w[2] =< Cardinality(Finished) + 2
      BY <2>1, <2>5, <3>1, <3>2
    <3>6. \A v \in ToSet(events') : v[2] =< Cardinality(Finished) + 1
      BY <1>1, <2>1, <2>3, <3>1, <3>2
    <3>7. Cardinality(Finished') + 1 = Cardinality(Finished) + 2
      BY <2>1
    <3> QED BY <1>1, <2>1, <3>3, <3>4, <3>5, <3>6, <3>7 DEF Numbered, Finished
  <2>12. Pipes'
    BY <1>1, <1>2, <2>1, <2>5 DEF Inv, Pipes, Clean, Young
  <2>13. Known'
    <3>1. \A v : Registered(v)' <=> Registered(v)
      BY <1>1 DEF Registered
    <3>2. proc[w] = "closed" /\ (Bringing => ctl.w # w)
      BY <1>1, <1>2 DEF Inv, Births, Bringing
    <3>3. \A v \in attempts' : v \in attempts \/ v = w
      BY <1>4
    <3>4. \A v \in attempts' : /\ proc'[v] = "closed" /\ v \notin ToSet(idle')
                               /\ \A q \in Requests : Holds(q)' => held'[q] # v
                               /\ Bringing' => ctl'.w # v
      BY <1>1, <1>2, <2>1, <2>5, <3>2, <3>3 DEF Inv, Known
    <3>5. \A q \in Requests : Holds(q)' => Holds(q) /\ held'[q] = held[q] /\ job'[q] = job[q]
      BY <2>1
    <3>6. job'[r] = "done" /\ \A q \in Requests : q # r => job'[q] = job[q] /\ held'[q] = held[q]
      BY <2>1
    <3>7. \A v \in ToSet(idle') : Registered(v)'
      BY <1>1, <3>1 DEF Inv, Known
    <3>8. /\ \A q \in Requests : Holds(q)' /\ job'[q] # "schedule" => Registered(held'[q])
          /\ ~ctl'.boot /\ ctl'.at = "await" => Registered(ctl'.w) /\ proc[ctl'.w] # "closed"
          /\ \A v \in ToSet(idle) : proc[v] # "closed"
          /\ \A q \in Requests :
                job'[q] \in {"queued", "polling", "retire", "kill", "close"} => proc[held'[q]] # "closed"
          /\ ctl'.at = "register" => proc[ctl'.w] # "closed"
      BY <1>4, <2>5, <3>5, <3>6 DEF Inv, Known
    <3> QED BY <1>1, <1>2, <3>4, <3>7, <3>8 DEF Known, Registered
  <2>14. Covered'
    <3>1. \A i \in Indexes : Seated(i) => Seated(i)'
      BY <1>1, <2>1, <2>3, <2>5 DEF Seated
    <3> QED BY <1>1, <1>2, <2>4, <3>1 DEF Inv, Covered
  <2> QED BY <2>7, <2>8, <2>9, <2>10, <2>11, <2>12, <2>13, <2>14 DEF Inv
<1>5. state = "available" => ~closing /\ held[r] \notin attempts
  BY <1>2 DEF Inv, Phases
<1> QED BY <1>3, <1>4, <1>5 DEF Schedule

-----------------------------------------------------------------------------
(* A coroutine takes an idle worker.                                         *)

LEMMA AcquireKeeps ==
    ASSUME Inv, NEW r \in Requests, Acquire(r)
    PROVE  Inv'
<1>1. /\ fetch[r] = "acquiring" /\ job[r] = "none"
      /\ UNCHANGED <<state, closing, slots, events, attempts, executor, proc, work, mail, clock,
                     stale, answer, ctl, shut>>
  BY DEF Acquire, Inv, Types, workers
<1>2. ASSUME NEW l \in {"waiting", "done"}, FetchGoto(r, l)
      PROVE  /\ fetch' \in [Requests -> InFlight \cup {"new", "done"}]
             /\ fetch'[r] = l /\ \A q \in Requests : q # r => fetch'[q] = fetch[q]
  BY <1>2 DEF Inv, Types, TypeOK, FetchGoto, InFlight
<1>3. CASE UNCHANGED <<idle, job, held>> /\ FetchGoto(r, "done")
  <2>1. Types'
    BY <1>1, <1>2, <1>3 DEF Inv, Types, TypeOK, Bringing, Holds
  <2> QED BY <1>1, <1>3, <2>1, PhasesFrame, SeatsFrame, BirthsFrame, NumberedFrame, PipesFrame,
             KnownFrame, CoveredFrame DEF Inv, pool
<1> DEFINE w == Head(idle)
<1>4. CASE idle # <<>> /\ idle' = Tail(idle)
  <2>1. /\ w \in Workers /\ Tail(idle) \in Seq(Workers)
        /\ ToSet(idle) = ToSet(idle') \cup {w}
        /\ Distinct(idle') /\ \A v \in ToSet(idle') : v[1] # w[1]
    BY <1>4, Maps, Dequeued DEF Inv, Seats
  <2>2. idle' \in Seq(Workers) /\ w \in ToSet(idle) /\ ToSet(idle') \subseteq ToSet(idle)
    BY <1>4, <2>1
  <2>3. /\ state = "available" \/ (shut.at = "join" /\ shut.calls # 0)
        /\ ~(executor = "none" /\ shut.calls = 0) /\ ~ctl.boot
        /\ ctl.at \notin {"sweep", "sweep-close"} /\ state # "starting"
    <3>1. Phases
      BY DEF Inv
    <3>2. ~ctl.boot /\ state # "starting"
      BY <1>4, <3>1 DEF Phases
    <3>3. ctl.at \notin {"sweep", "sweep-close"}
      BY <1>4, <3>1 DEF Phases
    <3>4. ~(executor = "none" /\ shut.calls = 0)
      BY <1>4, <3>1 DEF Phases
    <3>5. state = "available" \/ (shut.at = "join" /\ shut.calls # 0)
      BY <1>4, <3>1 DEF Phases
    <3> QED BY <3>2, <3>3, <3>4, <3>5
  <2> HIDE DEF w
  <2>4. CASE executor = "up"
    <3>1. /\ job' = [job EXCEPT ![r] = "queued"] /\ held' = [held EXCEPT ![r] = w] /\ FetchGoto(r, "waiting")
      BY <1>1, <1>4, <2>4 DEF Acquire, w
    <3>2. /\ job' \in [Requests -> Unfinished \cup {"none", "done", "cancelled"}]
          /\ held' \in [Requests -> Workers \cup {Nobody}]
          /\ job'[r] = "queued" /\ held'[r] = w
          /\ \A q \in Requests : q # r => job'[q] = job[q] /\ held'[q] = held[q]
      BY <2>1, <3>1, Maps DEF Inv, Unfinished
    <3>3. /\ \A q \in Requests : (Holds(q)' <=> Holds(q) \/ q = r) /\ (Holds(q) => q # r)
          /\ Finished' = Finished
      BY <1>1, <3>2 DEF Holds, Unfinished, Finished
    <3>4. Types'
      BY <1>1, <1>2, <2>1, <2>2, <3>1, <3>2, <3>3 DEF Inv, Types, TypeOK, Bringing
    <3>5. Phases'
      BY <1>1, <1>4, <2>2, <2>3, <3>2 DEF Inv, Phases
    <3>6. Seats'
      BY <1>1, <2>1, <2>2, <3>2, <3>3 DEF Inv, Seats, Bringing
    <3>7. Births'
      <4>1. \A v : Current(v)' <=> Current(v)
        BY <1>1 DEF Current
      <4> QED BY <1>1, <2>2, <3>2, <3>3, <4>1 DEF Inv, Births
    <3>8. Numbered'
      BY <1>1, <2>2, <3>2, <3>3 DEF Inv, Numbered, Bringing, Finished
    <3>9. Pipes'
      BY <1>1, <2>2, <3>2 DEF Inv, Pipes, Clean, Young
    <3>10. Known'
      <4>1. \A v : Registered(v)' <=> Registered(v)
        BY <1>1 DEF Registered
      <4>2. \A v \in attempts : v # w
        BY <2>2 DEF Inv, Known
      <4>3. Bringing => ctl.w # w
        BY <2>2 DEF Inv, Seats
      <4>4. state = "available" => proc[w] # "closed" /\ Registered(w)
        BY <2>2 DEF Inv, Known
      <4> QED BY <1>1, <2>2, <3>2, <3>3, <4>1, <4>2, <4>3, <4>4 DEF Inv, Known, Bringing
    <3>11. Covered'
      <4>1. \A i \in Indexes : Seated(i) => Seated(i)'
        BY <1>1, <2>1, <3>2, <3>3 DEF Seated
      <4> QED BY <1>1, <2>3, <4>1 DEF Inv, Covered
    <3> QED BY <3>4, <3>5, <3>6, <3>7, <3>8, <3>9, <3>10, <3>11 DEF Inv
  <2>5. CASE executor # "up"
    <3>1. UNCHANGED <<job, held>> /\ FetchGoto(r, "done")
      BY <1>1, <1>4, <2>5 DEF Acquire, StopsWaiting
    <3>2. state # "available"
      BY <2>5 DEF Inv, Phases
    <3>3. Types'
      BY <1>1, <1>2, <2>1, <2>2, <3>1 DEF Inv, Types, TypeOK, Bringing, Holds
    <3>4. Phases'
      BY <1>1, <1>4, <2>2, <2>3, <3>1 DEF Inv, Phases
    <3>5. Seats'
      BY <1>1, <2>1, <2>2, <3>1 DEF Inv, Seats, Holds, Bringing
    <3>6. Births'
      BY <1>1, <2>2, <3>1 DEF Inv, Births, Holds, Current
    <3>7. Numbered'
      BY <1>1, <2>2, <3>1 DEF Inv, Numbered, Holds, Bringing
    <3>8. Pipes'
      BY <1>1, <2>2, <3>1 DEF Inv, Pipes, Clean, Young
    <3>9. Known'
      BY <1>1, <2>2, <2>3, <3>1, <3>2 DEF Inv, Known, Holds, Registered, Bringing
    <3>10. Covered'
      BY <1>1, <2>3, <3>1, <3>2 DEF Inv, Covered
    <3> QED BY <3>3, <3>4, <3>5, <3>6, <3>7, <3>8, <3>9, <3>10 DEF Inv
  <2> QED BY <2>4, <2>5
<1> QED BY <1>3, <1>4 DEF Acquire
-----------------------------------------------------------------------------
(* The controller.                                                           *)

\* A worker's process, pipe and work may be ended and closed, and are not begun.
Fades ==
    /\ proc' \in [Workers -> {"unborn", "starting", "live", "dead", "closed"}]
    /\ work' \in [Workers -> Requests \cup {None}]
    /\ mail' \in [Workers -> Requests \cup {None, "ready", "failed", "garbage"}]
    /\ \A v \in Workers :
          /\ \/ proc'[v] = proc[v]
             \/ proc[v] \notin {"unborn", "closed"} /\ proc'[v] \in {"dead", "closed"}
          /\ work'[v] \in {work[v], None} /\ mail'[v] \in {mail[v], None}

LEMMA FadesSafely ==
    ASSUME Inv, Fades
    PROVE  /\ \A v \in Workers : /\ proc'[v] = "unborn" <=> proc[v] = "unborn"
                                 /\ proc[v] = "closed" => proc'[v] = "closed"
                                 /\ Current(v) => Current(v)'
                                 /\ Clean(v) => Clean(v)'
           /\ (\A u, v \in Workers : u[1] = v[1] /\ u[2] < v[2] /\ proc[v] # "unborn" => proc[u] = "closed")'
           /\ \A v \in Workers : proc'[v] = "unborn" => work'[v] = None /\ mail'[v] = None
<1>1. \A v \in Workers : /\ proc'[v] = "unborn" <=> proc[v] = "unborn"
                         /\ proc[v] = "closed" => proc'[v] = "closed"
                         /\ proc'[v] = "starting" => proc[v] = "starting"
  BY DEF Fades
<1>2. \A v \in Workers : Current(v) => Current(v)'
  BY <1>1 DEF Current
<1>3. \A v \in Workers : Clean(v) => Clean(v)'
  BY <1>1 DEF Clean, Fades
<1>4. (\A u, v \in Workers : u[1] = v[1] /\ u[2] < v[2] /\ proc[v] # "unborn" => proc[u] = "closed")'
  BY <1>1 DEF Inv, Births
<1>5. \A v \in Workers : proc'[v] = "unborn" => work'[v] = None /\ mail'[v] = None
  BY <1>1 DEF Inv, Pipes, Fades
<1> QED BY <1>1, <1>2, <1>3, <1>4, <1>5

\* What the controller does to a pool that is neither available nor starting.
LEMMA GivenUp ==
    ASSUME Inv, ctl.at # "none", state \notin {"available", "starting"}, Fades,
           UNCHANGED <<state, closing, idle, events, attempts, executor, fetch, clock, stale, job, held,
                       answer, shut>>,
           slots' \in Seq(Workers), Distinct(slots)', slots' = slots \/ idle = <<>>,
           ctl' \in Ctls, ctl'.at \in {"none", "exit", "condemn", "sweep", "sweep-close", "rescue"},
           ctl'.boot => ctl.boot,
           ctl'.at \in {"none", "rescue"} => ~ctl'.boot,
           ctl'.at = "rescue" => ctl'.w \in Workers,
           ctl'.at \in {"sweep", "sweep-close"} => idle = <<>>,
           ctl'.at = "sweep-close" => ctl'.todo # <<>>,
           ctl'.at # "exit" /\ ~ctl'.boot /\ ctl'.w # Nobody => ctl'.w \in Workers /\ proc[ctl'.w] # "unborn"
    PROVE  Inv'
<1>1. /\ \A v \in Workers : /\ proc'[v] = "unborn" <=> proc[v] = "unborn"
                            /\ proc[v] = "closed" => proc'[v] = "closed"
                            /\ Current(v) => Current(v)'
                            /\ Clean(v) => Clean(v)'
      /\ (\A u, v \in Workers : u[1] = v[1] /\ u[2] < v[2] /\ proc[v] # "unborn" => proc[u] = "closed")'
      /\ \A v \in Workers : proc'[v] = "unborn" => work'[v] = None /\ mail'[v] = None
  BY FadesSafely
<1>2. ~(executor = "none" /\ shut.calls = 0)
  BY DEF Inv, Phases
<1>3. ~Bringing'
  BY DEF Bringing
<1>4. Types'
  BY <1>3 DEF Inv, Types, TypeOK, Ctls, CtlAts, Fades, Holds
<1>5. Phases'
  BY <1>1, <1>2 DEF Inv, Phases
<1>6. Seats'
  BY <1>3 DEF Inv, Seats, Holds
<1>7. Births'
  <2>1. \A v \in ToSet(idle) \cup ToSet(events) : v \in Workers
    BY Members DEF Inv
  <2>2. \A r \in Requests : Holds(r) => held[r] \in Workers
    BY Members DEF Inv
  <2>3. \A r \in Requests : job[r] \in {"pop", "schedule"} => Holds(r)
    BY DEF Holds, Unfinished
  <2>4. \A r \in Requests : Holds(r)' <=> Holds(r)
    BY DEF Holds
  <2> QED BY <1>1, <2>1, <2>2, <2>3, <2>4 DEF Inv, Births
<1>8. Numbered'
  BY <1>3 DEF Inv, Numbered, Holds
<1>9. Pipes'
  <2>1. \A v \in ToSet(idle) : Clean(v)'
    BY <1>1, Members DEF Inv, Pipes
  <2>2. \A r \in Requests : job[r] = "queued" => held[r] \in Workers /\ Clean(held[r])
    BY Members DEF Inv, Pipes, Holds, Unfinished
  <2>3. ASSUME NEW r \in Requests, job[r] = "polling"
        PROVE  /\ proc'[held[r]] # "starting"
               /\ mail'[held[r]] \in {None, r, "garbage"} /\ work'[held[r]] \in {None, r}
               /\ work'[held[r]] = r => mail'[held[r]] = None
    <3>1. held[r] \in Workers
      BY <2>3, Members DEF Inv, Holds, Unfinished
    <3> QED BY <2>3, <3>1 DEF Inv, Pipes, Fades
  <2> QED BY <1>1, <2>1, <2>2, <2>3 DEF Pipes
<1>10. Known'
  <2>1. \A v \in ToSet(idle) : Registered(v)'
    BY NothingQueued DEF Inv, Known, Registered
  <2> QED BY <1>1, <1>3, <2>1, Members DEF Inv, Known, Holds
<1>11. Covered'
  BY DEF Inv, Covered
<1> QED BY <1>4, <1>5, <1>6, <1>7, <1>8, <1>9, <1>10, <1>11 DEF Inv

LEMMA NothingFades ==
    ASSUME Types, UNCHANGED <<proc, work, mail>>
    PROVE  Fades
BY Maps DEF Fades

LEMMA EndFades ==
    ASSUME Types, NEW w \in Workers, Kill(w), UNCHANGED mail
    PROVE  Fades
<1>1. Ends(w) \/ UNCHANGED <<proc, work>>
  BY Killed
<1>2. CASE UNCHANGED <<proc, work>>
  BY <1>2, Maps DEF Fades
<1>3. CASE Ends(w)
  <2>1. /\ proc' = [proc EXCEPT ![w] = "dead"] /\ proc[w] \notin {"unborn", "closed"}
        /\ work' = [work EXCEPT ![w] = None]
    BY <1>3 DEF Ends, Alive
  <2> QED BY <2>1, Maps DEF Fades
<1> QED BY <1>1, <1>2, <1>3

LEMMA CloseFades ==
    ASSUME Types, NEW w \in Workers, proc[w] # "unborn", Close(w),
           UNCHANGED work \/ work' = [work EXCEPT ![w] = None]
    PROVE  Fades
BY Maps DEF Close, Fades

LEMMA CtlSweepKeeps ==
    ASSUME Inv, CtlSweep
    PROVE  Inv'
<1>1. /\ ctl.at = "sweep" /\ state \notin {"available", "starting"} /\ idle = <<>>
      /\ UNCHANGED <<state, closing, slots, idle, events, attempts, executor, mail, fetch, clock, stale,
                     job, held, answer, shut>>
  BY DEF CtlSweep, Inv, Phases, pool, calls, jobs
<1>2. Fades /\ ctl' \in Ctls /\ ctl'.boot = ctl.boot /\ ctl'.w = ctl.w /\ ctl'.todo = ctl.todo
      /\ (ctl'.at = "exit" \/ (ctl'.at = "sweep-close" /\ ctl.todo # <<>>))
  <2>1. CASE UNCHANGED <<proc, work>> /\ CtlIs("exit", ctl.boot, ctl.w, ctl.pending, ctl.todo)
    BY <1>1, <2>1, NothingFades DEF CtlIs, Inv
  <2>2. CASE /\ ctl.todo # <<>> /\ Head(ctl.todo) \in Workers /\ Kill(Head(ctl.todo))
             /\ CtlIs("sweep-close", ctl.boot, ctl.w, ctl.pending, ctl.todo)
    BY <1>1, <2>2, EndFades DEF CtlIs, Inv
  <2> QED BY <2>1, <2>2, SweepIs DEF Inv
<1>3. ~ctl.boot /\ ctl.w # Nobody => ctl.w \in Workers /\ proc[ctl.w] # "unborn"
  BY <1>1, CtlTyped DEF Inv, Births
<1> QED BY <1>1, <1>2, <1>3, GivenUp, Maps DEF Inv, Seats

LEMMA CtlSweepCloseKeeps ==
    ASSUME Inv, CtlSweepClose
    PROVE  Inv'
<1>1. /\ ctl.at = "sweep-close" /\ state \notin {"available", "starting"} /\ idle = <<>>
      /\ UNCHANGED <<state, closing, idle, events, attempts, executor, work, fetch, clock, stale,
                     job, held, answer, shut>>
  BY DEF CtlSweepClose, Inv, Phases, calls, jobs
<1>2. /\ Fades /\ slots' \in Seq(Workers) /\ Distinct(slots)'
      /\ ctl' \in Ctls /\ ctl'.boot = ctl.boot /\ ctl'.w \in {ctl.w, Nobody}
      /\ ctl'.at \in {"exit", "condemn", "sweep", "rescue"}
      /\ ctl'.at = "rescue" => ctl'.w = ctl.w /\ ctl.w # Nobody /\ ~ctl.boot
  <2>0. slots \in Seq(Workers) /\ Distinct(slots)
    BY Maps DEF Inv, Seats
  <2>1. CASE /\ UNCHANGED <<proc, mail, slots>>
             /\ \/ CtlIs("exit", ctl.boot, ctl.w, ctl.pending, ctl.todo)
                \/ CtlIs("condemn", ctl.boot, Nobody, ctl.pending, ctl.todo)
                \/ /\ ctl.w # Nobody /\ ~ctl.boot
                   /\ CtlIs("rescue", ctl.boot, ctl.w, ctl.pending, ctl.todo)
    BY <1>1, <2>0, <2>1, NothingFades DEF CtlIs, Inv
  <2>2. CASE /\ Head(ctl.todo) \in Workers
             /\ proc[Head(ctl.todo)] = "dead" /\ Close(Head(ctl.todo)) /\ UNCHANGED slots
             /\ CtlIs("sweep", ctl.boot, ctl.w, ctl.pending, Tail(ctl.todo))
    BY <1>1, <2>0, <2>2, CloseFades DEF CtlIs, Inv
  <2>3. CASE /\ Head(ctl.todo) \in Workers
             /\ slots' = Put(Head(ctl.todo)) /\ UNCHANGED <<proc, mail>>
             /\ CtlIs("sweep", ctl.boot, ctl.w, ctl.pending, Tail(ctl.todo))
    BY <1>1, <2>0, <2>3, NothingFades, PutIn DEF CtlIs, Inv
  <2> QED BY <2>1, <2>2, <2>3, SweepCloseIs DEF Inv
<1>3. ~ctl.boot /\ ctl.w # Nobody => ctl.w \in Workers /\ proc[ctl.w] # "unborn"
  BY <1>1, CtlTyped DEF Inv, Births
<1> QED BY <1>1, <1>2, <1>3, GivenUp

LEMMA CtlRescueKeeps ==
    ASSUME Inv, CtlRescue
    PROVE  Inv'
<1>1. /\ ctl.at = "rescue" /\ state \notin {"available", "starting"} /\ ~ctl.boot
      /\ UNCHANGED <<state, closing, slots, idle, events, attempts, executor, fetch, clock, stale,
                     job, held, answer, shut>>
  BY DEF CtlRescue, Inv, Phases, Types, pool, calls, jobs
<1>2. /\ ctl.w \in Workers /\ ctl.w # Nobody /\ proc[ctl.w] # "unborn"
  <2>1. ctl.w \in Workers
    BY RescueIs DEF Inv
  <2>2. ctl.w # Nobody
    BY <2>1 DEF Nobody, Workers, Indexes
  <2> QED BY <1>1, <2>1, <2>2 DEF Inv, Births
<1>3. /\ Fades /\ ctl' \in Ctls /\ ~ctl'.boot
      /\ ctl'.at = "exit" \/ (ctl'.at = "condemn" /\ ctl'.w = Nobody)
  <2>1. CASE UNCHANGED workers /\ CtlIs("exit", ctl.boot, ctl.w, ctl.pending, ctl.todo)
    BY <1>1, <2>1, NothingFades DEF CtlIs, Inv, workers
  <2>2. CASE /\ Close(ctl.w) /\ work' = [work EXCEPT ![ctl.w] = None]
             /\ CtlIs("condemn", ctl.boot, Nobody, ctl.pending, ctl.todo)
    <3>1. Fades
      BY <1>2, <2>2, CloseFades DEF Inv
    <3> QED BY <1>1, <2>2, <3>1 DEF CtlIs
  <2> QED BY <2>1, <2>2, RescueIs DEF Inv
<1>4. slots' \in Seq(Workers) /\ Distinct(slots)'
  BY <1>1, Maps DEF Inv, Seats
<1> QED BY <1>1, <1>3, <1>4, GivenUp

LEMMA CtlGivesUpKeeps ==
    ASSUME Inv, CtlGivesUp
    PROVE  Inv'
<1>1. /\ ctl.at = "await"
      /\ UNCHANGED <<state, closing, slots, idle, events, attempts, executor, proc, work, mail,
                     fetch, clock, stale, job, held, answer, shut>>
  BY DEF CtlGivesUp, pool, workers, calls, jobs
<1>2. /\ ctl' \in Ctls /\ ctl'.at = "condemn" /\ ctl'.boot = ctl.boot /\ ctl'.w = ctl.w
      /\ ctl'.pending = ctl.pending
  <2>1. "condemn" \in CtlAts
    BY DEF CtlAts
  <2> QED BY <2>1, Goes DEF Inv, CtlGivesUp, CtlIs
<1>3. ~Bringing'
  BY <1>2 DEF Bringing
<1>4. Types'
  BY <1>1, <1>2, <1>3 DEF Inv, Types, TypeOK, Ctls, CtlAts, Holds
<1>5. Phases'
  BY <1>1, <1>2 DEF Inv, Phases
<1>6. Seats' /\ Numbered'
  BY <1>1, <1>3 DEF Inv, Seats, Numbered, Holds
<1>7. Births'
  BY <1>1, <1>2 DEF Inv, Births, Holds, Current
<1>8. Pipes' /\ Known'
  <2>1. Pipes'
    BY <1>1, <1>2 DEF Inv, Pipes, Clean, Young
  <2>2. Known'
    BY <1>1, <1>2, <1>3 DEF Inv, Known, Holds, Registered
  <2> QED BY <2>1, <2>2
<1>9. Covered'
  BY <1>1, <1>2 DEF Inv, Covered, Seated
<1> QED BY <1>4, <1>5, <1>6, <1>7, <1>8, <1>9 DEF Inv

LEMMA CtlReadyKeeps ==
    ASSUME Inv, CtlReady
    PROVE  Inv'
<1>1. /\ ctl.at = "await"
      /\ UNCHANGED <<state, closing, slots, idle, events, attempts, executor, proc, work,
                     fetch, clock, stale, job, held, answer, shut>>
  BY DEF CtlReady, pool, calls, jobs
<1>2. PICK w \in ctl.pending :
         /\ w \in Workers /\ mail[w] = "ready" /\ mail' = [mail EXCEPT ![w] = None]
         /\ CtlIs("await", ctl.boot, ctl.w, ctl.pending \ {w}, ctl.todo)
  BY ReadyIs DEF Inv
<1>3. /\ ctl' \in Ctls /\ ctl'.at = ctl.at /\ ctl'.boot = ctl.boot /\ ctl'.w = ctl.w
      /\ ctl'.pending = ctl.pending \ {w} /\ ctl'.todo = ctl.todo
  BY <1>1, <1>2 DEF CtlIs
<1>4. /\ mail' \in [Workers -> Requests \cup {None, "ready", "failed", "garbage"}]
      /\ mail'[w] = None /\ \A v \in Workers : v # w => mail'[v] = mail[v]
  BY <1>2, Maps DEF Inv
<1>5. Bringing' <=> Bringing
  BY <1>3 DEF Bringing
<1>6. Types'
  BY <1>1, <1>3, <1>4, <1>5 DEF Inv, Types, TypeOK, Ctls, CtlAts, Holds
<1>7. Phases'
  BY <1>1, <1>3 DEF Inv, Phases
<1>8. Seats' /\ Numbered'
  BY <1>1, <1>3, <1>5 DEF Inv, Seats, Numbered, Holds
<1>9. Births'
  BY <1>1, <1>3 DEF Inv, Births, Holds, Current
<1>10. Known'
  BY <1>1, <1>3, <1>5 DEF Inv, Known, Holds, Registered
<1>11. Covered'
  BY <1>1, <1>3 DEF Inv, Covered, Seated, Holds
<1>12. Pipes'
  <2>1. Clean(w)' /\ \A v \in Workers : (Clean(v) => Clean(v)') /\ (Young(v) => Young(v)')
    <3>1. Young(w)
      BY <1>1, <1>2 DEF Inv, Pipes
    <3>2. Clean(w)'
      BY <1>1, <1>2, <1>4, <3>1 DEF Young, Clean, None
    <3>3. ASSUME NEW v \in Workers PROVE (Clean(v) => Clean(v)') /\ (Young(v) => Young(v)')
      BY <1>1, <1>2, <1>4 DEF Young, Clean
    <3> QED BY <3>2, <3>3
  <2>2. \A v \in ToSet(idle) : Clean(v)'
    BY <2>1, Members DEF Inv, Pipes
  <2>3. \A r \in Requests : job[r] = "queued" => held[r] \in Workers /\ Clean(held[r])
    BY Members DEF Inv, Pipes, Holds, Unfinished
  <2>4. ASSUME NEW r \in Requests, job[r] = "polling"
        PROVE  /\ mail'[held[r]] \in {None, r, "garbage"} /\ work[held[r]] \in {None, r}
               /\ work[held[r]] = r => mail'[held[r]] = None
    <3>1. held[r] \in Workers
      BY <2>4, Members DEF Inv, Holds, Unfinished
    <3> QED BY <1>4, <2>4, <3>1 DEF Inv, Pipes
  <2>5. \A v \in ctl'.pending : Young(v)'
    BY <1>1, <1>3, <2>1, Members DEF Inv, Pipes
  <2>6. ~ctl'.boot /\ ctl'.w \notin ctl'.pending => ctl.w \in Workers /\ Clean(ctl.w)'
    BY <1>1, <1>3, <2>1, Members DEF Inv, Pipes
  <2>7. state = "starting" => \A v \in ToSet(slots) \ ctl'.pending : Clean(v)'
    BY <1>1, <1>3, <2>1, Members DEF Inv, Pipes
  <2>8. \A v \in Workers : proc[v] = "unborn" => work[v] = None /\ mail'[v] = None
    BY <1>4 DEF Inv, Pipes
  <2> QED BY <1>1, <1>3, <2>1, <2>2, <2>3, <2>4, <2>5, <2>6, <2>7, <2>8 DEF Inv, Pipes, Clean
<1> QED BY <1>6, <1>7, <1>8, <1>9, <1>10, <1>11, <1>12 DEF Inv

LEMMA CtlExitKeeps ==
    ASSUME Inv, CtlExit
    PROVE  Inv'
<1>1. /\ ctl.at = "exit" /\ state # "starting" /\ ~(executor = "none" /\ shut.calls = 0)
      /\ UNCHANGED <<state, closing, slots, idle, events, attempts, executor, proc, work, mail,
                     fetch, clock, stale, job, held, answer, shut>>
  BY DEF CtlExit, pool, workers, calls, jobs, Inv, Phases
<1>2. ctl' \in Ctls /\ ~ctl'.boot /\ ctl'.at \in {"none", "loop"} /\ ctl'.pending = {}
  BY ExitIs DEF CtlIs
<1>3. state = "available" /\ events # <<>> => ctl'.at = "loop"
  <2>1. state = "available" => ~ctl.boot /\ ~closing
    BY DEF Inv, Phases
  <2> QED BY <2>1, ExitIs DEF CtlIs, MustGoOn
<1>4. ~Bringing'
  BY <1>2 DEF Bringing
<1>5. Types'
  BY <1>1, <1>2, <1>4 DEF Inv, Types, TypeOK, Ctls, CtlAts, Holds
<1>6. Phases'
  BY <1>1, <1>2 DEF Inv, Phases
<1>7. Seats' /\ Numbered'
  BY <1>1, <1>4 DEF Inv, Seats, Numbered, Holds
<1>8. Births'
  BY <1>1, <1>2 DEF Inv, Births, Holds, Current
<1>9. Pipes' /\ Known'
  BY <1>1, <1>2, <1>4 DEF Inv, Pipes, Known, Clean, Young, Holds, Registered
<1>10. Covered'
  BY <1>1, <1>2, <1>3 DEF Inv, Covered, Seated, Holds
<1> QED BY <1>5, <1>6, <1>7, <1>8, <1>9, <1>10 DEF Inv

LEMMA CtlCondemnKeeps ==
    ASSUME Inv, CtlCondemn
    PROVE  Inv'
<1>1. /\ ctl.at = "condemn" /\ ~(executor = "none" /\ shut.calls = 0)
      /\ UNCHANGED <<executor, proc, work, mail, fetch, clock, stale, job, held, answer, shut>>
  BY DEF CtlCondemn, workers, calls, jobs, Inv, Phases
<1>2. CASE state = "closing" /\ UNCHANGED pool /\ CtlIs("exit", ctl.boot, ctl.w, ctl.pending, ctl.todo)
  <2>1. Fades /\ slots' \in Seq(Workers) /\ Distinct(slots)'
    BY <1>1, <1>2, NothingFades, Maps DEF Inv, Seats, pool
  <2> QED BY <1>1, <1>2, <2>1, GivenUp DEF CtlIs, pool
<1>3. CASE /\ state # "closing" /\ state' = "unavailable"
           /\ slots' = <<>> /\ idle' = <<>> /\ events' = <<>> /\ UNCHANGED <<closing, attempts>>
           /\ CtlIs("sweep", ctl.boot, ctl.w, ctl.pending, slots)
  <2>1. ctl' \in Ctls /\ ctl'.at = "sweep" /\ ctl'.boot = ctl.boot /\ ctl'.w = ctl.w
    BY <1>3 DEF CtlIs
  <2>2. ~Bringing'
    BY <2>1 DEF Bringing
  <2>3. Types'
    BY <1>1, <1>3, <2>1, <2>2 DEF Inv, Types, TypeOK, Ctls, CtlAts, Holds
  <2>4. Phases'
    BY <1>1, <1>3, <2>1 DEF Inv, Phases
  <2>5. Seats' /\ Numbered'
    BY <1>1, <1>3, <2>2, NothingQueued DEF Inv, Seats, Numbered, Holds
  <2>6. Births'
    BY <1>1, <1>3, <2>1, NothingQueued DEF Inv, Births, Holds, Current
  <2>7. Pipes' /\ Known'
    BY <1>1, <1>3, <2>1, <2>2, NothingQueued DEF Inv, Pipes, Known, Clean, Young, Holds, Registered
  <2>8. Covered'
    BY <1>3 DEF Covered
  <2> QED BY <2>3, <2>4, <2>5, <2>6, <2>7, <2>8 DEF Inv
<1> QED BY <1>2, <1>3, CondemnIs DEF Inv

LEMMA CtlLoopKeeps ==
    ASSUME Inv, CtlLoop
    PROVE  Inv'
<1>1. /\ ctl.at = "loop" /\ ~ctl.boot /\ state # "starting" /\ ~(executor = "none" /\ shut.calls = 0)
      /\ UNCHANGED <<state, closing, slots, idle, attempts, executor, proc, work, mail,
                     fetch, clock, stale, job, held, answer, shut>>
  BY DEF CtlLoop, workers, calls, jobs, Inv, Phases, Types
<1>2. CASE /\ UNCHANGED events /\ CtlIs("exit", FALSE, ctl.w, ctl.pending, ctl.todo)
           /\ (closing \/ events = <<>>)
  <2>1. ctl' \in Ctls /\ ctl'.at = "exit" /\ ~ctl'.boot
    BY <1>2 DEF CtlIs
  <2>2. ~Bringing'
    BY <2>1 DEF Bringing
  <2>3. Types'
    BY <1>1, <1>2, <2>1, <2>2 DEF Inv, Types, TypeOK, Ctls, CtlAts, Holds
  <2>4. Phases'
    BY <1>1, <1>2, <2>1 DEF Inv, Phases
  <2>5. Seats' /\ Numbered'
    BY <1>1, <1>2, <2>2 DEF Inv, Seats, Numbered, Holds
  <2>6. Births'
    BY <1>1, <1>2, <2>1 DEF Inv, Births, Holds, Current
  <2>7. Pipes' /\ Known'
    BY <1>1, <1>2, <2>1, <2>2 DEF Inv, Pipes, Known, Clean, Young, Holds, Registered
  <2>8. Covered'
    BY <1>1, <1>2, <2>1 DEF Inv, Covered, Seated, Holds
  <2> QED BY <2>3, <2>4, <2>5, <2>6, <2>7, <2>8 DEF Inv
<1> DEFINE e == Head(events)
           x == <<e[1], e[2] + 1>>
<1>3. CASE /\ events # <<>> /\ events' = Tail(events) /\ ~closing
           /\ e \in Workers /\ x \in Workers
           /\ CtlIs("spawn", FALSE, x, {}, <<>>)
  <2>1. /\ events' \in Seq(Workers) /\ ToSet(events) = ToSet(events') \cup {e}
        /\ Distinct(events') /\ \A v \in ToSet(events') : v[1] # e[1]
    BY <1>3, Maps, Dequeued DEF Inv, Seats
  <2>2. e \in ToSet(events) /\ ToSet(events') \subseteq ToSet(events)
    BY <2>1
  <2>3. e[1] \in Indexes /\ e[2] \in Nat /\ x[1] = e[1] /\ x[2] = e[2] + 1
    BY <1>3 DEF Workers, Generations
  <2>4. x \in Workers /\ events # <<>>
    BY <1>3
  <2> HIDE DEF e, x
  <2>5. ctl' \in Ctls /\ ctl'.at = "spawn" /\ ~ctl'.boot /\ ctl'.w = x /\ ctl'.pending = {}
    BY <1>3 DEF CtlIs
  <2>6. Bringing' /\ ~Bringing
    BY <1>1, <2>5 DEF Bringing
  <2>7. Types'
    BY <1>1, <2>1, <2>4, <2>5 DEF Inv, Types, TypeOK, Ctls, CtlAts, Holds, Bringing
  <2>8. Phases'
    BY <1>1, <2>5 DEF Inv, Phases
  <2>9. Seats'
    <3>1. \A v \in ToSet(idle) : v[1] # e[1]
      BY <2>2 DEF Inv, Seats
    <3>2. \A r \in Requests : Holds(r) => held[r][1] # e[1]
      BY <2>2 DEF Inv, Seats
    <3> QED BY <1>1, <2>1, <2>2, <2>3, <2>5, <3>1, <3>2 DEF Inv, Seats, Holds
  <2>10. Current(e) /\ proc[e] = "closed"
    BY <2>2 DEF Inv, Births
  <2>11. \A v \in Workers : v[1] = x[1] => IF v[2] < x[2] THEN proc[v] = "closed" ELSE proc[v] = "unborn"
    <3> SUFFICES ASSUME NEW v \in Workers, v[1] = e[1]
                 PROVE  IF v[2] < e[2] + 1 THEN proc[v] = "closed" ELSE proc[v] = "unborn"
      BY <2>3
    <3>1. v[2] \in Nat
      BY DEF Workers, Generations
    <3>2. CASE v[2] < e[2]
      BY <1>3, <2>3, <2>10, <3>1, <3>2 DEF Inv, Births, Current, e
    <3>3. CASE v[2] = e[2]
      <4>1. v = e
        BY <1>3, <3>3 DEF Workers, e
      <4> QED BY <2>3, <2>10, <3>1, <3>3, <4>1
    <3>4. CASE v[2] > e[2]
      BY <2>3, <2>10, <3>1, <3>4 DEF Current
    <3> QED BY <2>3, <3>1, <3>2, <3>3, <3>4
  <2>12. Births'
    <3>1. \A v : Current(v)' <=> Current(v)
      BY <1>1 DEF Current
    <3> QED BY <1>1, <2>2, <2>5, <2>11, <3>1 DEF Inv, Births, Holds
  <2>13. Numbered'
    <3>1. e[2] =< Cardinality(Finished) /\ Cardinality(Finished) \in Nat
      BY <2>2, FinishedIsFinite DEF Inv, Numbered, Finished
    <3>2. x[2] =< Cardinality(Finished) + 1
      BY <2>3, <3>1
    <3> QED BY <1>1, <2>2, <2>5, <3>2 DEF Inv, Numbered, Holds, Finished
  <2>14. Pipes'
    BY <1>1, <2>5 DEF Inv, Pipes, Clean, Young
  <2>15. Known'
    <3>1. proc[x] = "unborn"
      BY <2>3, <2>4, <2>11
    <3>2. \A v \in attempts : v # x
      BY <3>1 DEF Inv, Known
    <3> QED BY <1>1, <2>5, <3>2 DEF Inv, Known, Holds, Registered
  <2>16. Covered'
    <3>1. \A i \in Indexes : Seated(i) => Seated(i)'
      BY <1>1, <2>1, <2>3, <2>5 DEF Seated, Holds
    <3> QED BY <1>1, <2>5, <3>1 DEF Inv, Covered
  <2> QED BY <2>7, <2>8, <2>9, <2>12, <2>13, <2>14, <2>15, <2>16 DEF Inv
<1> QED BY <1>2, <1>3, LoopIs DEF Inv

LEMMA CtlSpawnKeeps ==
    ASSUME Inv, CtlSpawn
    PROVE  Inv'
<1>0. PICK c : c = ctl.w
  OBVIOUS
<1>1. /\ ctl.at = "spawn" /\ ~(executor = "none" /\ shut.calls = 0) /\ c \in Workers
      /\ UNCHANGED <<state, closing, slots, idle, events, attempts, executor, work, mail,
                     fetch, clock, stale, job, held, answer, shut>>
  BY <1>0, SpawnIs DEF CtlSpawn, pool, calls, jobs, Inv, Phases
<1>2. CASE ctl.boot /\ closing /\ UNCHANGED proc /\ CtlIs("none", FALSE, Nobody, {}, <<>>)
  <2>1. state \notin {"available", "starting"}
    BY <1>2 DEF Inv, Phases
  <2>2. Fades /\ slots' \in Seq(Workers) /\ Distinct(slots)'
    BY <1>1, <1>2, NothingFades, Maps DEF Inv, Seats
  <2> QED BY <1>1, <1>2, <2>1, <2>2, GivenUp DEF CtlIs
<1>3. CASE UNCHANGED proc /\ CtlIs("condemn", ctl.boot, Nobody, ctl.pending, ctl.todo)
  <2>1. /\ ctl' \in Ctls /\ ctl'.at = "condemn" /\ ctl'.boot = ctl.boot /\ ctl'.w = Nobody
        /\ ctl'.pending = ctl.pending
    BY <1>3 DEF CtlIs
  <2>2. ~Bringing'
    BY <2>1 DEF Bringing
  <2>3. Types'
    BY <1>1, <1>3, <2>1, <2>2 DEF Inv, Types, TypeOK, Ctls, CtlAts, Holds
  <2>4. Phases'
    BY <1>1, <1>3, <2>1 DEF Inv, Phases
  <2>5. Seats' /\ Numbered'
    BY <1>1, <2>2 DEF Inv, Seats, Numbered, Holds
  <2>6. Births'
    BY <1>1, <1>3, <2>1 DEF Inv, Births, Holds, Current
  <2>7. Pipes'
    BY <1>1, <1>3, <2>1 DEF Inv, Pipes, Clean, Young
  <2>8. Known'
    BY <1>1, <1>3, <2>1, <2>2 DEF Inv, Known, Holds, Registered
  <2>9. Covered'
    BY <1>1, <2>1 DEF Inv, Covered, Seated
  <2> QED BY <2>3, <2>4, <2>5, <2>6, <2>7, <2>8, <2>9 DEF Inv
<1>4. CASE /\ proc' = [proc EXCEPT ![c] = "starting"]
           /\ CtlIs("register", ctl.boot, ctl.w, ctl.pending, ctl.todo)
  <2>1. /\ ctl' \in Ctls /\ ctl'.at = "register" /\ ctl'.boot = ctl.boot /\ ctl'.w = c
        /\ ctl'.pending = ctl.pending
    BY <1>0, <1>4 DEF CtlIs
  <2>2. Bringing' <=> Bringing
    BY <1>1, <2>1 DEF Bringing
  <2>3. /\ proc' \in [Workers -> {"unborn", "starting", "live", "dead", "closed"}]
        /\ proc'[c] = "starting" /\ \A v \in Workers : v # c => proc'[v] = proc[v]
    BY <1>1, <1>4, Maps DEF Inv
  <2>4. \A v \in Workers : v[1] = c[1] => IF v[2] < c[2] THEN proc[v] = "closed" ELSE proc[v] = "unborn"
    BY <1>0, <1>1 DEF Inv, Births
  <2>5. c[1] \in Indexes /\ c[2] \in Nat /\ \A v \in Workers : v[1] \in Indexes /\ v[2] \in Nat
    BY <1>1 DEF Workers, Generations
  <2>6. proc[c] = "unborn" /\ work[c] = None /\ mail[c] = None
    <3>1. proc[c] = "unborn"
      BY <1>1, <2>4, <2>5
    <3> QED BY <1>1, <3>1 DEF Inv, Pipes
  <2>7. \A v \in Workers : proc[v] # "unborn" /\ v[1] # c[1] => (Current(v) => Current(v)')
    BY <2>3 DEF Current
  <2>8. /\ \A v \in ToSet(idle) \cup ToSet(events) : v \in Workers /\ v[1] # c[1] /\ Current(v)
        /\ \A r \in Requests : Holds(r) => held[r] \in Workers /\ held[r][1] # c[1] /\ Current(held[r])
    <3>1. CASE ctl.boot
      <4>1. idle = <<>> /\ events = <<>> /\ \A r \in Requests : ~Holds(r)
        BY <3>1 DEF Inv, Phases, Holds, Unfinished
      <4> QED BY <4>1, NothingQueued
    <3>2. CASE ~ctl.boot
      <4>1. Bringing
        BY <1>1, <3>2 DEF Bringing
      <4> QED BY <1>0, <4>1, Members DEF Inv, Seats, Births
    <3> QED BY <3>1, <3>2
  <2>9. Types'
    BY <1>0, <1>1, <2>1, <2>2, <2>3 DEF Inv, Types, TypeOK, Ctls, CtlAts, Holds, Bringing
  <2>10. Phases'
    <3>1. \A v \in Workers : v # c => (proc[v] = "unborn" => proc'[v] = "unborn")
      BY <2>3
    <3>2. ctl.boot => /\ idle = <<>> /\ events = <<>> /\ attempts = {} /\ state # "available"
                      /\ \A r \in Requests : job[r] = "none"
                      /\ c[2] = 1
                      /\ \A v \in Workers : v[2] # 1 => proc'[v] = "unborn"
                      /\ \A v \in Workers : v[1] > c[1] => proc'[v] = "unborn"
      <4> SUFFICES ASSUME ctl.boot
                   PROVE  /\ idle = <<>> /\ events = <<>> /\ attempts = {} /\ state # "available"
                          /\ \A r \in Requests : job[r] = "none"
                          /\ c[2] = 1
                          /\ \A v \in Workers : v[2] # 1 => proc'[v] = "unborn"
                          /\ \A v \in Workers : v[1] > c[1] => proc'[v] = "unborn"
        OBVIOUS
      <4>1. /\ idle = <<>> /\ events = <<>> /\ attempts = {} /\ state # "available"
            /\ \A r \in Requests : job[r] = "none"
            /\ c[2] = 1
            /\ \A v \in Workers : v[2] # 1 => proc[v] = "unborn"
            /\ \A v \in Workers : v[1] > c[1] => proc[v] = "unborn"
        BY <1>0, <1>1 DEF Inv, Phases
      <4>2. \A v \in Workers : v[2] # 1 \/ v[1] > c[1] => v # c
        <5>1. c[1] \in Int
          BY <2>5, PoolAssumption DEF Indexes
        <5> QED BY <4>1, <5>1
      <4> QED BY <3>1, <4>1, <4>2
    <3> QED BY <1>0, <1>1, <2>1, <3>2 DEF Inv, Phases
  <2>11. Seats' /\ Numbered'
    BY <1>0, <1>1, <2>1, <2>2 DEF Inv, Seats, Numbered, Holds
  <2>12. Births'
    <3>1. Current(c)'
      BY <1>1, <2>3, <2>4, <2>5 DEF Current
    <3>2. (\A u, v \in Workers : u[1] = v[1] /\ u[2] < v[2] /\ proc[v] # "unborn" => proc[u] = "closed")'
      <4> SUFFICES ASSUME NEW u \in Workers, NEW v \in Workers, u[1] = v[1], u[2] < v[2], proc'[v] # "unborn"
                   PROVE  proc'[u] = "closed"
        OBVIOUS
      <4>1. CASE v = c
        BY <1>1, <2>3, <2>4, <2>5, <4>1
      <4>2. CASE v # c
        <5>1. proc[v] # "unborn"
          BY <2>3, <4>2
        <5>2. proc[u] = "closed"
          BY <5>1 DEF Inv, Births
        <5> QED BY <2>3, <2>6, <5>2
      <4> QED BY <4>1, <4>2
    <3>3. \A v \in ToSet(idle) \cup ToSet(events) : Current(v)'
      BY <2>7, <2>8 DEF Current
    <3>4. \A r \in Requests : Holds(r) => Current(held[r]) /\ held[r] # c /\ held[r] \in Workers
      BY <2>8
    <3>5. \A r \in Requests : Holds(r) => Current(held[r])'
      BY <1>1, <2>3, <2>8 DEF Current
    <3>6. \A v \in ToSet(events) : proc'[v] = "closed"
      BY <2>3, <2>6, <2>8 DEF Inv, Births
    <3>7. \A r \in Requests : job[r] \in {"pop", "schedule"} => proc'[held[r]] = "closed"
      BY <2>3, <3>4 DEF Inv, Births, Holds, Unfinished
    <3>8. state = "starting" => \A v \in ToSet(slots) : proc'[v] # "unborn"
      BY <2>3, Members DEF Inv, Births
    <3> QED BY <1>0, <1>1, <2>1, <3>1, <3>2, <3>3, <3>5, <3>6, <3>7, <3>8 DEF Births, Holds
  <2>13. Pipes'
    <3>1. \A v \in Workers : Young(v) => Young(v)'
      BY <1>1, <2>3, <2>6 DEF Young
    <3>2. \A v \in Workers : v # c => (Clean(v) => Clean(v)')
      BY <1>1, <2>3 DEF Clean
    <3>3. Young(c)'
      BY <1>1, <2>3, <2>6 DEF Young
    <3>4. \A v \in ToSet(idle) : Clean(v)'
      BY <2>8, <3>2 DEF Inv, Pipes
    <3>5. \A r \in Requests : job[r] \in {"queued", "polling"} => held[r] \in Workers /\ held[r] # c
      BY <2>8 DEF Holds, Unfinished
    <3>6. \A v \in ctl.pending : Young(v)'
      BY <1>1, <3>1, Members DEF Inv, Pipes
    <3>7. state = "starting" => \A v \in ToSet(slots) \ ctl.pending : Clean(v)'
      BY <1>1, <2>6, <3>2, Members DEF Inv, Pipes, Births
    <3>8. \A r \in Requests : job[r] = "queued" => Clean(held[r])'
      BY <1>1, <2>3, <3>5 DEF Inv, Pipes, Clean
    <3>9. \A r \in Requests : job[r] = "polling" => proc'[held[r]] # "starting"
      BY <2>3, <3>5 DEF Inv, Pipes
    <3> QED BY <1>0, <1>1, <2>1, <2>3, <3>3, <3>4, <3>6, <3>7, <3>8, <3>9 DEF Inv, Pipes
  <2>14. Known'
    <3>1. \A v \in attempts : v # c /\ proc'[v] = "closed"
      BY <2>3, <2>6, Members DEF Inv, Known
    <3>2. state = "available" => \A v \in ToSet(idle) : proc'[v] # "closed"
      BY <2>3, <2>8 DEF Inv, Known
    <3>3. state = "available" => \A r \in Requests :
             job[r] \in {"queued", "polling", "retire", "kill", "close"} => proc'[held[r]] # "closed"
      BY <2>3, <2>8 DEF Inv, Known, Holds, Unfinished
    <3>4. state = "starting" => \A v \in ToSet(slots) : proc'[v] # "closed"
      BY <2>3, Members DEF Inv, Known
    <3> QED BY <1>1, <2>1, <2>2, <2>3, <3>1, <3>2, <3>3, <3>4 DEF Inv, Known, Holds, Registered
  <2>15. Covered'
    BY <1>0, <1>1, <2>1 DEF Inv, Covered, Seated, Holds
  <2> QED BY <2>9, <2>10, <2>11, <2>12, <2>13, <2>14, <2>15 DEF Inv
<1> QED BY <1>0, <1>2, <1>3, <1>4, SpawnIs DEF Inv

\* A worker that nobody wants is closed, or resists and is left to be stopped.
LEMMA UnwantedKeeps ==
    ASSUME Inv, CtlRegister, ~Wanted
    PROVE  Inv'
<1>1. /\ ctl.at = "register" /\ ctl.w \in Workers /\ proc[ctl.w] # "unborn"
      /\ UNCHANGED <<state, closing, idle, events, attempts, executor, work,
                     fetch, clock, stale, job, held, answer, shut, slots>>
  <2>1. ctl.at = "register" /\ ctl.w \in Workers
    BY RegisterIs DEF CtlRegister, Inv
  <2>2. Current(ctl.w)
    BY <2>1 DEF Inv, Births
  <2>3. UNCHANGED slots
    BY RegisterIs DEF Inv
  <2> QED BY <2>1, <2>2, <2>3 DEF Current, CtlRegister, calls, jobs
<1>2. state \notin {"available", "starting"}
  BY DEF Wanted, Inv, Phases
<1>3. /\ Fades /\ ctl' \in Ctls /\ ctl'.boot = ctl.boot /\ ctl'.w \in {ctl.w, Nobody}
      /\ ctl'.at \in {"exit", "condemn", "rescue"}
      /\ ctl'.at = "rescue" => ctl'.w = ctl.w /\ ~ctl.boot
  <2>1. CASE Close(ctl.w) /\ CtlIs("exit", ctl.boot, ctl.w, ctl.pending, ctl.todo)
    BY <1>1, <2>1, CloseFades DEF CtlIs, Inv
  <2>2. CASE /\ UNCHANGED <<proc, mail>>
             /\ \/ ctl.boot /\ CtlIs("condemn", ctl.boot, Nobody, ctl.pending, ctl.todo)
                \/ ~ctl.boot /\ CtlIs("rescue", ctl.boot, ctl.w, ctl.pending, ctl.todo)
    BY <1>1, <2>2, NothingFades DEF CtlIs, Inv
  <2> QED BY <2>1, <2>2, RegisterIs DEF Inv
<1>4. slots' \in Seq(Workers) /\ Distinct(slots)'
  BY <1>1, Maps DEF Inv, Seats
<1> QED BY <1>1, <1>2, <1>3, <1>4, GivenUp

LEMMA WantedKeeps ==
    ASSUME Inv, CtlRegister, Wanted
    PROVE  Inv'
<1>0. PICK c : c = ctl.w
  OBVIOUS
<1>1. /\ ctl.at = "register" /\ c \in Workers /\ slots' = Put(c) /\ ~(executor = "none" /\ shut.calls = 0)
      /\ UNCHANGED <<state, closing, idle, events, attempts, executor, proc, work, mail,
                     fetch, clock, stale, job, held, answer, shut>>
  BY <1>0, RegisterIs DEF CtlRegister, calls, jobs, Inv, Phases
<1>2. /\ slots' \in Seq(Workers) /\ Distinct(slots')
      /\ ToSet(slots') = {v \in ToSet(slots) : v[1] # c[1]} \cup {c}
  BY <1>1, PutIn, Maps DEF Inv, Seats
<1>3. Current(c) /\ Young(c) /\ c[1] \in Int /\ c[1] \in Indexes /\ c[2] \in Nat
  BY <1>0, <1>1, PoolAssumption DEF Inv, Births, Pipes, Workers, Indexes, Generations
<1>4. ASSUME NEW v \in ToSet(idle) PROVE Registered(v)'
  <2>1. ~ctl.boot
    BY <1>4, NothingQueued DEF Inv, Phases
  <2>2. v[1] # c[1] /\ Registered(v)
    BY <1>0, <1>1, <1>4, <2>1 DEF Inv, Seats, Known, Bringing
  <2> QED BY <1>2, <2>2 DEF Registered
<1>5. CASE /\ ctl.boot /\ c[1] + 1 \in Indexes /\ <<c[1] + 1, c[2]>> \in Workers
           /\ CtlIs("spawn", ctl.boot, <<c[1] + 1, c[2]>>, ctl.pending \cup {c}, ctl.todo)
  <2> DEFINE d == <<c[1] + 1, c[2]>>
  <2>1. /\ ctl' \in Ctls /\ ctl'.at = "spawn" /\ ctl'.boot = ctl.boot /\ ctl'.w = d
        /\ ctl'.pending = ctl.pending \cup {c} /\ d \in Workers
    BY <1>5 DEF CtlIs
  <2>2. d[1] = c[1] + 1 /\ d[2] = c[2]
    OBVIOUS
  <2> HIDE DEF d
  <2>3. /\ state = "starting" /\ idle = <<>> /\ events = <<>> /\ attempts = {} /\ c[2] = 1
        /\ \A r \in Requests : job[r] = "none"
        /\ \A v \in Workers : v[2] # 1 => proc[v] = "unborn"
        /\ \A v \in Workers : v[1] > c[1] => proc[v] = "unborn"
    BY <1>0, <1>1, <1>5 DEF Inv, Phases, Wanted
  <2>4. \A v \in Workers : v[1] \in Int /\ v[2] \in Nat /\ v[2] >= 1
    BY PoolAssumption DEF Workers, Indexes, Generations
  <2>5. ~Bringing' /\ ~Bringing /\ \A r \in Requests : ~Holds(r) /\ ~Holds(r)'
    BY <1>1, <1>5, <2>1, <2>3 DEF Bringing, Holds, Unfinished
  <2>6. Types'
    BY <1>1, <1>2, <2>1, <2>5 DEF Inv, Types, TypeOK, Ctls, CtlAts
  <2>7. Phases'
    <3>1. \A v \in Workers : v[1] > d[1] => proc[v] = "unborn"
      BY <1>3, <2>2, <2>3, <2>4
    <3> QED BY <1>1, <2>1, <2>2, <2>3, <3>1 DEF Inv, Phases
  <2>8. Seats' /\ Numbered'
    BY <1>1, <1>2, <2>3, <2>5, NothingQueued DEF Inv, Seats, Numbered
  <2>9. Births'
    <3>1. \A v \in Workers : v[1] = d[1] => ~(v[2] < d[2]) /\ proc[v] = "unborn"
      BY <1>3, <2>2, <2>3, <2>4
    <3>2. \A v \in ToSet(slots') : proc[v] # "unborn"
      BY <1>2, <1>3, <2>3 DEF Inv, Births, Current
    <3> QED BY <1>1, <2>1, <2>3, <2>5, <3>1, <3>2, NothingQueued DEF Inv, Births
  <2>10. Pipes'
    <3>1. \A v \in ctl'.pending : Young(v)
      BY <1>1, <1>3, <2>1 DEF Inv, Pipes
    <3>2. \A v \in ToSet(slots') \ ctl'.pending : Clean(v)
      BY <1>2, <2>1, <2>3 DEF Inv, Pipes
    <3> QED BY <1>1, <2>1, <2>3, <3>1, <3>2, NothingQueued DEF Inv, Pipes, Clean, Young
  <2>11. Known'
    <3>1. \A v \in ToSet(slots') : proc[v] # "closed" /\ v[2] = 1
      BY <1>0, <1>1, <1>2, <2>3 DEF Inv, Known
    <3> QED BY <1>1, <2>1, <2>3, <3>1, NothingQueued DEF Known
  <2>12. Covered'
    <3>1. \A i \in Indexes : i < d[1] => i = c[1] \/ i < c[1]
      BY <1>3, <2>2, PoolAssumption DEF Indexes
    <3>2. \A i \in Indexes : i < c[1] => \E v \in ToSet(slots) : v[1] = i
      BY <1>0, <1>1, <2>3 DEF Inv, Covered
    <3>3. \A i \in Indexes : i < d[1] => \E v \in ToSet(slots') : v[1] = i
      BY <1>2, <3>1, <3>2
    <3> QED BY <1>1, <2>1, <2>3, <3>3 DEF Covered
  <2> QED BY <2>6, <2>7, <2>8, <2>9, <2>10, <2>11, <2>12 DEF Inv
<1>6. CASE /\ ctl.boot /\ c[1] + 1 \notin Indexes
           /\ CtlIs("await", ctl.boot, c, ctl.pending \cup {c}, ctl.todo)
  <2>1. /\ ctl' \in Ctls /\ ctl'.at = "await" /\ ctl'.boot = ctl.boot /\ ctl'.w = c
        /\ ctl'.pending = ctl.pending \cup {c}
    BY <1>6 DEF CtlIs
  <2>3. /\ state = "starting" /\ idle = <<>> /\ events = <<>> /\ attempts = {} /\ c[2] = 1
        /\ \A r \in Requests : job[r] = "none"
    BY <1>0, <1>1, <1>6 DEF Inv, Phases, Wanted
  <2>5. ~Bringing' /\ ~Bringing /\ \A r \in Requests : ~Holds(r) /\ ~Holds(r)'
    BY <1>1, <1>6, <2>1, <2>3 DEF Bringing, Holds, Unfinished
  <2>6. Types'
    BY <1>1, <1>2, <2>1, <2>5 DEF Inv, Types, TypeOK, Ctls, CtlAts
  <2>7. Phases'
    BY <1>1, <2>1, <2>3 DEF Inv, Phases
  <2>8. Seats' /\ Numbered'
    BY <1>1, <1>2, <2>3, <2>5, NothingQueued DEF Inv, Seats, Numbered
  <2>9. Births'
    <3>1. Current(c)'
      BY <1>1, <1>3 DEF Current
    <3>2. \A v \in ToSet(slots') : proc[v] # "unborn"
      BY <1>2, <1>3, <2>3 DEF Inv, Births, Current
    <3> QED BY <1>1, <2>1, <2>3, <2>5, <3>1, <3>2, NothingQueued DEF Inv, Births
  <2>10. Pipes'
    <3>1. \A v \in ctl'.pending : Young(v)
      BY <1>1, <1>3, <2>1 DEF Inv, Pipes
    <3>2. \A v \in ToSet(slots') \ ctl'.pending : Clean(v)
      BY <1>2, <2>1, <2>3 DEF Inv, Pipes
    <3> QED BY <1>1, <1>6, <2>1, <2>3, <3>1, <3>2, NothingQueued DEF Inv, Pipes, Clean, Young
  <2>11. Known'
    <3>1. \A v \in ToSet(slots') : proc[v] # "closed" /\ v[2] = 1
      BY <1>0, <1>1, <1>2, <2>3 DEF Inv, Known
    <3> QED BY <1>1, <2>1, <2>3, <3>1, NothingQueued DEF Known
  <2>12. Covered'
    <3>1. \A i \in Indexes : i = c[1] \/ i < c[1]
      BY <1>3, <1>6, PoolAssumption DEF Indexes
    <3>2. \A i \in Indexes : i < c[1] => \E v \in ToSet(slots) : v[1] = i
      BY <1>0, <1>1, <2>3 DEF Inv, Covered
    <3>3. \A i \in Indexes : \E v \in ToSet(slots') : v[1] = i
      BY <1>2, <3>1, <3>2
    <3> QED BY <1>1, <2>1, <2>3, <3>3 DEF Covered
  <2> QED BY <2>6, <2>7, <2>8, <2>9, <2>10, <2>11, <2>12 DEF Inv
<1>7. CASE ~ctl.boot /\ CtlIs("await", ctl.boot, c, ctl.pending \cup {c}, ctl.todo)
  <2>1. /\ ctl' \in Ctls /\ ctl'.at = "await" /\ ~ctl'.boot /\ ctl'.w = c
        /\ ctl'.pending = ctl.pending \cup {c}
    BY <1>7 DEF CtlIs
  <2>2. Bringing /\ Bringing' /\ ctl.pending = {} /\ state = "available"
    BY <1>0, <1>1, <1>7, <2>1 DEF Bringing, Inv, Types, Wanted
  <2>3. Types'
    BY <1>1, <1>2, <2>1, <2>2 DEF Inv, Types, TypeOK, Ctls, CtlAts, Holds
  <2>4. Phases'
    BY <1>1, <2>1, <2>2 DEF Inv, Phases
  <2>5. Seats' /\ Numbered'
    BY <1>0, <1>1, <1>2, <2>1, <2>2 DEF Inv, Seats, Numbered, Holds
  <2>6. Births'
    <3>1. \A v : Current(v)' <=> Current(v)
      BY <1>1 DEF Current
    <3> QED BY <1>1, <1>3, <2>1, <2>2, <3>1 DEF Inv, Births, Holds
  <2>7. Pipes'
    BY <1>1, <1>3, <2>1, <2>2 DEF Inv, Pipes, Clean, Young
  <2>8. Known'
    <3>1. \A r \in Requests : Holds(r) /\ job[r] # "schedule" => held[r] \in ToSet(slots')
      BY <1>0, <1>2, <2>2 DEF Inv, Known, Seats, Registered
    <3>2. c \in ToSet(slots') /\ proc[c] # "closed"
      BY <1>0, <1>1, <1>2, <2>2 DEF Inv, Known
    <3>3. \A v \in attempts : c # v
      BY <1>0, <2>2 DEF Inv, Known
    <3> QED BY <1>1, <1>4, <2>1, <2>2, <3>1, <3>2, <3>3 DEF Inv, Known, Holds, Registered
  <2>9. Covered'
    BY <1>0, <1>1, <2>1, <2>2 DEF Inv, Covered, Seated, Holds
  <2> QED BY <2>3, <2>4, <2>5, <2>6, <2>7, <2>8, <2>9 DEF Inv
<1> QED BY <1>0, <1>1, <1>5, <1>6, <1>7, RegisterIs DEF Inv

LEMMA CtlRegisterKeeps ==
    ASSUME Inv, CtlRegister
    PROVE  Inv'
BY UnwantedKeeps, WantedKeeps

\* The startup opens the pool.
LEMMA OpenKeeps ==
    ASSUME Inv, CtlEnlist, Wanted, ~closing, ctl.boot
    PROVE  Inv'
<1>1. /\ ctl.at = "await" /\ ctl.pending = {} /\ idle' = idle \o slots /\ state' = "available"
      /\ ctl' = Idle
      /\ UNCHANGED <<closing, slots, events, attempts, executor, proc, work, mail,
                     fetch, clock, stale, job, held, answer, shut>>
  BY DEF CtlEnlist, workers, calls, jobs
<1>2. CtlIs("none", FALSE, Nobody, {}, <<>>)
  BY <1>1, Rests
<1>3. ctl' \in Ctls /\ ctl'.at = "none" /\ ~ctl'.boot /\ ctl'.pending = {}
  BY <1>2 DEF CtlIs
<1>4. /\ state = "starting" /\ idle = <<>> /\ events = <<>> /\ attempts = {} /\ executor = "up"
      /\ \A r \in Requests : job[r] = "none"
      /\ \A v \in Workers : v[2] # 1 => proc[v] = "unborn"
      /\ shut.calls = 0
  BY DEF Wanted, Inv, Phases
<1>5. /\ idle' = slots /\ slots \in Seq(Workers) /\ Distinct(slots)
      /\ \A v \in ToSet(slots) : v \in Workers /\ v[1] \in Int /\ v[2] \in Nat
  <2>1. slots \in Seq(Workers) /\ Distinct(slots)
    BY Maps DEF Inv, Seats
  <2>2. idle' = slots
    BY <1>1, <1>4, <2>1, ConcatEmptySeq
  <2> QED BY <2>1, <2>2, Members, PoolAssumption DEF Inv, Workers, Indexes, Generations
<1>6. \A v \in ToSet(slots) : proc[v] # "unborn" /\ proc[v] # "closed" /\ v[2] = 1 /\ Clean(v)
  BY <1>1, <1>4 DEF Inv, Births, Known, Pipes
<1>7. ~Bringing' /\ \A r \in Requests : ~Holds(r)'
  BY <1>1, <1>3, <1>4 DEF Bringing, Holds, Unfinished
<1>8. Types'
  BY <1>1, <1>3, <1>5, <1>7 DEF Inv, Types, TypeOK, Ctls, CtlAts
<1>9. Phases'
  BY <1>1, <1>3, <1>4 DEF Inv, Phases
<1>10. Seats'
  BY <1>1, <1>4, <1>5, <1>7, NothingQueued DEF Seats
<1>11. Births'
  <2>1. \A v \in ToSet(slots) : Current(v)'
    <3> SUFFICES ASSUME NEW v \in ToSet(slots), NEW u \in Workers, u[2] > v[2]
                 PROVE  proc'[v] # "unborn" /\ proc'[u] = "unborn"
      BY <1>1, <1>6 DEF Current
    <3>1. u[2] # 1
      BY <1>6 DEF Workers, Generations
    <3> QED BY <1>1, <1>4, <1>6, <3>1
  <2> QED BY <1>1, <1>3, <1>4, <1>5, <1>7, <2>1, NothingQueued DEF Inv, Births, Holds
<1>12. Numbered'
  <2>1. \A v \in ToSet(slots) : v[2] =< Cardinality(Finished) + 1
    BY <1>6, FinishedIsFinite
  <2>2. {r \in Requests : job[r] = "done"}' = Finished
    BY <1>1 DEF Finished
  <2> QED BY <1>1, <1>4, <1>5, <1>7, <2>1, <2>2, NothingQueued DEF Numbered
<1>13. Pipes'
  BY <1>1, <1>3, <1>4, <1>5, <1>6 DEF Inv, Pipes, Clean
<1>14. Known'
  BY <1>1, <1>3, <1>4, <1>5, <1>6, <1>7 DEF Known, Registered
<1>15. Covered'
  BY <1>1, <1>3, <1>4, <1>5 DEF Inv, Covered, Seated
<1> QED BY <1>8, <1>9, <1>10, <1>11, <1>12, <1>13, <1>14, <1>15 DEF Inv

\* The replacement is given to the waiting requests.
LEMMA ReplaceKeeps ==
    ASSUME Inv, CtlEnlist, Wanted, ~closing, ~ctl.boot
    PROVE  Inv'
<1>0. PICK c : c = ctl.w
  OBVIOUS
<1>1. /\ ctl.at = "await" /\ ctl.pending = {} /\ c \in Workers /\ idle' = Append(idle, c)
      /\ state = "available" /\ state' = "available"
      /\ UNCHANGED <<closing, slots, events, attempts, executor, proc, work, mail,
                     fetch, clock, stale, job, held, answer, shut>>
  <2>1. /\ ctl.at = "await" /\ ctl.w \in Workers /\ idle' = idle \o <<ctl.w>>
    BY Members DEF Inv, CtlEnlist
  <2>2. idle \o <<ctl.w>> = Append(idle, ctl.w)
    BY <2>1, Enqueued, Maps DEF Inv
  <2> QED BY <1>0, <2>1, <2>2 DEF CtlEnlist, Wanted, workers, calls, jobs
<1>2. ctl' \in Ctls /\ ctl'.at = "loop" /\ ~ctl'.boot
  <2>1. "loop" \in CtlAts
    BY DEF CtlAts
  <2>2. CtlGoto("loop")
    BY DEF CtlEnlist
  <2> QED BY <2>1, <2>2, Goes DEF CtlIs, Inv
<1>3. Bringing /\ ~Bringing'
  BY <1>1, <1>2 DEF Bringing
<1>4. /\ \A v \in ToSet(idle) \cup ToSet(events) : v[1] # c[1]
      /\ \A r \in Requests : Holds(r) => held[r][1] # c[1]
  BY <1>0, <1>3 DEF Inv, Seats
<1>5. idle' \in Seq(Workers) /\ ToSet(idle') = ToSet(idle) \cup {c} /\ Distinct(idle')
  BY <1>1, <1>4, Appended, Maps DEF Inv, Seats
<1>6. Current(c) /\ Clean(c) /\ Registered(c) /\ proc[c] # "closed" /\ \A v \in attempts : c # v
  BY <1>0, <1>1, <1>3 DEF Inv, Births, Pipes, Known
<1>7. Types'
  BY <1>1, <1>2, <1>3, <1>5 DEF Inv, Types, TypeOK, Ctls, CtlAts, Holds
<1>8. Phases'
  BY <1>1, <1>2 DEF Inv, Phases
<1>9. Seats'
  BY <1>1, <1>3, <1>4, <1>5 DEF Inv, Seats, Holds
<1>10. Births'
  <2>1. \A v : Current(v)' <=> Current(v)
    BY <1>1 DEF Current
  <2> QED BY <1>1, <1>2, <1>5, <1>6, <2>1 DEF Inv, Births, Holds
<1>11. Numbered'
  <2>1. c[2] =< Cardinality(Finished) + 1
    BY <1>0, <1>3 DEF Inv, Numbered, Finished
  <2> QED BY <1>1, <1>3, <1>5, <2>1 DEF Inv, Numbered, Holds, Finished
<1>12. Pipes'
  BY <1>1, <1>2, <1>5, <1>6 DEF Inv, Pipes, Clean, Young
<1>13. Known'
  BY <1>1, <1>2, <1>3, <1>5, <1>6 DEF Inv, Known, Holds, Registered
<1>14. Covered'
  <2>1. \A i \in Indexes : Seated(i) => Seated(i)'
    BY <1>0, <1>1, <1>2, <1>5 DEF Seated, Holds
  <2> QED BY <1>1, <1>2, <2>1 DEF Inv, Covered
<1> QED BY <1>7, <1>8, <1>9, <1>10, <1>11, <1>12, <1>13, <1>14 DEF Inv

LEMMA CtlEnlistKeeps ==
    ASSUME Inv, CtlEnlist
    PROVE  Inv'
<1>1. CASE Wanted /\ ~closing
  BY <1>1, OpenKeeps, ReplaceKeeps
<1>2. CASE ~(Wanted /\ ~closing)
  <2>1. ctl.at = "await" /\ state \notin {"available", "starting"}
    BY <1>2 DEF CtlEnlist, Wanted, Inv, Phases
  <2>2. /\ UNCHANGED <<state, closing, slots, idle, events, attempts, executor, proc, work, mail,
                       fetch, clock, stale, job, held, answer, shut>>
        /\ ctl' \in Ctls /\ ctl'.at = "exit" /\ ctl'.boot = ctl.boot
    BY <1>2, EnlistIs DEF CtlEnlist, CtlIs, workers, calls, jobs, Inv
  <2>3. Fades /\ slots' \in Seq(Workers) /\ Distinct(slots)'
    BY <2>2, NothingFades, Maps DEF Inv, Seats
  <2> QED BY <2>1, <2>2, <2>3, GivenUp
<1> QED BY <1>1, <1>2

LEMMA StartKeeps ==
    ASSUME Inv, NEW enabled \in BOOLEAN, Start(enabled)
    PROVE  Inv'
<1>1. /\ state = "stopped" /\ executor = "none" /\ shut.calls = 0
      /\ UNCHANGED <<closing, slots, idle, events, attempts, proc, work, mail, fetch, clock, stale,
                     job, held, answer, shut>>
  BY DEF Start, workers, calls, jobs
<1>2. /\ ctl.at = "none" /\ slots = <<>> /\ idle = <<>> /\ events = <<>> /\ attempts = {}
      /\ \A r \in Requests : job[r] = "none" /\ ~Holds(r) /\ ~Holds(r)'
      /\ \A w \in Workers : proc[w] = "unborn"
      /\ ~closing /\ shut.at = "none"
  BY <1>1 DEF Inv, Phases, Holds, Unfinished
<1>3. CASE UNCHANGED <<executor, ctl>> /\ state' = "unavailable"
  BY <1>1, <1>2, <1>3, NothingQueued DEF Inv, Types, TypeOK, Phases, Seats, Births, Numbered, Pipes,
     Known, Covered, Bringing, Clean, Young
<1>4. CASE CtlIs("spawn", TRUE, <<0, 1>>, {}, <<>>) /\ state' = "starting" /\ executor' = "up"
  <2> DEFINE d == <<0, 1>>
  <2>1. /\ ctl' \in Ctls /\ ctl'.at = "spawn" /\ ctl'.boot /\ ctl'.w = d /\ ctl'.pending = {}
        /\ d \in Workers
    BY <1>4, StartIs DEF CtlIs, Inv
  <2>2. d[1] = 0 /\ d[2] = 1
    OBVIOUS
  <2> HIDE DEF d
  <2>3. ~Bringing'
    BY <2>1 DEF Bringing
  <2>4. Types'
    BY <1>1, <1>2, <1>4, <2>1, <2>3 DEF Inv, Types, TypeOK, Ctls, CtlAts
  <2>5. Phases'
    BY <1>1, <1>2, <1>4, <2>1, <2>2 DEF Inv, Phases
  <2>6. Seats' /\ Numbered'
    BY <1>1, <1>2, <2>3, NothingQueued DEF Inv, Seats, Numbered
  <2>7. Births'
    <3>1. \A v \in Workers : ~(v[2] < d[2])
      BY <2>2 DEF Workers, Generations
    <3> QED BY <1>1, <1>2, <2>1, <3>1, NothingQueued DEF Inv, Births
  <2>8. Pipes' /\ Known'
    BY <1>1, <1>2, <1>4, <2>1, NothingQueued DEF Inv, Pipes, Known, Clean, Young
  <2>9. Covered'
    <3>1. \A i \in Indexes : ~(i < d[1])
      BY <2>2, PoolAssumption DEF Indexes
    <3> QED BY <1>1, <1>2, <1>4, <2>1, <3>1 DEF Covered
  <2> QED BY <2>4, <2>5, <2>6, <2>7, <2>8, <2>9 DEF Inv
<1> QED BY <1>3, <1>4, StartIs DEF Inv

-----------------------------------------------------------------------------
(* The invariant and what it gives.                                          *)

LEMMA InitInv == Init => Inv
<1> SUFFICES ASSUME Init PROVE Inv
  OBVIOUS
<1>1. /\ state = "stopped" /\ ~closing /\ slots = <<>> /\ idle = <<>> /\ events = <<>> /\ attempts = {}
      /\ executor = "none"
      /\ \A w \in Workers : proc[w] = "unborn" /\ work[w] = None /\ mail[w] = None
      /\ \A r \in Requests : job[r] = "none" /\ ~Holds(r)
  BY DEF Init, Holds, Unfinished
<1>2. ctl \in Ctls /\ ctl.at = "none" /\ ~ctl.boot /\ ctl.w = Nobody /\ ctl.pending = {}
  BY DEF Init, Idle, Ctls, CtlAts
<1>3. shut \in Shuts /\ shut.at = "none" /\ shut.calls = 0
  BY DEF Init, Shuts
<1>4. ~Bringing
  BY <1>2 DEF Bringing
<1>5. TypeOK
  <2>1. /\ proc \in [Workers -> {"unborn", "starting", "live", "dead", "closed"}]
        /\ work \in [Workers -> Requests \cup {None}]
        /\ mail \in [Workers -> Requests \cup {None, "ready", "failed", "garbage"}]
    BY DEF Init
  <2>2. /\ fetch \in [Requests -> InFlight \cup {"new", "done"}]
        /\ clock \in [Requests -> {"far", "reserve", "past"}]
        /\ stale \in [Requests -> BOOLEAN]
    BY DEF Init
  <2>3. /\ job \in [Requests -> Unfinished \cup {"none", "done", "cancelled"}]
        /\ held \in [Requests -> Workers \cup {Nobody}]
        /\ answer \in [Requests -> Requests \cup {None, "timeout", "error"}]
    BY DEF Init
  <2>4. closing \in BOOLEAN
    BY DEF Init
  <2> QED BY <1>1, <1>2, <1>3, <2>1, <2>2, <2>3, <2>4 DEF TypeOK, Ctls, CtlAts, Shuts
<1>6. Types
  BY <1>1, <1>2, <1>3, <1>4, <1>5 DEF Types, Ctls, CtlAts, Shuts
<1>7. Phases
  BY <1>1, <1>2, <1>3 DEF Phases
<1>8. Seats /\ Births /\ Numbered
  BY <1>1, <1>2, <1>4, NothingQueued DEF Seats, Births, Numbered
<1>9. Pipes /\ Known /\ Covered
  BY <1>1, <1>2, NothingQueued DEF Pipes, Known, Covered
<1> QED BY <1>6, <1>7, <1>8, <1>9 DEF Inv

LEMMA NextInv == Inv /\ [Next]_vars => Inv'
<1> SUFFICES ASSUME Inv, [Next]_vars PROVE Inv'
  OBVIOUS
<1>1. CASE UNCHANGED vars
  <2>1. UNCHANGED <<state, closing, slots, idle, events, attempts, executor, proc, work, mail, fetch,
                    clock, stale, job, held, answer, ctl, shut>>
    BY <1>1 DEF vars, pool, workers, calls, jobs
  <2>2. Types'
    BY <2>1 DEF Inv, Types, TypeOK, Bringing, Holds
  <2> QED BY <2>1, <2>2, PhasesFrame, SeatsFrame, BirthsFrame, NumberedFrame, PipesFrame, KnownFrame,
             CoveredFrame DEF Inv, pool
<1>2. CASE \E enabled \in BOOLEAN : Start(enabled)
  BY <1>2, StartKeeps
<1>3. CASE Ctl
  BY <1>3, CtlSpawnKeeps, CtlRegisterKeeps, CtlReadyKeeps, CtlGivesUpKeeps, CtlEnlistKeeps, CtlCondemnKeeps,
     CtlSweepKeeps, CtlSweepCloseKeeps, CtlRescueKeeps, CtlLoopKeeps, CtlExitKeeps DEF Ctl
<1>4. ASSUME NEW r \in Requests, Fetch(r) \/ Cancel(r) \/ Tick(r) PROVE Inv'
  BY <1>4, CallsKeep, AcquireKeeps DEF Fetch
<1>5. ASSUME NEW r \in Requests, Job(r) PROVE Inv'
  BY <1>5, DispatchKeeps, TakeKeeps, GiveUpJobKeeps, RetireKeeps, RetireKillKeeps, RetireCloseKeeps,
     RetirePopKeeps, ScheduleKeeps DEF Job
<1>6. ASSUME NEW w \in Workers, WorkerInitializes(w) \/ WorkerAnswers(w) \/ WorkerDies(w) PROVE Inv'
  BY <1>6, WorkerKeeps
<1>7. CASE ShutBegin \/ Shut
  BY <1>7, ShutBeginKeeps, ShutJoinKeeps, ShutStopKeeps, ShutCloseKeeps, ShutExecutorKeeps,
     ShutFinishKeeps DEF Shut
<1> QED BY <1>1, <1>2, <1>3, <1>4, <1>5, <1>6, <1>7 DEF Next

LEMMA Invariance == Spec => []Inv
BY InitInv, NextInv, PTL DEF Spec

\* The state of the pool, of its workers and of its callers is always one of
\* those the code knows: what _state, the events and the queues may hold.
THEOREM PoolTypes == Spec => []TypeOK
<1>1. Inv => TypeOK
  BY DEF Inv, Types
<1> QED BY <1>1, Invariance, PTL

\* "A slot cannot be assigned twice": _idle_slots and the jobs of the executor
\* never share a worker, for any number of slots, requests and shutdowns.
THEOREM WorkersHaveOneOwner == Spec => []OneOwner
<1>1. ASSUME Inv PROVE OneOwner
  <2>1. \A i, j \in DOMAIN idle : idle[i] = idle[j] => i = j
    BY <1>1 DEF Inv, Seats, Distinct
  <2>2. ASSUME NEW w \in Workers
        PROVE  Cardinality(Holders(w)) + (IF w \in ToSet(idle) THEN 1 ELSE 0) =< 1
    <3>1. \A r \in Holders(w) : r \in Requests /\ Holds(r) /\ held[r] = w
      BY DEF Holders, Holds
    <3>2. CASE Holders(w) = {}
      BY <3>2, FS_EmptySet
    <3>3. CASE Holders(w) # {}
      <4>1. PICK r \in Holders(w) : TRUE
        BY <3>3
      <4>2. Holders(w) = {r} /\ w \notin ToSet(idle)
        BY <1>1, <3>1, <4>1 DEF Inv, Seats
      <4> QED BY <4>2, FS_Singleton
    <3> QED BY <3>2, <3>3
  <2> QED BY <2>1, <2>2 DEF OneOwner
<1> QED BY <1>1, Invariance, PTL

\* A worker in _idle_slots is registered, works on nothing and has an empty
\* pipe: the next request cannot read what was meant for an earlier one.
THEOREM IdleWorkersAreClean == Spec => []IdleIsClean
<1>1. ASSUME Inv PROVE IdleIsClean
  BY <1>1 DEF Inv, Known, Pipes, Clean, IdleIsClean
<1> QED BY <1>1, Invariance, PTL

\* "A replacement is not started until the prior process is confirmed dead":
\* the earlier generations of a slot are closed before the next is spawned.
THEOREM SlotsHaveOneProcess == Spec => []OneProcessPerSlot
<1>1. ASSUME Inv PROVE OneProcessPerSlot
  <2> SUFFICES ASSUME NEW v \in Workers, NEW w \in Workers, v[1] = w[1], Alive(v), Alive(w)
               PROVE  v = w
    BY DEF OneProcessPerSlot
  <2>1. proc[v] \notin {"unborn", "closed"} /\ proc[w] \notin {"unborn", "closed"}
    BY DEF Alive
  <2>2. ~(v[2] < w[2]) /\ ~(w[2] < v[2])
    BY <1>1, <2>1 DEF Inv, Births
  <2>3. v[2] \in Nat /\ w[2] \in Nat /\ v = <<v[1], v[2]>> /\ w = <<w[1], w[2]>>
    BY DEF Workers, Generations
  <2>4. v[2] = w[2]
    BY <2>2, <2>3
  <2> QED BY <2>3, <2>4
<1> QED BY <1>1, Invariance, PTL

\* An available pool with no controller at work has a worker for every slot,
\* idle or held: no _schedule_replacement is left that nobody will act on.
THEOREM NoSlotIsLost == Spec => []NoCapacityLost
<1>1. ASSUME Inv PROVE NoCapacityLost
  <2> SUFFICES ASSUME state = "available", ctl.at = "none", NEW i \in Indexes
               PROVE  \E g \in Generations : <<i, g>> \in ToSet(idle) \/ Holders(<<i, g>>) # {}
    BY DEF NoCapacityLost
  <2>1. events = <<>> /\ Seated(i)
    BY <1>1 DEF Inv, Covered
  <2>2. \A w \in Workers : w[2] \in Generations /\ w = <<w[1], w[2]>>
    BY DEF Workers
  <2>3. CASE \E w \in ToSet(idle) : w[1] = i
    BY <1>1, <2>2, <2>3, Members DEF Inv
  <2>4. CASE \E r \in Requests : Holds(r) /\ held[r][1] = i
    <3>1. PICK r \in Requests : Holds(r) /\ held[r][1] = i
      BY <2>4
    <3>2. held[r] \in Workers
      BY <1>1, <3>1, Members DEF Inv
    <3>3. held[r] = <<i, held[r][2]>> /\ held[r][2] \in Generations
      BY <2>2, <3>1, <3>2
    <3>4. r \in Holders(<<i, held[r][2]>>)
      BY <3>1, <3>3 DEF Holders, Holds
    <3> QED BY <3>3, <3>4
  <2> QED BY <2>1, <2>3, <2>4, NothingQueued DEF Seated
<1> QED BY <1>1, Invariance, PTL

\* A fetch is answered with its own result, or with a timeout or an error:
\* _valid_result takes no message made for another request.
THEOREM AnswersAreOwn == Spec => []AnswerIsOwn
<1>1. Init => AnswerIsOwn
  BY DEF Init, AnswerIsOwn
<1>2. AnswerIsOwn /\ Inv /\ [Next]_vars => AnswerIsOwn'
  <2> SUFFICES ASSUME AnswerIsOwn, Inv, [Next]_vars PROVE AnswerIsOwn'
    OBVIOUS
  <2>1. ASSUME NEW r \in Requests, NEW a \in {r, "timeout", "error"}, JobEnds(r, a) PROVE AnswerIsOwn'
    BY <2>1 DEF AnswerIsOwn, JobEnds, Inv, Types, TypeOK
  <2>2. CASE UNCHANGED answer
    BY <2>2 DEF AnswerIsOwn
  <2>3. ASSUME NEW r \in Requests, Job(r)
        PROVE  UNCHANGED answer \/ \E a \in {r, "timeout", "error"} : JobEnds(r, a)
    <3>1. CASE Dispatch(r)
      BY <3>1 DEF Dispatch, JobStays
    <3>2. CASE Take(r)
      BY <3>2 DEF Take, Accepts, JobStays
    <3>3. CASE GiveUpJob(r) \/ LoseWorker(r) \/ RetireKill(r) \/ RetirePop(r)
      BY <3>3 DEF GiveUpJob, GiveUp, LoseWorker, RetireKill, RetirePop, JobStays
    <3>4. CASE Retire(r)
      BY <3>4 DEF Retire, JobStays
    <3>5. CASE RetireClose(r)
      BY <3>5 DEF RetireClose, Unstopped, JobStays
    <3>6. CASE Schedule(r)
      BY <3>6 DEF Schedule
    <3> QED BY <2>3, <3>1, <3>2, <3>3, <3>4, <3>5, <3>6 DEF Job
  <2>4. ASSUME NEW r \in Requests, Fetch(r) \/ Cancel(r) \/ Tick(r) PROVE UNCHANGED answer
    BY <2>4 DEF Fetch, Admit, Acquire, Receive, Expire, Contain, Cancel, Tick, jobs
  <2>5. ASSUME Ctl PROVE UNCHANGED answer
    BY <2>5 DEF Ctl, CtlSpawn, CtlRegister, CtlReady, CtlGivesUp, CtlEnlist, CtlCondemn, CtlSweep,
       CtlSweepClose, CtlRescue, CtlLoop, CtlExit, jobs
  <2>6. ASSUME ShutBegin \/ Shut PROVE UNCHANGED answer
    BY <2>6 DEF ShutBegin, Shut, ShutJoin, ShutStop, ShutClose, ShutExecutor, ShutFinish, jobs
  <2>7. ASSUME NEW w \in Workers, WorkerInitializes(w) \/ WorkerAnswers(w) \/ WorkerDies(w)
        PROVE  UNCHANGED answer
    BY <2>7 DEF WorkerInitializes, WorkerAnswers, WorkerDies, jobs
  <2>8. ASSUME NEW enabled \in BOOLEAN, Start(enabled) PROVE UNCHANGED answer
    BY <2>8 DEF Start, jobs
  <2>9. UNCHANGED vars => UNCHANGED answer
    BY DEF vars, jobs
  <2> QED BY <2>1, <2>2, <2>3, <2>4, <2>5, <2>6, <2>7, <2>8, <2>9 DEF Next
<1> QED BY <1>1, <1>2, Invariance, PTL DEF Spec

-----------------------------------------------------------------------------
(* What becomes of the workers of a pool that is given up or shut down.      *)

Firm(w) == Alive(w) /\ w \notin Resisting

Sweeping == ctl.at \in {"sweep", "sweep-close"}

Spent(s) == \A v \in ToSet(s) : ~Firm(v)

Lacks(s, i) == \A v \in ToSet(s) : v[1] # i

\* No request has or is about to get a worker of this index.
Free(i) == Lacks(idle, i) /\ \A r \in Requests : Holds(r) => held[r][1] # i

\* A ValueError on the way through s loses no worker that could be stopped: of
\* two indexes one is missing, or the controller knows its worker.
Guarded(s) ==
    \/ Spent(s)
    \/ ctl.boot /\ \A v \in ToSet(s) : proc[v] # "closed"
    \/ ~ctl.boot /\ \E i \in Indexes :
          Free(i) /\ \A v \in ToSet(s) : v[1] = i => v = ctl.w /\ proc[v] # "closed"

Ended ==
    /\ ctl.at = "sweep-close" => ~Firm(Head(ctl.todo))
    /\ \A r \in Requests : job[r] = "close" => ~Firm(held[r])
    /\ shut.at = "close" => ~Firm(Head(shut.todo))

Popping(v) == \E r \in Requests : job[r] = "pop" /\ held[r] = v

Fresh ==
    /\ events # <<>> => state = "available" \/ closing
    /\ state = "available" =>
          \A v \in ToSet(slots) : proc[v] # "unborn" /\ (proc[v] = "closed" => Popping(v))

Sparing ==
    /\ ctl.boot /\ ctl.at \in {"spawn", "register", "await"} =>
          \A v \in ToSet(slots) : proc[v] # "closed"
    /\ ~ctl.boot /\ ctl.at \in {"spawn", "register"} => Lacks(slots, ctl.w[1])
    /\ ~ctl.boot /\ ctl.at = "await" =>
          \A v \in ToSet(slots) : v[1] = ctl.w[1] => v = ctl.w /\ proc[v] # "closed"
    /\ ctl.at = "rescue" => Spent(slots) \/ (Lacks(slots, ctl.w[1]) /\ Free(ctl.w[1]))
    /\ ctl.at = "condemn" => Guarded(slots)
    /\ Sweeping => Guarded(ctl.todo) /\ Distinct(ctl.todo) /\ Spent(slots)

\* The controller has the worker, and will stop it.
InHand(w) ==
    \/ ctl.at \in {"register", "rescue"} /\ w = ctl.w
    \/ Sweeping /\ w \in ToSet(ctl.todo)

Accounted ==
    shut.calls =< 1 =>
        \A w \in Workers : Firm(w) =>
            \/ Registered(w) \/ InHand(w)
            \/ shut.at \in {"stop", "close"} /\ w \in ToSet(shut.todo)
            \/ shut.at = "raised" /\ state # "stopped"

Emptied ==
    /\ shut.at \notin {"none", "join"} => ctl.at = "none"
    /\ shut.at \in {"stop", "close", "executor", "drain"} => Spent(slots)
    /\ state = "stopped" =>
          /\ slots = <<>>
          /\ IF shut.calls = 0 THEN executor = "none" ELSE shut.at \in {"returned", "raised"}

Spare ==
    Resisting = {} =>
       /\ state = "unavailable" => slots = <<>> /\ shut.calls = 0
       /\ shut.at \in {"stop", "close", "executor", "drain"} => slots = <<>>

Careful == Ended /\ Fresh /\ Sparing /\ Accounted /\ Emptied /\ Spare

-----------------------------------------------------------------------------
(* Workers that are alive, and what may become of them.                      *)

\* A process is not begun; one that is closed stays closed.
Wanes ==
    \A v \in Workers :
       /\ Alive(v)' => Alive(v)
       /\ proc'[v] = "unborn" <=> proc[v] = "unborn"
       /\ proc[v] = "closed" => proc'[v] = "closed"

LEMMA FadesWanes == Fades => Wanes
BY DEF Fades, Wanes, Alive

LEMMA SameWanes == UNCHANGED proc => Wanes
BY DEF Wanes, Alive

LEMMA SpentStays ==
    ASSUME Wanes, NEW s \in Seq(Workers), NEW t \in Seq(Workers),
           \A v \in ToSet(t) : v \in ToSet(s) \/ ~Firm(v), Spent(s)
    PROVE  \A v \in ToSet(t) : ~Firm(v)'
BY SomethingQueued DEF Wanes, Spent, Firm

\* At most one worker of an index is alive.
LEMMA OthersAreDead ==
    ASSUME Inv, NEW v \in Workers, NEW w \in Workers, v[1] = w[1], v # w,
           Current(w) \/ Alive(w)
    PROVE  ~Alive(v)
<1>1. v[2] \in Nat /\ w[2] \in Nat /\ v = <<v[1], v[2]>> /\ w = <<w[1], w[2]>>
  BY DEF Workers, Generations
<1>2. v[2] < w[2] \/ w[2] < v[2]
  BY <1>1
<1>3. CASE v[2] < w[2]
  BY <1>3 DEF Inv, Births, Current, Alive
<1>4. CASE w[2] < v[2]
  BY <1>4 DEF Inv, Births, Current, Alive
<1> QED BY <1>2, <1>3, <1>4
-----------------------------------------------------------------------------
(* The requests, their jobs and the workers, beside the controller.          *)

Aside ==
    /\ UNCHANGED <<closing, executor, shut>>
    /\ ctl' = ctl \/ (ctl.at = "none" /\ ctl'.at = "loop" /\ shut.calls = 0)
    /\ Wanes
    /\ \A i \in Indexes : Free(i) => Free(i)'
    /\ \A v \in Workers : proc[v] # "closed" /\ proc'[v] = "closed" =>
          \E r \in Requests : Holds(r) /\ held[r] = v /\ job'[r] = "pop" /\ held'[r] = v
    /\ events' # <<>> => events # <<>> \/ state = "available"
    /\ \A r \in Requests : job'[r] = "close" => ~Firm(held[r])'

\* The dict only loses workers that are closed, and no job that is about to
\* take one out of it forgets to.
Loses ==
    /\ state' = state /\ ToSet(slots') \subseteq ToSet(slots)
    /\ \A v \in ToSet(slots) : v \in ToSet(slots') \/ proc'[v] = "closed"
    /\ \A v \in ToSet(slots') : Popping(v) => Popping(v)'

\* The worker that a job could not stop is put back.
PutsBack ==
    \E r \in Requests :
       /\ Holds(r) /\ Alive(held[r]) /\ ~Firm(held[r])
       /\ state' = "unavailable" /\ slots' = Put(held[r]) /\ events' = <<>> /\ UNCHANGED proc

LEMMA FreeStays ==
    ASSUME Types, NEW r \in Requests, Holds(r), NEW l \in Unfinished, JobStays(r, l), UNCHANGED idle
    PROVE  \A i \in Indexes : Free(i) => Free(i)'
BY JobGoesOn DEF Free, Lacks

LEMMA FreeEnds ==
    ASSUME Inv, NEW r \in Requests, Holds(r), NEW a \in {r, "timeout", "error"}, JobEnds(r, a),
           UNCHANGED <<state, slots, idle>> \/ Release(held[r]) \/ idle' = <<>>
    PROVE  \A i \in Indexes : Free(i) => Free(i)'
<1>1. \A q \in Requests : Holds(q)' => Holds(q) /\ held'[q] = held[q]
  BY JobIsDone DEF Inv
<1>2. held[r] \in Workers /\ idle \in Seq(Workers)
  BY Members, Maps DEF Inv
<1>3. ToSet(idle') \subseteq ToSet(idle) \cup {held[r]}
  BY <1>2, Appended, NothingQueued DEF Release
<1> QED BY <1>1, <1>3 DEF Free, Lacks

\* A job that goes on or ends, and leaves the processes and the dict alone.
LEMMA JobStepsAside ==
    ASSUME Inv, Ended, NEW r \in Requests, Holds(r), Wanes,
           UNCHANGED <<state, closing, slots, events, executor, ctl, shut>>,
           \A v \in Workers : proc'[v] = "closed" => proc[v] = "closed",
           \/ \E l \in Unfinished : /\ JobStays(r, l) /\ UNCHANGED idle /\ job[r] # "pop"
                                    /\ l = "close" => ~Firm(held[r])'
           \/ \E a \in {r, "timeout", "error"} :
                  JobEnds(r, a) /\ job[r] # "pop" /\ (UNCHANGED idle \/ Release(held[r]))
    PROVE  Aside /\ Loses
<1> DEFINE Alone == /\ \A q \in Requests : q # r => job'[q] = job[q] /\ held'[q] = held[q]
                    /\ job[r] # "pop" /\ (job'[r] = "close" => ~Firm(held[r])')
                    /\ \A i \in Indexes : Free(i) => Free(i)'
<1>1. Alone
  <2>1. ASSUME NEW l \in Unfinished, JobStays(r, l), UNCHANGED idle, job[r] # "pop",
               l = "close" => ~Firm(held[r])'
        PROVE  Alone
    BY <2>1, JobGoesOn, FreeStays DEF Inv
  <2>2. ASSUME NEW a \in {r, "timeout", "error"}, JobEnds(r, a), job[r] # "pop",
               UNCHANGED idle \/ Release(held[r])
        PROVE  Alone
    BY <2>2, JobIsDone, FreeEnds DEF Inv
  <2>3. CASE \E l \in Unfinished : /\ JobStays(r, l) /\ UNCHANGED idle /\ job[r] # "pop"
                                   /\ l = "close" => ~Firm(held[r])'
    <3>1. PICK l \in Unfinished : /\ JobStays(r, l) /\ UNCHANGED idle /\ job[r] # "pop"
                                  /\ l = "close" => ~Firm(held[r])'
      BY <2>3
    <3> HIDE DEF Alone
    <3> QED BY <2>1, <3>1
  <2>4. CASE \E a \in {r, "timeout", "error"} :
                JobEnds(r, a) /\ job[r] # "pop" /\ (UNCHANGED idle \/ Release(held[r]))
    <3>1. PICK a \in {r, "timeout", "error"} :
             JobEnds(r, a) /\ job[r] # "pop" /\ (UNCHANGED idle \/ Release(held[r]))
      BY <2>4
    <3> HIDE DEF Alone
    <3> QED BY <2>2, <3>1
  <2> QED BY <2>3, <2>4
<1>4. \A q \in Requests : q # r /\ job'[q] = "close" => ~Firm(held[q])'
  <2>1. \A q \in Requests : job[q] = "close" => held[q] \in Workers /\ ~Firm(held[q])
    BY Members DEF Inv, Ended, Holds, Unfinished
  <2> QED BY <1>1, <2>1 DEF Wanes, Firm
<1>5. Aside
  BY <1>1, <1>4 DEF Aside
<1>6. Loses
  BY <1>1 DEF Loses, Popping
<1> QED BY <1>5, <1>6

LEMMA WorkersAside ==
    ASSUME Inv, Ended, NEW w \in Workers, WorkerInitializes(w) \/ WorkerAnswers(w) \/ WorkerDies(w)
    PROVE  Aside /\ Loses
<1>1. UNCHANGED <<state, closing, slots, idle, events, executor, job, held, ctl, shut>>
  BY DEF WorkerInitializes, WorkerAnswers, WorkerDies, pool, calls, jobs
<1>2. Wanes /\ \A v \in Workers : proc'[v] = "closed" => proc[v] = "closed"
  BY Maps DEF Inv, WorkerInitializes, WorkerAnswers, WorkerDies, Wanes, Alive
<1>3. \A r \in Requests : job[r] = "close" => held[r] \in Workers /\ ~Firm(held[r])
  BY Members DEF Inv, Ended, Holds, Unfinished
<1>4. \A r \in Requests : job'[r] = "close" => ~Firm(held[r])'
  BY <1>1, <1>2, <1>3 DEF Wanes, Firm
<1>5. \A i \in Indexes : Free(i) => Free(i)'
  BY <1>1 DEF Free, Lacks, Holds
<1> QED BY <1>1, <1>2, <1>4, <1>5 DEF Aside, Loses, Popping

LEMMA CallsAside ==
    ASSUME Inv, Ended, NEW r \in Requests, Fetch(r) \/ Cancel(r) \/ Tick(r)
    PROVE  Aside /\ Loses
<1>1. UNCHANGED <<state, closing, slots, events, executor, proc, ctl, shut>>
  BY DEF Fetch, Admit, Acquire, Receive, Expire, Contain, Cancel, Tick, pool, workers
<1>2. Wanes
  BY <1>1, SameWanes
<1>3. \/ UNCHANGED <<job, held>> /\ (UNCHANGED idle \/ (idle # <<>> /\ idle' = Tail(idle)))
      \/ /\ idle # <<>> /\ idle' = Tail(idle) /\ job' = [job EXCEPT ![r] = "queued"]
         /\ held' = [held EXCEPT ![r] = Head(idle)] /\ job[r] = "none"
  <2>1. CASE Acquire(r)
    BY <2>1 DEF Acquire, Inv, Types
  <2>2. CASE ~Acquire(r)
    BY <2>2 DEF Fetch, Admit, Receive, Expire, Contain, Cancel, Tick, pool, jobs
  <2> QED BY <2>1, <2>2
<1>4. /\ idle # <<>> => ToSet(idle) = ToSet(Tail(idle)) \cup {Head(idle)}
      /\ job \in [Requests -> Unfinished \cup {"none", "done", "cancelled"}]
      /\ held \in [Requests -> Workers \cup {Nobody}]
  BY Maps, Dequeued DEF Inv
<1>5. /\ \A q \in Requests : job'[q] \in {"close", "pop"} <=> job[q] \in {"close", "pop"}
      /\ \A q \in Requests : job[q] \in {"close", "pop"} => job'[q] = job[q] /\ held'[q] = held[q]
  BY <1>3, <1>4
<1>6. ASSUME NEW i \in Indexes, Free(i) PROVE Free(i)'
  <2>1. Lacks(idle, i) /\ Lacks(idle, i)'
    BY <1>3, <1>4, <1>6 DEF Free, Lacks
  <2>2. ASSUME NEW q \in Requests, Holds(q)' PROVE held'[q][1] # i
    <3>1. CASE Holds(q) /\ held'[q] = held[q]
      BY <1>6, <3>1 DEF Free
    <3>2. CASE idle # <<>> /\ held'[q] = Head(idle)
      BY <1>4, <2>1, <3>2 DEF Lacks
    <3> QED BY <1>3, <1>4, <2>2, <3>1, <3>2 DEF Holds
  <2> QED BY <2>1, <2>2 DEF Free
<1>7. \A q \in Requests : job'[q] = "close" => ~Firm(held[q])'
  <2>1. \A q \in Requests : job[q] = "close" => held[q] \in Workers /\ ~Firm(held[q])
    BY Members DEF Inv, Ended, Holds, Unfinished
  <2> QED BY <1>5, <1>2, <2>1 DEF Wanes, Firm
<1>8. Aside
  BY <1>1, <1>2, <1>6, <1>7 DEF Aside
<1>9. Loses
  BY <1>1, <1>5 DEF Loses, Popping
<1> QED BY <1>8, <1>9

\* The job closes the worker, or takes it out of the dict.
LEMMA JobClosesAside ==
    ASSUME Inv, Ended, NEW r \in Requests,
           UNCHANGED <<state, closing, idle, events, executor, ctl, shut>>,
           \/ job[r] = "close" /\ JobStays(r, "pop") /\ Close(held[r]) /\ UNCHANGED slots
           \/ RetirePop(r)
    PROVE  Aside /\ Loses
<1>1. Holds(r) /\ held[r] \in Workers /\ proc[held[r]] # "unborn"
  <2>1. Holds(r)
    BY DEF Holds, Unfinished, RetirePop
  <2> QED BY <2>1, Members DEF Inv, Births, Current
<1>2. \A q \in Requests : Holds(q) /\ held[q] = held[r] => q = r
  BY <1>1, JobKnows
<1>3. CASE job[r] = "close" /\ JobStays(r, "pop") /\ Close(held[r]) /\ UNCHANGED slots
  <2>1. "pop" \in Unfinished
    BY DEF Unfinished
  <2>2. /\ job'[r] = "pop" /\ UNCHANGED held /\ \A q \in Requests : q # r => job'[q] = job[q]
        /\ \A i \in Indexes : Free(i) => Free(i)'
    BY <1>1, <1>3, <2>1, JobGoesOn, FreeStays DEF Inv
  <2>3. proc'[held[r]] = "closed" /\ \A v \in Workers : v # held[r] => proc'[v] = proc[v]
    BY <1>1, <1>3, Maps DEF Inv, Close
  <2>4. Wanes
    BY <1>1, <2>3 DEF Wanes, Alive
  <2>5. \A q \in Requests : job'[q] = "close" => ~Firm(held[q])'
    <3>1. \A q \in Requests : job[q] = "close" => held[q] \in Workers /\ ~Firm(held[q])
      BY Members DEF Inv, Ended, Holds, Unfinished
    <3> QED BY <2>2, <2>4, <3>1 DEF Wanes, Firm
  <2>6. Aside
    BY <1>1, <2>2, <2>3, <2>4, <2>5 DEF Aside
  <2>7. Loses
    BY <1>3, <2>2 DEF Loses, Popping
  <2> QED BY <2>6, <2>7
<1>4. CASE RetirePop(r)
  <2>1. /\ job[r] = "pop" /\ JobStays(r, "schedule") /\ "schedule" \in Unfinished
        /\ slots' = Without(held[r]) /\ UNCHANGED proc
    BY <1>4 DEF RetirePop, Unfinished, workers
  <2>2. /\ job'[r] = "schedule" /\ UNCHANGED held /\ \A q \in Requests : q # r => job'[q] = job[q]
        /\ \A i \in Indexes : Free(i) => Free(i)'
    BY <1>1, <2>1, JobGoesOn, FreeStays DEF Inv
  <2>3. ToSet(slots') = ToSet(slots) \ {held[r]}
    BY <1>1, <2>1, TakenOut, Maps DEF Inv, Seats
  <2>4. Wanes
    BY <2>1, SameWanes
  <2>5. \A q \in Requests : job'[q] = "close" => ~Firm(held[q])'
    BY <2>1, <2>2 DEF Ended, Firm, Alive
  <2>6. Aside
    BY <2>1, <2>2, <2>4, <2>5 DEF Aside
  <2>7. proc'[held[r]] = "closed"
    BY <2>1 DEF Inv, Births
  <2>8. Loses
    BY <2>2, <2>3, <2>7 DEF Loses, Popping
  <2> QED BY <2>6, <2>8
<1> QED BY <1>3, <1>4

LEMMA UnstoppedAside ==
    ASSUME Inv, Ended, NEW r \in Requests, job[r] = "close", Alive(held[r]), Unstopped(r, held[r]),
           UNCHANGED <<closing, executor, proc, ctl, shut>>
    PROVE  Aside /\ PutsBack
<1>1. Holds(r)
  BY DEF Holds, Unfinished
<1>2. /\ state' = "unavailable" /\ slots' = Put(held[r]) /\ idle' = <<>> /\ events' = <<>>
      /\ JobEnds(r, "error")
  BY DEF Unstopped
<1>3. \A i \in Indexes : Free(i) => Free(i)'
  BY <1>1, <1>2, FreeEnds
<1>4. /\ job'[r] = "done"
      /\ \A q \in Requests : q # r => job'[q] = job[q] /\ held'[q] = held[q]
  BY <1>1, <1>2, JobIsDone DEF Inv
<1>5. \A q \in Requests : job'[q] = "close" => ~Firm(held[q])'
  BY <1>4 DEF Ended, Firm, Alive
<1>6. Aside
  BY <1>2, <1>3, <1>5, SameWanes DEF Aside
<1>7. PutsBack
  BY <1>1, <1>2 DEF PutsBack, Ended
<1> QED BY <1>6, <1>7

LEMMA ScheduleAside ==
    ASSUME Inv, Ended, NEW r \in Requests, Schedule(r)
    PROVE  Aside /\ Loses
<1>1. /\ job[r] = "schedule" /\ Holds(r) /\ JobEnds(r, "error")
      /\ UNCHANGED <<state, closing, slots, idle, executor, proc, shut>>
      /\ events' # <<>> => events # <<>> \/ state = "available"
  BY DEF Schedule, Holds, Unfinished, workers
<1>2. ctl' = ctl \/ (ctl.at = "none" /\ ctl'.at = "loop" /\ shut.calls = 0)
  <2>1. CASE state # "available" \/ ctl.at # "none"
    BY <2>1 DEF Schedule
  <2>2. CASE state = "available" /\ ctl.at = "none"
    <3>1. UNCHANGED ctl \/ ctl' = [Idle EXCEPT !.at = "loop"]
      BY <2>2 DEF Schedule
    <3>2. shut.calls = 0 /\ "loop" \in CtlAts
      BY <2>2 DEF Inv, Phases, CtlAts
    <3> QED BY <2>2, <3>1, <3>2, Restarts DEF CtlIs
  <2> QED BY <2>1, <2>2
<1>3. /\ \A q \in Requests : q # r => job'[q] = job[q] /\ held'[q] = held[q]
      /\ job'[r] = "done"
  BY <1>1, JobIsDone DEF Inv
<1>4. \A i \in Indexes : Free(i) => Free(i)'
  BY <1>1, FreeEnds
<1>5. \A q \in Requests : job'[q] = "close" => ~Firm(held[q])'
  BY <1>1, <1>3 DEF Ended, Firm, Alive
<1>6. Aside
  BY <1>1, <1>2, <1>4, <1>5, SameWanes DEF Aside
<1>7. Loses
  BY <1>1, <1>3 DEF Loses, Popping
<1> QED BY <1>6, <1>7

LEMMA JobsAside ==
    ASSUME Inv, Ended, NEW r \in Requests, Job(r)
    PROVE  Aside /\ (Loses \/ PutsBack)
<1>1. job[r] \in {"queued", "polling", "retire", "kill", "close", "pop"} => Holds(r)
  BY DEF Holds, Unfinished
<1>2. CASE Dispatch(r) \/ Take(r) \/ GiveUpJob(r) \/ LoseWorker(r) \/ Retire(r)
  <2>1. /\ job[r] \in {"queued", "polling", "retire"}
        /\ UNCHANGED <<state, closing, slots, events, executor, proc, ctl, shut>>
    BY <1>2 DEF Dispatch, Take, GiveUpJob, LoseWorker, Retire, pool, workers
  <2>2. \/ \E l \in {"polling", "retire", "kill"} : JobStays(r, l) /\ UNCHANGED idle
        \/ \E a \in {r, "timeout", "error"} : JobEnds(r, a) /\ (UNCHANGED idle \/ Release(held[r]))
    BY <1>2 DEF Dispatch, Take, GiveUpJob, LoseWorker, Retire, Accepts, GiveUp, pool
  <2>3. {"polling", "retire", "kill"} \subseteq Unfinished
    BY DEF Unfinished
  <2>4. Wanes
    BY <2>1, SameWanes
  <2> QED BY <1>1, <2>1, <2>2, <2>3, <2>4, JobStepsAside
<1>3. CASE RetireKill(r)
  <2>1. /\ job[r] = "kill" /\ JobStays(r, "close") /\ Kill(held[r]) /\ held[r] \in Workers
        /\ UNCHANGED <<state, closing, slots, idle, events, executor, mail, ctl, shut>>
    BY <1>1, <1>3, Members DEF RetireKill, pool, Inv
  <2>2. Wanes /\ \A v \in Workers : proc'[v] = "closed" => proc[v] = "closed"
    BY <2>1, Maps DEF Inv, Kill, Wanes, Alive
  <2>3. ~Firm(held[r])'
    <3>1. UNCHANGED held
      BY <2>1 DEF JobStays
    <3> QED BY <2>1, <3>1, Maps DEF Inv, Kill, Firm, Alive
  <2>4. "close" \in Unfinished
    BY DEF Unfinished
  <2> QED BY <1>1, <2>1, <2>2, <2>3, <2>4, JobStepsAside
<1>4. CASE RetireClose(r)
  <2>1. job[r] = "close" /\ UNCHANGED <<closing, executor, ctl, shut>>
    BY <1>4 DEF RetireClose
  <2>2. CASE JobEnds(r, "error") /\ UNCHANGED <<state, slots, idle, events, proc, mail>>
    BY <1>1, <2>1, <2>2, SameWanes, JobStepsAside
  <2>3. CASE Close(held[r]) /\ JobStays(r, "pop") /\ UNCHANGED <<state, slots, idle, events>>
    BY <2>1, <2>3, JobClosesAside
  <2>4. CASE Alive(held[r]) /\ Unstopped(r, held[r]) /\ UNCHANGED <<proc, mail>>
    BY <2>1, <2>4, UnstoppedAside
  <2> QED BY <1>4, <2>2, <2>3, <2>4 DEF RetireClose
<1>5. CASE RetirePop(r)
  BY <1>5, JobClosesAside DEF RetirePop
<1>6. CASE Schedule(r)
  BY <1>6, ScheduleAside
<1> QED BY <1>2, <1>3, <1>4, <1>5, <1>6 DEF Job

\* What a list of workers must be for the controller to go through it next.
GuardedNext(s) ==
    \/ \A v \in ToSet(s) : ~Firm(v)'
    \/ ctl'.boot /\ \A v \in ToSet(s) : proc'[v] # "closed"
    \/ ~ctl'.boot /\ \E i \in Indexes :
          Free(i)' /\ \A v \in ToSet(s) : v[1] = i => v = ctl'.w /\ proc'[v] # "closed"

\* A list only gets workers that a job could not stop.
Grows(s, t) ==
    \A v \in ToSet(t) : v \in ToSet(s) \/ (~Firm(v) /\ \E r \in Requests : Holds(r) /\ held[r] = v)

LEMMA GuardedStays ==
    ASSUME Inv, Aside, UNCHANGED ctl, NEW s \in Seq(Workers), NEW t \in Seq(Workers),
           Grows(s, t), Guarded(s)
    PROVE  GuardedNext(t)
<1>1. /\ \A v \in ToSet(s) \cup ToSet(t) : v \in Workers
      /\ Wanes
  BY SomethingQueued DEF Aside
<1>2. CASE Spent(s)
  BY <1>1, <1>2 DEF GuardedNext, Grows, Spent, Wanes, Firm
<1>3. CASE ctl.boot /\ \A v \in ToSet(s) : proc[v] # "closed"
  <2>1. \A r \in Requests : ~Holds(r)
    BY <1>3, JobKnows
  <2> QED BY <1>1, <1>3, <2>1 DEF GuardedNext, Grows, Aside
<1>4. ASSUME ~ctl.boot, NEW i \in Indexes, Free(i),
             \A v \in ToSet(s) : v[1] = i => v = ctl.w /\ proc[v] # "closed"
      PROVE  GuardedNext(t)
  <2>1. \A r \in Requests : Holds(r) => held[r][1] # i
    BY <1>4 DEF Free
  <2>2. \A v \in ToSet(t) : v[1] = i => v \in ToSet(s)
    BY <2>1 DEF Grows
  <2>3. \A v \in ToSet(t) : v[1] = i => v = ctl.w /\ proc'[v] # "closed"
    BY <1>1, <1>4, <2>1, <2>2 DEF Aside
  <2>4. Free(i)'
    BY <1>4 DEF Aside
  <2> QED BY <1>4, <2>3, <2>4 DEF GuardedNext
<1> QED BY <1>2, <1>3, <1>4 DEF Guarded

\* Either way the dict grows by no worker that could be stopped, and loses none.
LEMMA AsideSlots ==
    ASSUME Inv, Inv', Aside, Loses \/ PutsBack
    PROVE  /\ Grows(slots, slots') /\ slots' \in Seq(Workers)
           /\ \A w \in Workers : Firm(w)' /\ Registered(w) => Registered(w)'
           /\ \A v \in ToSet(slots') : v \in ToSet(slots) \/ ~Firm(v)
           /\ Loses /\ slots = <<>> => slots' = <<>>
           /\ PutsBack => Resisting # {}
<1>0. slots \in Seq(Workers) /\ slots' \in Seq(Workers) /\ Distinct(slots)
  BY Maps DEF Inv, Seats, Types, TypeOK
<1>1. CASE Loses
  <2>1. Grows(slots, slots')
    BY <1>1 DEF Loses, Grows
  <2>2. \A w \in Workers : Firm(w)' /\ Registered(w) => Registered(w)'
    BY <1>1 DEF Loses, Registered, Firm, Alive
  <2>3. slots = <<>> => slots' = <<>>
    BY <1>0, <1>1, SomethingQueued DEF Loses
  <2>4. PutsBack => Resisting # {}
    BY Members DEF PutsBack, Firm
  <2> QED BY <1>0, <1>1, <2>1, <2>2, <2>3, <2>4 DEF Loses
<1>2. CASE PutsBack /\ ~Loses
  <2>1. PICK r \in Requests : /\ Holds(r) /\ Alive(held[r]) /\ ~Firm(held[r])
                              /\ slots' = Put(held[r]) /\ UNCHANGED proc
    BY <1>2 DEF PutsBack
  <2>2. held[r] \in Workers
    BY <2>1, Members DEF Inv
  <2>3. ToSet(slots') = {v \in ToSet(slots) : v[1] # held[r][1]} \cup {held[r]}
    BY <1>0, <2>1, <2>2, PutIn
  <2>4. Grows(slots, slots')
    BY <2>1, <2>3 DEF Grows
  <2>5. ASSUME NEW w \in Workers, Firm(w)', Registered(w) PROVE Registered(w)'
    <3>1. Alive(w)
      BY <2>1, <2>5 DEF Firm, Alive
    <3>2. w[1] = held[r][1] => w = held[r]
      BY <2>2, <2>1, <3>1, OthersAreDead
    <3> QED BY <2>3, <2>5, <3>2 DEF Registered
  <2>6. Resisting # {}
    BY <2>1 DEF Firm
  <2> QED BY <1>0, <1>2, <2>1, <2>3, <2>4, <2>5, <2>6
<1> QED BY <1>1, <1>2

LEMMA AsideKeeps ==
    ASSUME Inv, Inv', Careful, Aside, Loses \/ PutsBack
    PROVE  Careful'
<1>0. /\ Wanes /\ UNCHANGED <<closing, executor, shut>> /\ \A i \in Indexes : Free(i) => Free(i)'
  BY DEF Aside
<1>1. /\ Grows(slots, slots') /\ slots' \in Seq(Workers) /\ slots \in Seq(Workers)
      /\ \A w \in Workers : Firm(w)' /\ Registered(w) => Registered(w)'
      /\ \A v \in ToSet(slots') : v \in ToSet(slots) \/ ~Firm(v)
      /\ Loses /\ slots = <<>> => slots' = <<>>
      /\ PutsBack => Resisting # {}
  BY AsideSlots, Maps DEF Inv
<1>2. /\ \A v \in ToSet(slots) \cup ToSet(slots') : v \in Workers
      /\ ctl.at \in {"spawn", "register", "await", "rescue"} => ctl.w \in Workers /\ ctl.w[1] \in Indexes
  BY <1>1, SomethingQueued, Members DEF Inv, Workers
<1>3. (\A v \in ToSet(slots) : ~Firm(v)) => (\A v \in ToSet(slots') : ~Firm(v)')
  BY <1>0, <1>1, <1>2 DEF Wanes, Firm
<1>4. UNCHANGED ctl \/ ctl'.at \in {"loop"}
  BY DEF Aside
<1>5. Ended'
  <2>1. ctl.at = "sweep-close" => Head(ctl.todo) \in Workers /\ ~Firm(Head(ctl.todo))
    BY CtlTyped, Dequeued DEF Inv, Types, Careful, Ended
  <2>2. shut.at = "close" => Head(shut.todo) \in Workers /\ ~Firm(Head(shut.todo))
    BY ShutTyped, Dequeued DEF Inv, Types, Careful, Ended
  <2>3. ctl'.at = "sweep-close" => ~Firm(Head(ctl.todo))'
    BY <1>0, <1>4, <2>1 DEF Wanes, Firm
  <2>4. shut'.at = "close" => ~Firm(Head(shut.todo))'
    BY <1>0, <2>2 DEF Wanes, Firm
  <2> QED BY <2>3, <2>4 DEF Ended, Aside
<1>6. Fresh'
  <2>1. CASE PutsBack
    BY <2>1 DEF PutsBack, Fresh
  <2>2. CASE Loses
    <3>1. events' # <<>> => state' = "available" \/ closing'
      BY <1>0, <2>2 DEF Loses, Aside, Careful, Fresh
    <3>2. ASSUME state' = "available", NEW v \in ToSet(slots')
          PROVE  proc'[v] # "unborn" /\ (proc'[v] = "closed" => Popping(v)')
      <4>1. v \in ToSet(slots) /\ v \in Workers /\ state = "available"
        BY <1>2, <2>2, <3>2 DEF Loses
      <4>2. proc'[v] # "unborn"
        BY <1>0, <4>1 DEF Wanes, Careful, Fresh
      <4>3. CASE proc[v] = "closed"
        BY <2>2, <3>2, <4>1, <4>2, <4>3 DEF Careful, Fresh, Loses
      <4>4. CASE proc[v] # "closed"
        BY <4>1, <4>2, <4>4 DEF Aside, Popping
      <4> QED BY <4>3, <4>4
    <3> QED BY <3>1, <3>2 DEF Fresh
  <2> QED BY <2>1, <2>2
<1>7. Sparing'
  <2>1. CASE ctl'.at = "loop"
    BY <2>1 DEF Sparing, Sweeping
  <2>2. CASE UNCHANGED ctl
    <3>1. /\ ctl.boot => \A r \in Requests : ~Holds(r)
          /\ Bringing => \A r \in Requests : Holds(r) => held[r][1] # ctl.w[1]
      BY JobKnows DEF Inv, Seats
    <3>2. ASSUME ctl.boot, ctl.at \in {"spawn", "register", "await"}, NEW v \in ToSet(slots')
          PROVE  proc'[v] # "closed"
      <4>1. v \in ToSet(slots) /\ v \in Workers
        BY <1>1, <1>2, <3>1, <3>2 DEF Grows
      <4> QED BY <3>1, <3>2, <4>1 DEF Careful, Sparing, Aside
    <3>3. ASSUME ~ctl.boot, ctl.at \in {"spawn", "register"}, NEW v \in ToSet(slots')
          PROVE  v[1] # ctl.w[1]
      BY <1>1, <3>1, <3>3 DEF Grows, Bringing, Careful, Sparing, Lacks
    <3>4. ASSUME ~ctl.boot, ctl.at = "await", NEW v \in ToSet(slots'), v[1] = ctl.w[1]
          PROVE  v = ctl.w /\ proc'[v] # "closed"
      <4>1. v \in ToSet(slots) /\ v \in Workers
        BY <1>1, <1>2, <3>1, <3>4 DEF Grows, Bringing
      <4>2. v = ctl.w /\ proc[v] # "closed"
        BY <3>4, <4>1 DEF Careful, Sparing
      <4> QED BY <3>1, <3>4, <4>1, <4>2 DEF Aside, Bringing
    <3>5. ASSUME ctl.at = "rescue"
          PROVE  \/ \A v \in ToSet(slots') : ~Firm(v)'
                 \/ Free(ctl.w[1])' /\ \A v \in ToSet(slots') : v[1] # ctl.w[1]
      <4>1. CASE Spent(slots)
        BY <1>3, <4>1 DEF Spent
      <4>2. CASE Lacks(slots, ctl.w[1]) /\ Free(ctl.w[1])
        <5>1. Free(ctl.w[1])'
          BY <1>0, <1>2, <2>2, <3>5, <4>2
        <5>2. \A v \in ToSet(slots') : v[1] # ctl.w[1]
          BY <1>1, <4>2 DEF Grows, Lacks, Free
        <5> QED BY <5>1, <5>2
      <4> QED BY <3>5, <4>1, <4>2 DEF Careful, Sparing
    <3>6. ctl.at = "condemn" => GuardedNext(slots')
      BY <1>1, <2>2, GuardedStays DEF Careful, Sparing
    <3>7. ASSUME Sweeping PROVE GuardedNext(ctl.todo) /\ \A v \in ToSet(slots') : ~Firm(v)'
      <4>1. ctl.todo \in Seq(Workers) /\ Grows(ctl.todo, ctl.todo)
        BY CtlTyped DEF Inv, Grows
      <4>2. Guarded(ctl.todo) /\ Spent(slots)
        BY <3>7 DEF Careful, Sparing
      <4> QED BY <1>3, <2>2, <4>1, <4>2, GuardedStays DEF Spent
    <3>8. (ctl.at = "condemn" => Guarded(slots))' /\ (Sweeping => Guarded(ctl.todo) /\ Spent(slots))'
      BY <2>2, <3>6, <3>7 DEF Guarded, GuardedNext, Sweeping, Spent
    <3>9. (ctl.at = "rescue" => Spent(slots) \/ (Lacks(slots, ctl.w[1]) /\ Free(ctl.w[1])))'
      BY <2>2, <3>5 DEF Spent, Lacks
    <3>10. Sweeping => Distinct(ctl.todo)
      BY DEF Careful, Sparing
    <3> QED BY <2>2, <3>2, <3>3, <3>4, <3>8, <3>9, <3>10 DEF Sparing, Sweeping, Lacks, Distinct
  <2> QED BY <1>4, <2>1, <2>2
<1>8. Accounted'
  <2>1. \A w \in Workers : Firm(w)' => Firm(w)
    BY <1>0 DEF Wanes, Firm
  <2>2. \A w \in Workers : InHand(w) => InHand(w)'
    BY DEF InHand, Sweeping, Aside
  <2>3. state # "stopped" => state' # "stopped"
    BY DEF Loses, PutsBack
  <2> QED BY <1>0, <1>1, <2>1, <2>2, <2>3 DEF Careful, Accounted
<1>9. Emptied'
  <2>1. shut.at \notin {"none", "join"} => ctl'.at = "none"
    BY DEF Aside, Careful, Emptied, Inv, Phases
  <2>2. state' = "stopped" => state = "stopped" /\ slots' = <<>>
    BY <1>1 DEF Loses, PutsBack, Careful, Emptied
  <2> QED BY <1>0, <1>3, <2>1, <2>2 DEF Careful, Emptied, Spent
<1>10. Spare'
  BY <1>0, <1>1 DEF Careful, Spare, Loses
<1> QED BY <1>5, <1>6, <1>7, <1>8, <1>9, <1>10 DEF Careful
-----------------------------------------------------------------------------
(* The controller.                                                           *)

LEMMA WhileCtl ==
    ASSUME Inv, Careful, ctl.at # "none"
    PROVE  /\ shut.at \in {"none", "join"} /\ state # "stopped"
           /\ state \in {"stopped", "starting", "available", "unavailable", "closing"}
           /\ state = "available" => shut.calls = 0 /\ ~closing
           /\ Resisting = {} /\ state \notin {"closing", "available", "starting"} => shut.calls = 0
<1>1. shut.at \in {"none", "join"}
  BY DEF Careful, Emptied
<1>2. state # "stopped"
  BY <1>1 DEF Careful, Emptied, Inv, Phases
<1>3. state \in {"stopped", "starting", "available", "unavailable", "closing"}
  BY DEF Inv, Types, TypeOK
<1> QED BY <1>1, <1>2, <1>3 DEF Inv, Phases, Careful, Spare

\* What a step of the controller keeps whatever it does to the dict.
LEMMA CtlKeeps ==
    ASSUME Inv, Careful, ctl.at # "none", Wanes, UNCHANGED <<job, held, shut>>, state' # "stopped",
           (ctl.at = "sweep-close" => ~Firm(Head(ctl.todo)))',
           \A w \in Workers : Firm(w)' /\ (Registered(w) \/ InHand(w)) => (Registered(w) \/ InHand(w))',
           Resisting = {} /\ state' = "unavailable" => slots' = <<>> /\ shut.calls = 0
    PROVE  Ended' /\ Accounted' /\ Emptied' /\ Spare'
<1>1. shut.at \in {"none", "join"} /\ shut'.at \in {"none", "join"}
  BY WhileCtl
<1>2. Ended'
  <2>1. \A r \in Requests : job[r] = "close" => held[r] \in Workers /\ ~Firm(held[r])
    BY Members DEF Inv, Careful, Ended, Holds, Unfinished
  <2>2. \A r \in Requests : job'[r] = "close" => ~Firm(held[r])'
    BY <2>1 DEF Wanes, Firm
  <2> QED BY <1>1, <2>2 DEF Ended
<1>3. Accounted'
  <2>1. \A w \in Workers : Firm(w)' => Firm(w)
    BY DEF Wanes, Firm
  <2> QED BY <1>1, <2>1 DEF Careful, Accounted
<1>4. Emptied' /\ Spare'
  BY <1>1 DEF Emptied, Spare
<1> QED BY <1>2, <1>3, <1>4

\* The pool and its workers stay as they are.
LEMMA CtlRests ==
    ASSUME Inv, Careful, ctl.at # "none", UNCHANGED <<state, closing, slots, proc, job, held, shut>>,
           events' = events \/ ~closing, events' # <<>> => events # <<>>,
           (ctl.at = "sweep-close" => ~Firm(Head(ctl.todo)))',
           \A w \in Workers : Firm(w) /\ InHand(w) => InHand(w)'
    PROVE  Ended' /\ Accounted' /\ Emptied' /\ Spare' /\ Fresh'
<1>1. Wanes
  BY SameWanes
<1>2. Fresh'
  BY DEF Careful, Fresh, Popping
<1>3. \A w \in Workers : /\ Firm(w)' <=> Firm(w)
                         /\ Registered(w)' <=> Registered(w)
  BY DEF Firm, Alive, Registered
<1>4. Resisting = {} /\ state' = "unavailable" => slots' = <<>> /\ shut.calls = 0
  BY DEF Careful, Spare
<1> QED BY <1>1, <1>2, <1>3, <1>4, CtlKeeps, WhileCtl

LEMMA CtlSpawnCares ==
    ASSUME Inv, Inv', Careful, CtlSpawn
    PROVE  Careful'
<1>1. /\ ctl.at = "spawn" /\ ctl.w \in Workers
      /\ UNCHANGED <<state, closing, slots, idle, events, executor, job, held, shut>>
  BY SpawnIs DEF CtlSpawn, pool, jobs, Inv
<1>2. /\ \A w \in Workers : ~InHand(w)
      /\ \A i : Free(i)' <=> Free(i)
  BY <1>1 DEF InHand, Sweeping, Free, Lacks, Holds
<1>3. CASE ctl'.at = "none" /\ UNCHANGED proc
  <2>1. Sparing'
    BY <1>3 DEF Sparing, Sweeping
  <2> QED BY <1>1, <1>2, <1>3, <2>1, CtlRests DEF Careful
<1>4. CASE UNCHANGED proc /\ CtlIs("condemn", ctl.boot, Nobody, ctl.pending, ctl.todo)
  <2>1. Guarded(slots)'
    <3>1. CASE ctl.boot
      BY <1>1, <1>4, <3>1 DEF Careful, Sparing, Guarded, CtlIs
    <3>2. CASE ~ctl.boot
      <4>1. Lacks(slots, ctl.w[1]) /\ Free(ctl.w[1]) /\ ctl.w[1] \in Indexes
        BY <1>1, <3>2 DEF Careful, Sparing, Free, Lacks, Inv, Seats, Bringing, Workers
      <4> QED BY <1>1, <1>2, <1>4, <3>2, <4>1 DEF Guarded, CtlIs, Lacks
    <3> QED BY <3>1, <3>2
  <2>2. Sparing'
    BY <1>4, <2>1 DEF Sparing, Sweeping, CtlIs
  <2> QED BY <1>1, <1>2, <1>4, <2>2, CtlRests DEF Careful, CtlIs
<1>5. CASE /\ proc' = [proc EXCEPT ![ctl.w] = "starting"]
           /\ CtlIs("register", ctl.boot, ctl.w, ctl.pending, ctl.todo)
  <2>1. /\ proc[ctl.w] = "unborn" /\ proc'[ctl.w] = "starting"
        /\ \A v \in Workers : v # ctl.w => proc'[v] = proc[v]
    <3>1. proc[ctl.w] = "unborn"
      <4>1. ~(ctl.w[2] < ctl.w[2])
        BY <1>1 DEF Workers, Generations
      <4> QED BY <1>1, <4>1 DEF Inv, Births
    <3> QED BY <1>1, <1>5, <3>1, Maps DEF Inv
  <2>2. shut.at \in {"none", "join"} /\ state # "stopped"
    BY <1>1, WhileCtl
  <2>3. /\ ctl'.at = "register" /\ ctl'.w = ctl.w /\ ctl'.boot = ctl.boot
        /\ \A v \in ToSet(slots) : v \in Workers
    BY <1>5, Members DEF CtlIs, Inv
  <2>4. Ended'
    <3>1. ASSUME NEW r \in Requests, job[r] = "close" PROVE ~Firm(held[r])'
      <4>1. held[r] \in Workers /\ proc[held[r]] # "unborn" /\ ~Firm(held[r])
        BY <3>1, Members DEF Inv, Births, Current, Holds, Unfinished, Careful, Ended
      <4> QED BY <1>1, <2>1, <4>1 DEF Firm, Alive
    <3> QED BY <1>1, <2>2, <2>3, <3>1 DEF Ended
  <2>5. Fresh'
    BY <1>1, <2>1, <2>3 DEF Careful, Fresh, Popping
  <2>6. Sparing'
    BY <1>1, <2>1, <2>3 DEF Careful, Sparing, Sweeping, Lacks
  <2>7. Accounted'
    <3>1. \A v : v = ctl.w => InHand(v)'
      BY <2>3 DEF InHand
    <3>2. \A v \in Workers : v # ctl.w /\ Firm(v)' => Firm(v)
      BY <2>1 DEF Firm, Alive
    <3>3. ASSUME NEW v \in Workers, Firm(v), shut.calls =< 1 PROVE Registered(v)
      BY <1>2, <2>2, <3>3 DEF Careful, Accounted
    <3>4. \A v \in Workers : Registered(v)' <=> Registered(v)
      BY <1>1 DEF Registered
    <3> QED BY <1>1, <3>1, <3>2, <3>3, <3>4 DEF Accounted
  <2>8. Emptied' /\ Spare'
    BY <1>1, <2>2 DEF Careful, Emptied, Spare
  <2> QED BY <2>4, <2>5, <2>6, <2>7, <2>8 DEF Careful
<1> QED BY <1>3, <1>4, <1>5, SpawnIs DEF Inv, CtlIs

LEMMA WantedCares ==
    ASSUME Inv, Inv', Careful, CtlRegister, Wanted
    PROVE  Careful'
<1>1. /\ ctl.at = "register" /\ ctl.w \in Workers /\ slots' = Put(ctl.w)
      /\ UNCHANGED <<state, closing, idle, events, executor, proc, job, held, shut>>
      /\ ctl'.at \in {"spawn", "await"} /\ ctl'.boot = ctl.boot
      /\ ~ctl.boot => ctl'.at = "await" /\ ctl'.w = ctl.w
  BY RegisterIs DEF CtlRegister, CtlIs, jobs, Inv
<1>2. ToSet(slots') = {v \in ToSet(slots) : v[1] # ctl.w[1]} \cup {ctl.w}
  BY <1>1, PutIn, Maps DEF Inv, Seats
<1>3. /\ Current(ctl.w) /\ proc[ctl.w] # "closed"
      /\ state = IF ctl.boot THEN "starting" ELSE "available"
  BY <1>1 DEF Inv, Births, Known, Wanted
<1>4. \A w \in Workers : Firm(w)' /\ (Registered(w) \/ InHand(w)) => Registered(w)'
  <2>1. \A w \in Workers : Firm(w)' /\ w[1] = ctl.w[1] => w = ctl.w
    BY <1>1, <1>3, OthersAreDead DEF Firm, Alive
  <2>2. \A w \in Workers : InHand(w) => w = ctl.w
    BY <1>1 DEF InHand, Sweeping
  <2> QED BY <1>2, <2>1, <2>2 DEF Registered
<1>5. Fresh'
  BY <1>1, <1>2, <1>3 DEF Careful, Fresh, Popping, Current
<1>6. Sparing'
  BY <1>1, <1>2, <1>3 DEF Careful, Sparing, Sweeping
<1> QED BY <1>1, <1>3, <1>4, <1>5, <1>6, SameWanes, CtlKeeps DEF Careful

LEMMA UnwantedCares ==
    ASSUME Inv, Inv', Careful, CtlRegister, ~Wanted
    PROVE  Careful'
<1>1. /\ ctl.at = "register" /\ ctl.w \in Workers
      /\ UNCHANGED <<state, closing, slots, idle, events, executor, job, held, shut>>
      /\ state # "available"
  BY RegisterIs, WhileCtl DEF CtlRegister, jobs, Inv, Phases, Wanted
<1>2. /\ \A w \in Workers : InHand(w) => w = ctl.w
      /\ \A i : Free(i)' <=> Free(i)
  BY <1>1 DEF InHand, Sweeping, Free, Lacks, Holds
<1>3. CASE Close(ctl.w) /\ ctl'.at = "exit"
  <2>1. proc'[ctl.w] = "closed" /\ proc[ctl.w] # "unborn" /\ \A v \in Workers : v # ctl.w => proc'[v] = proc[v]
    BY <1>1, <1>3, Maps DEF Close, Inv, Births, Current
  <2>2. Wanes
    BY <1>1, <2>1 DEF Wanes, Alive
  <2>3. \A w \in Workers : Firm(w)' /\ (Registered(w) \/ InHand(w)) => Registered(w)'
    BY <1>1, <1>2, <2>1 DEF Firm, Alive, Registered
  <2>4. Fresh' /\ Sparing'
    BY <1>1, <1>3 DEF Careful, Fresh, Sparing, Sweeping
  <2>5. Resisting = {} /\ state' = "unavailable" => slots' = <<>> /\ shut.calls = 0
    BY <1>1 DEF Careful, Spare
  <2> QED BY <1>1, <1>3, <2>2, <2>3, <2>4, <2>5, CtlKeeps, WhileCtl DEF Careful
<1>4. CASE /\ ctl.w \in Resisting /\ UNCHANGED <<proc, mail>>
           /\ \/ ctl.boot /\ CtlIs("condemn", ctl.boot, Nobody, ctl.pending, ctl.todo)
              \/ ~ctl.boot /\ CtlIs("rescue", ctl.boot, ctl.w, ctl.pending, ctl.todo)
  <2>1. ASSUME ctl.boot, CtlIs("condemn", ctl.boot, Nobody, ctl.pending, ctl.todo) PROVE Sparing'
    BY <1>1, <1>4, <2>1 DEF Careful, Sparing, Sweeping, Guarded, CtlIs
  <2>2. ASSUME ~ctl.boot, CtlIs("rescue", ctl.boot, ctl.w, ctl.pending, ctl.todo) PROVE Sparing'
    <3>1. Lacks(slots, ctl.w[1]) /\ Free(ctl.w[1])
      BY <1>1, <2>2 DEF Careful, Sparing, Free, Lacks, Inv, Seats, Bringing
    <3> QED BY <1>1, <1>2, <2>2, <3>1 DEF Sparing, Sweeping, Lacks, CtlIs
  <2>3. Sparing'
    BY <1>4, <2>1, <2>2
  <2> QED BY <1>1, <1>2, <1>4, <2>3, CtlRests DEF Careful, CtlIs, Firm
<1> QED BY <1>3, <1>4, RegisterIs DEF Inv, CtlIs

LEMMA AwaitCares ==
    ASSUME Inv, Inv', Careful, CtlReady \/ CtlGivesUp \/ CtlExit
    PROVE  Careful'
<1>1. /\ UNCHANGED <<state, closing, slots, idle, events, executor, proc, job, held, shut>>
      /\ ctl.at \in {"await", "exit"}
  BY DEF CtlReady, CtlGivesUp, CtlExit, pool, workers, jobs
<1>2. /\ \A w \in Workers : ~InHand(w)
      /\ \A i : Free(i)' <=> Free(i)
  BY <1>1 DEF InHand, Sweeping, Free, Lacks, Holds
<1>3. CASE CtlReady
  <2>1. ctl'.at = "await" /\ ctl'.boot = ctl.boot /\ ctl'.w = ctl.w /\ ctl.at = "await"
    BY <1>3, ReadyIs DEF Inv, CtlIs, CtlReady
  <2>2. Sparing'
    BY <1>1, <2>1 DEF Careful, Sparing, Sweeping
  <2> QED BY <1>1, <1>2, <2>1, <2>2, CtlRests DEF Careful
<1>4. CASE CtlGivesUp
  <2>1. ctl'.at = "condemn" /\ ctl'.boot = ctl.boot /\ ctl'.w = ctl.w /\ ctl.at = "await"
    <3>1. "condemn" \in CtlAts
      BY DEF CtlAts
    <3> QED BY <1>4, <3>1, Goes DEF Inv, CtlIs, CtlGivesUp
  <2>2. GuardedNext(slots)
    <3>1. CASE ctl.boot
      BY <1>1, <2>1, <3>1 DEF Careful, Sparing, GuardedNext
    <3>2. CASE ~ctl.boot
      <4>1. Free(ctl.w[1]) /\ ctl.w[1] \in Indexes
        BY <2>1, <3>2, Members DEF Free, Lacks, Inv, Seats, Bringing, Workers
      <4>2. \A v \in ToSet(slots) : v[1] = ctl.w[1] => v = ctl.w /\ proc[v] # "closed"
        BY <2>1, <3>2 DEF Careful, Sparing
      <4> QED BY <1>1, <1>2, <2>1, <3>2, <4>1, <4>2 DEF GuardedNext
    <3> QED BY <3>1, <3>2
  <2>3. Sparing'
    BY <1>1, <2>1, <2>2 DEF Sparing, Sweeping, Guarded, GuardedNext, Spent
  <2> QED BY <1>1, <1>2, <2>1, <2>3, CtlRests DEF Careful
<1>5. CASE CtlExit
  <2>1. ctl'.at \in {"loop", "none"}
    BY <1>5, ExitIs DEF CtlIs
  <2>2. Sparing'
    BY <2>1 DEF Sparing, Sweeping
  <2> QED BY <1>1, <1>2, <2>1, <2>2, CtlRests DEF Careful
<1> QED BY <1>3, <1>4, <1>5

LEMMA CtlEnlistCares ==
    ASSUME Inv, Inv', Careful, CtlEnlist
    PROVE  Careful'
<1>1. /\ ctl.at = "await" /\ UNCHANGED <<closing, slots, events, executor, proc, job, held, shut>>
      /\ ctl'.at \in {"none", "loop", "exit"}
      /\ state' = state \/ state' = "available"
  BY EnlistIs DEF CtlEnlist, CtlIs, workers, jobs, Inv
<1>2. /\ \A w \in Workers : ~InHand(w)
      /\ \A w \in Workers : Registered(w)' <=> Registered(w)
  BY <1>1 DEF InHand, Sweeping, Registered
<1>3. Sparing'
  BY <1>1 DEF Sparing, Sweeping
<1>4. Fresh'
  <2>1. CASE state' = state
    BY <1>1, <2>1 DEF Careful, Fresh, Popping
  <2>2. CASE state' # state
    <3>1. state = "starting" /\ state' = "available"
      BY <1>1, <2>2, EnlistIs DEF Wanted, Inv
    <3>2. \A v \in ToSet(slots) : proc[v] \notin {"unborn", "closed"}
      BY <3>1 DEF Inv, Births, Known
    <3> QED BY <1>1, <3>1, <3>2 DEF Fresh
  <2> QED BY <2>1, <2>2
<1>5. state' # "stopped" /\ (Resisting = {} /\ state' = "unavailable" => slots' = <<>> /\ shut.calls = 0)
  BY <1>1, WhileCtl DEF Careful, Spare
<1> QED BY <1>1, <1>2, <1>3, <1>4, <1>5, SameWanes, CtlKeeps DEF Careful

LEMMA CtlLoopCares ==
    ASSUME Inv, Inv', Careful, CtlLoop
    PROVE  Careful'
<1>1. /\ ctl.at = "loop" /\ UNCHANGED <<state, closing, slots, idle, executor, proc, job, held, shut>>
  BY DEF CtlLoop, workers, jobs
<1>2. \A w \in Workers : ~InHand(w)
  BY <1>1 DEF InHand, Sweeping
<1>3. CASE UNCHANGED events /\ ctl'.at = "exit"
  <2>1. Sparing'
    BY <1>3 DEF Sparing, Sweeping
  <2> QED BY <1>1, <1>2, <1>3, <2>1, CtlRests DEF Careful
<1>4. CASE /\ events # <<>> /\ ~closing /\ Head(events) \in Workers
           /\ CtlIs("spawn", FALSE, <<Head(events)[1], Head(events)[2] + 1>>, {}, <<>>)
  <2> DEFINE e == Head(events)
  <2>1. /\ e \in Workers /\ e \in ToSet(events) /\ state = "available"
        /\ Current(e) /\ proc[e] = "closed"
        /\ \A r \in Requests : Holds(r) => held[r][1] # e[1]
    <3>1. e \in Workers /\ e \in ToSet(events)
      BY <1>4, Dequeued, Maps DEF Inv
    <3>2. state = "available"
      BY <1>4 DEF Careful, Fresh
    <3> QED BY <3>1, <3>2 DEF Inv, Births, Seats
  <2> HIDE DEF e
  <2>2. ASSUME NEW v \in ToSet(slots), v[1] = e[1] PROVE FALSE
    <3>1. v \in Workers
      BY <2>2, Members DEF Inv
    <3>2. proc[v] = "closed"
      <4>1. proc[v] # "unborn"
        BY <2>1, <2>2 DEF Careful, Fresh
      <4>2. v = e \/ v[2] < e[2] \/ v[2] > e[2]
        <5>1. v = <<v[1], v[2]>> /\ e = <<e[1], e[2]>> /\ v[2] \in Nat /\ e[2] \in Nat
          BY <2>1, <3>1 DEF Workers, Generations
        <5> QED BY <2>2, <5>1
      <4> QED BY <2>1, <2>2, <3>1, <4>1, <4>2 DEF Current, Inv, Births
    <3>3. PICK r \in Requests : job[r] = "pop" /\ held[r] = v
      BY <2>1, <2>2, <3>2 DEF Careful, Fresh, Popping
    <3> QED BY <2>1, <2>2, <3>3 DEF Holds, Unfinished
  <2>3. ctl'.at = "spawn" /\ ~ctl'.boot /\ ctl'.w[1] = e[1]
    BY <1>4 DEF CtlIs, e
  <2>4. Sparing'
    BY <1>1, <2>2, <2>3 DEF Sparing, Sweeping, Lacks
  <2> QED BY <1>1, <1>2, <1>4, <2>3, <2>4, CtlRests DEF Careful
<1> QED BY <1>3, <1>4, LoopIs DEF Inv, CtlIs

LEMMA CtlCondemnCares ==
    ASSUME Inv, Inv', Careful, CtlCondemn
    PROVE  Careful'
<1>1. /\ ctl.at = "condemn" /\ UNCHANGED <<closing, executor, proc, job, held, shut>>
      /\ \A w \in Workers : ~InHand(w)
  BY CondemnIs DEF CtlCondemn, pool, workers, jobs, Inv, InHand, Sweeping
<1>2. CASE UNCHANGED pool /\ ctl'.at = "exit"
  <2>1. Sparing'
    BY <1>2 DEF Sparing, Sweeping
  <2> QED BY <1>1, <1>2, <2>1, CtlRests DEF Careful, pool
<1>3. CASE /\ state # "closing" /\ state' = "unavailable"
           /\ slots' = <<>> /\ idle' = <<>> /\ events' = <<>>
           /\ CtlIs("sweep", ctl.boot, ctl.w, ctl.pending, slots)
  <2>1. ctl'.at = "sweep" /\ ctl'.boot = ctl.boot /\ ctl'.w = ctl.w /\ ctl'.todo = slots
    BY <1>3 DEF CtlIs
  <2>2. GuardedNext(slots)
    <3>1. Guarded(slots)
      BY <1>1 DEF Careful, Sparing
    <3>2. \A i : Free(i) => Free(i)'
      BY <1>1, <1>3, NothingQueued DEF Free, Lacks, Holds
    <3> QED BY <1>1, <2>1, <3>1, <3>2 DEF Guarded, GuardedNext, Spent, Firm, Alive
  <2>3. Sparing'
    <3>1. Distinct(slots)
      BY DEF Inv, Seats
    <3> QED BY <1>3, <2>1, <2>2, <3>1, NothingQueued DEF Sparing, Sweeping, Guarded, GuardedNext, Spent, Distinct
  <2>4. \A w \in Workers : Registered(w) => InHand(w)'
    BY <2>1 DEF Registered, InHand, Sweeping
  <2>5. Resisting = {} => shut.calls = 0
    <3>1. state \in {"available", "starting"} => shut.calls = 0
      BY DEF Inv, Phases
    <3> QED BY <1>1, <1>3, <3>1, WhileCtl
  <2>6. Fresh'
    BY <1>3 DEF Fresh
  <2> QED BY <1>1, <1>3, <2>1, <2>3, <2>4, <2>5, <2>6, SameWanes, CtlKeeps DEF Careful
<1> QED BY <1>2, <1>3, CondemnIs DEF Inv, CtlIs

\* The controller's list, shortened, is as good as it was.
LEMMA ListStays ==
    ASSUME Inv, Wanes, NEW s \in Seq(Workers), NEW t \in Seq(Workers), Guarded(s),
           ToSet(t) \subseteq ToSet(s), UNCHANGED <<idle, job, held>>,
           \A v \in ToSet(t) : proc'[v] = "closed" => proc[v] = "closed",
           ctl'.boot = ctl.boot, ctl'.w = ctl.w
    PROVE  GuardedNext(t)
<1>1. /\ \A v \in ToSet(s) : v \in Workers
      /\ \A i : Free(i)' <=> Free(i)
  BY SomethingQueued DEF Free, Lacks, Holds
<1>2. CASE Spent(s)
  BY <1>1, <1>2 DEF GuardedNext, Spent, Wanes, Firm
<1>3. CASE ~Spent(s)
  BY <1>1, <1>3 DEF Guarded, GuardedNext
<1> QED BY <1>2, <1>3

LEMMA CtlSweepCares ==
    ASSUME Inv, Inv', Careful, CtlSweep
    PROVE  Careful'
<1>1. /\ ctl.at = "sweep" /\ state \notin {"available", "starting"}
      /\ UNCHANGED <<state, closing, slots, idle, events, executor, job, held, shut>>
  BY DEF CtlSweep, Inv, Phases, pool, jobs
<1>2. CASE ctl.todo = <<>> /\ UNCHANGED proc /\ ctl'.at = "exit"
  <2>1. \A w \in Workers : ~InHand(w)
    BY <1>1, <1>2, NothingQueued DEF InHand, Sweeping
  <2>2. Sparing'
    BY <1>2 DEF Sparing, Sweeping
  <2> QED BY <1>1, <1>2, <2>1, <2>2, CtlRests DEF Careful
<1>3. CASE /\ ctl.todo # <<>> /\ Head(ctl.todo) \in Workers /\ Kill(Head(ctl.todo))
           /\ CtlIs("sweep-close", ctl.boot, ctl.w, ctl.pending, ctl.todo)
  <2>1. ctl'.at = "sweep-close" /\ ctl'.boot = ctl.boot /\ ctl'.w = ctl.w /\ ctl'.todo = ctl.todo
    BY <1>3 DEF CtlIs
  <2>2. Wanes /\ \A v \in Workers : proc'[v] = "closed" => proc[v] = "closed"
    BY <1>3, Maps DEF Inv, Kill, Wanes, Alive
  <2>3. (ctl.at = "sweep-close" => ~Firm(Head(ctl.todo)))'
    BY <1>3, <2>1, Maps DEF Inv, Kill, Firm, Alive
  <2>4. \A w \in Workers : /\ Registered(w)' <=> Registered(w)
                           /\ InHand(w) => InHand(w)'
    BY <1>1, <2>1 DEF Registered, InHand, Sweeping
  <2>5. /\ ctl.todo \in Seq(Workers) /\ \A v \in ToSet(ctl.todo) \cup ToSet(slots) : v \in Workers
        /\ Guarded(ctl.todo) /\ Distinct(ctl.todo) /\ Spent(slots)
    BY <1>1, CtlTyped, SomethingQueued, Maps DEF Inv, Careful, Sparing, Sweeping
  <2>6. GuardedNext(ctl.todo)
    BY <1>1, <2>1, <2>2, <2>5, ListStays
  <2>7. Sparing'
    <3>1. \A v \in ToSet(slots) : ~Firm(v)'
      BY <2>2, <2>5 DEF Wanes, Firm, Spent
    <3> QED BY <1>1, <2>1, <2>5, <2>6, <3>1 DEF Sparing, Sweeping, Guarded, GuardedNext, Spent, Distinct
  <2>8. Fresh'
    BY <1>1 DEF Careful, Fresh
  <2>9. Resisting = {} /\ state' = "unavailable" => slots' = <<>> /\ shut.calls = 0
    BY <1>1 DEF Careful, Spare
  <2> QED BY <1>1, <2>2, <2>3, <2>4, <2>7, <2>8, <2>9, CtlKeeps, WhileCtl DEF Careful
<1> QED BY <1>2, <1>3, SweepIs DEF Inv, CtlIs

\* A ValueError: of two slots, the one that is left has no worker that could be
\* stopped, or the one the replacement controller has just spawned.
LEMMA DropsNothing ==
    ASSUME MaxLive =< 2, Inv, Careful, ctl.at = "sweep-close", proc[Head(ctl.todo)] = "closed",
           NEW w \in ToSet(ctl.todo), Firm(w)
    PROVE  w = ctl.w /\ ~ctl.boot
<1>1. /\ ctl.todo \in Seq(Workers) /\ ctl.todo # <<>> /\ Distinct(ctl.todo) /\ Guarded(ctl.todo)
      /\ Head(ctl.todo) \in ToSet(ctl.todo) /\ \A v \in ToSet(ctl.todo) : v \in Workers
  <2>1. ctl.todo \in Seq(Workers) /\ ctl.todo # <<>> /\ Distinct(ctl.todo) /\ Guarded(ctl.todo)
    BY CtlTyped DEF Inv, Types, Careful, Sparing, Sweeping
  <2> QED BY <2>1, Dequeued, SomethingQueued
<1>2. Head(ctl.todo) # w
  BY DEF Firm, Alive
<1>3. w[1] # Head(ctl.todo)[1]
  <2>1. w \in ToSet(Tail(ctl.todo))
    BY <1>1, <1>2, Dequeued
  <2> QED BY <1>1, <2>1, Dequeued
<1>4. PICK i \in Indexes : ~ctl.boot /\ \A v \in ToSet(ctl.todo) : v[1] = i => v = ctl.w /\ proc[v] # "closed"
  BY <1>1 DEF Guarded, Spent
<1>5. Head(ctl.todo)[1] # i
  BY <1>1, <1>4
<1>6. w[1] \in Indexes /\ Head(ctl.todo)[1] \in Indexes
  BY <1>1 DEF Workers
<1>7. w[1] = i
  BY <1>3, <1>5, <1>6, PoolAssumption DEF Indexes
<1> QED BY <1>4, <1>7

LEMMA CtlSweepCloseCares ==
    ASSUME MaxLive =< 2, Inv, Inv', Careful, CtlSweepClose
    PROVE  Careful'
<1> DEFINE h == Head(ctl.todo)
<1>1. /\ ctl.at = "sweep-close" /\ state \notin {"available", "starting"} /\ ~Firm(h)
      /\ UNCHANGED <<state, closing, idle, events, executor, job, held, shut>>
  BY DEF CtlSweepClose, Inv, Phases, jobs, Careful, Ended
<1>2. /\ ctl.todo \in Seq(Workers) /\ ctl.todo # <<>> /\ h \in Workers
      /\ \A v \in ToSet(ctl.todo) \cup ToSet(slots) : v \in Workers
      /\ Guarded(ctl.todo) /\ Distinct(ctl.todo) /\ Spent(slots)
  BY <1>1, CtlTyped, SomethingQueued, Maps, SweepCloseIs DEF Inv, Types, Careful, Sparing, Sweeping
<1>3. /\ Tail(ctl.todo) \in Seq(Workers) /\ ToSet(ctl.todo) = ToSet(Tail(ctl.todo)) \cup {h}
      /\ Distinct(Tail(ctl.todo)) /\ \A v \in ToSet(Tail(ctl.todo)) : v # h
  BY <1>2, Dequeued
<1>4. Fresh'
  BY <1>1 DEF Careful, Fresh
<1>5. state # "stopped" /\ (Resisting = {} /\ state = "unavailable" => slots = <<>> /\ shut.calls = 0)
  BY <1>1, WhileCtl DEF Careful, Spare
<1>6. CASE /\ proc[h] = "closed" /\ UNCHANGED <<proc, slots>>
           /\ \/ ctl.w = Nobody /\ CtlIs("exit", ctl.boot, ctl.w, ctl.pending, ctl.todo)
              \/ /\ ctl.w # Nobody /\ ctl.boot
                 /\ CtlIs("condemn", ctl.boot, Nobody, ctl.pending, ctl.todo)
              \/ /\ ctl.w # Nobody /\ ~ctl.boot
                 /\ CtlIs("rescue", ctl.boot, ctl.w, ctl.pending, ctl.todo)
  <2>1. \A w \in Workers : Firm(w) /\ InHand(w) => w = ctl.w /\ ~ctl.boot /\ ctl.w # Nobody
    <3>1. Nobody \notin Workers
      BY DEF Nobody, Workers, Indexes
    <3>2. \A w \in Workers : InHand(w) => w \in ToSet(ctl.todo)
      BY <1>1 DEF InHand, Sweeping
    <3> QED BY <1>1, <1>6, <3>1, <3>2, DropsNothing
  <2>2. \A w \in Workers : Firm(w) /\ InHand(w) => InHand(w)'
    BY <1>6, <2>1 DEF InHand, CtlIs
  <2>3. Sparing'
    <3>1. \A v \in ToSet(slots) : ~Firm(v)'
      BY <1>2, <1>6 DEF Spent, Firm, Alive
    <3> QED BY <1>6, <3>1 DEF Sparing, Sweeping, Guarded, Spent, CtlIs
  <2> QED BY <1>1, <1>6, <2>2, <2>3, CtlRests DEF Careful, CtlIs
<1>7. CASE /\ proc[h] = "dead" /\ Close(h) /\ UNCHANGED slots
           /\ CtlIs("sweep", ctl.boot, ctl.w, ctl.pending, Tail(ctl.todo))
  <2>1. ctl'.at = "sweep" /\ ctl'.boot = ctl.boot /\ ctl'.w = ctl.w /\ ctl'.todo = Tail(ctl.todo)
    BY <1>7 DEF CtlIs
  <2>2. proc'[h] = "closed" /\ \A v \in Workers : v # h => proc'[v] = proc[v]
    BY <1>2, <1>7, Maps DEF Inv, Close
  <2>3. Wanes
    BY <1>2, <1>7, <2>2 DEF Wanes, Alive
  <2>4. \A w \in Workers : /\ Registered(w)' <=> Registered(w)
                           /\ Firm(w)' /\ InHand(w) => InHand(w)'
    BY <1>1, <1>3, <1>7, <2>1, <2>2 DEF Registered, InHand, Sweeping, Firm, Alive
  <2>5. GuardedNext(Tail(ctl.todo))
    <3>1. \A v \in ToSet(Tail(ctl.todo)) : proc'[v] = "closed" => proc[v] = "closed"
      BY <1>2, <1>3, <2>2
    <3> QED BY <1>1, <1>2, <1>3, <2>1, <2>3, <3>1, ListStays
  <2>6. Sparing'
    <3>1. \A v \in ToSet(slots) : ~Firm(v)'
      BY <1>2, <2>3 DEF Wanes, Firm, Spent
    <3> QED BY <1>3, <1>7, <2>1, <2>5, <3>1 DEF Sparing, Sweeping, Guarded, GuardedNext, Spent, Distinct
  <2> QED BY <1>1, <1>4, <1>5, <1>7, <2>1, <2>3, <2>4, <2>6, CtlKeeps DEF Careful
<1>8. CASE /\ Alive(h) /\ slots' = Put(h) /\ UNCHANGED proc
           /\ CtlIs("sweep", ctl.boot, ctl.w, ctl.pending, Tail(ctl.todo))
  <2>1. ctl'.at = "sweep" /\ ctl'.boot = ctl.boot /\ ctl'.w = ctl.w /\ ctl'.todo = Tail(ctl.todo)
    BY <1>8 DEF CtlIs
  <2>2. ToSet(slots') = {v \in ToSet(slots) : v[1] # h[1]} \cup {h}
    BY <1>2, <1>8, PutIn, Maps DEF Inv, Seats
  <2>3. Wanes
    BY <1>8, SameWanes
  <2>4. \A w \in Workers : Firm(w)' /\ (Registered(w) \/ InHand(w)) => (Registered(w) \/ InHand(w))'
    <3>1. \A w \in Workers : Firm(w)' /\ w[1] = h[1] => w = h
      BY <1>2, <1>8, OthersAreDead DEF Firm, Alive
    <3> QED BY <1>1, <1>3, <2>1, <2>2, <3>1 DEF Registered, InHand, Sweeping
  <2>5. GuardedNext(Tail(ctl.todo))
    BY <1>1, <1>2, <1>3, <1>8, <2>1, <2>3, ListStays
  <2>6. Sparing'
    <3>1. \A v \in ToSet(slots') : ~Firm(v)'
      BY <1>1, <1>2, <1>8, <2>2 DEF Firm, Alive, Spent
    <3> QED BY <1>3, <2>1, <2>5, <3>1 DEF Sparing, Sweeping, Guarded, GuardedNext, Spent, Distinct
  <2>7. Resisting # {}
    BY <1>1, <1>8 DEF Firm
  <2> QED BY <1>1, <1>4, <1>5, <2>1, <2>3, <2>4, <2>6, <2>7, CtlKeeps DEF Careful
<1> QED BY <1>6, <1>7, <1>8, SweepCloseIs DEF Inv

LEMMA CtlRescueCares ==
    ASSUME Inv, Inv', Careful, CtlRescue
    PROVE  Careful'
<1>1. /\ ctl.at = "rescue" /\ state \notin {"available", "starting"} /\ ctl.w \in Workers /\ ~ctl.boot
      /\ UNCHANGED <<state, closing, slots, idle, events, executor, job, held, shut>>
  BY RescueIs DEF CtlRescue, Inv, Types, Phases, pool, jobs
<1>2. /\ \A w \in Workers : InHand(w) => w = ctl.w
      /\ \A i : Free(i)' <=> Free(i)
  BY <1>1 DEF InHand, Sweeping, Free, Lacks, Holds
<1>3. CASE /\ proc[ctl.w] = "closed" \/ ctl.w \in Resisting
           /\ UNCHANGED proc /\ ctl'.at = "exit"
  <2>1. Sparing'
    BY <1>3 DEF Sparing, Sweeping
  <2>2. \A w \in Workers : ~(Firm(w) /\ InHand(w))
    BY <1>2, <1>3 DEF Firm, Alive
  <2> QED BY <1>1, <1>3, <2>1, <2>2, CtlRests DEF Careful
<1>4. CASE /\ Close(ctl.w) /\ CtlIs("condemn", ctl.boot, Nobody, ctl.pending, ctl.todo)
  <2>1. /\ ctl'.at = "condemn" /\ ~ctl'.boot
        /\ proc'[ctl.w] = "closed" /\ \A v \in Workers : v # ctl.w => proc'[v] = proc[v]
    BY <1>1, <1>4, Maps DEF CtlIs, Close, Inv
  <2>2. Wanes
    <3>1. proc[ctl.w] # "unborn"
      <4>1. ctl.w # Nobody
        BY <1>1 DEF Nobody, Workers, Indexes
      <4> QED BY <1>1, <4>1 DEF Inv, Births
    <3> QED BY <1>1, <2>1, <3>1 DEF Wanes, Alive
  <2>3. \A w \in Workers : Firm(w)' /\ (Registered(w) \/ InHand(w)) => Registered(w)'
    BY <1>1, <1>2, <2>1 DEF Registered, Firm, Alive
  <2>4. Guarded(slots)'
    <3>1. CASE Spent(slots)
      <4>1. \A v \in ToSet(slots) : ~Firm(v)'
        BY <2>2, <3>1, Members DEF Inv, Wanes, Firm, Spent
      <4> QED BY <1>1, <4>1 DEF Guarded, Spent
    <3>2. CASE Lacks(slots, ctl.w[1]) /\ Free(ctl.w[1])
      <4>1. ctl.w[1] \in Indexes
        BY <1>1 DEF Workers
      <4> QED BY <1>1, <1>2, <2>1, <3>2, <4>1 DEF Guarded, Lacks
    <3> QED BY <1>1, <3>1, <3>2 DEF Careful, Sparing
  <2>5. Sparing'
    BY <2>1, <2>4 DEF Sparing, Sweeping
  <2>6. Fresh'
    BY <1>1 DEF Careful, Fresh
  <2>7. Resisting = {} /\ state' = "unavailable" => slots' = <<>> /\ shut.calls = 0
    BY <1>1 DEF Careful, Spare
  <2> QED BY <1>1, <2>1, <2>2, <2>3, <2>5, <2>6, <2>7, CtlKeeps, WhileCtl DEF Careful
<1> QED BY <1>3, <1>4, RescueIs DEF Inv, CtlIs, workers

LEMMA CtlCares ==
    ASSUME MaxLive =< 2, Inv, Inv', Careful, Ctl
    PROVE  Careful'
BY CtlSpawnCares, WantedCares, UnwantedCares, AwaitCares, CtlEnlistCares, CtlCondemnCares,
   CtlSweepCares, CtlSweepCloseCares, CtlRescueCares, CtlLoopCares DEF Ctl

-----------------------------------------------------------------------------
(* start and shutdown.                                                       *)

LEMMA StartCares ==
    ASSUME Inv, Inv', Careful, NEW enabled \in BOOLEAN, Start(enabled)
    PROVE  Careful'
<1>1. /\ state = "stopped" /\ shut.calls = 0 /\ shut.at = "none"
      /\ slots = <<>> /\ events = <<>> /\ ctl.at = "none"
      /\ \A r \in Requests : job[r] = "none"
      /\ \A w \in Workers : proc[w] = "unborn"
      /\ UNCHANGED <<closing, slots, idle, events, proc, job, held, shut>>
  BY DEF Start, workers, jobs, Inv, Phases
<1>2. /\ state' \in {"starting", "unavailable"}
      /\ ctl'.at = "none" \/ (ctl'.at = "spawn" /\ ctl'.boot)
  BY <1>1, StartIs DEF CtlIs, Inv
<1>3. \A w \in Workers : ~Firm(w)'
  BY <1>1 DEF Firm, Alive
<1> QED BY <1>1, <1>2, <1>3, NothingQueued DEF Careful, Ended, Fresh, Sparing, Sweeping, Accounted,
          Emptied, Spare

\* Once shutdown has the controllers joined none is at work.
LEMMA ShutAlone ==
    ASSUME Inv, Careful, shut.at \in {"stop", "close", "executor", "drain"} \/ ShutJoin
    PROVE  /\ ctl.at = "none" /\ shut.calls # 0 /\ state \notin {"available", "starting", "stopped"}
           /\ \A w \in Workers : ~InHand(w)
           /\ shut.calls \in Nat /\ shut.todo \in Seq(Workers)
<1>1. ctl.at = "none" /\ shut.at \in {"join", "stop", "close", "executor", "drain"}
  BY DEF ShutJoin, ControllersJoined, Careful, Emptied
<1> QED BY <1>1, ShutTyped DEF Inv, Phases, Careful, Emptied, InHand, Sweeping

\* What a step of shutdown keeps whatever it does to the dict.
LEMMA ShutKeeps ==
    ASSUME Inv, Careful, shut.at \in {"stop", "close", "executor", "drain"} \/ ShutJoin, Wanes,
           UNCHANGED <<state, closing, held, ctl>>, events' # <<>> => events # <<>>,
           \A r \in Requests : job'[r] = "close" => job[r] = "close",
           shut'.calls = shut.calls, shut'.at \in {"stop", "close", "executor", "drain", "raised"}
    PROVE  /\ (\A r \in Requests : job[r] = "close" => ~Firm(held[r]))'
           /\ Fresh' /\ Sparing'
           /\ shut'.at # "raised" /\ Spent(slots)' => Emptied'
           /\ shut'.at = "raised" => Emptied'
           /\ (Resisting = {} => slots' = <<>>) => Spare'
<1>1. /\ ctl.at = "none" /\ ctl'.at = "none" /\ shut.calls # 0
      /\ state \notin {"available", "starting", "stopped"}
  BY ShutAlone
<1>2. (\A r \in Requests : job[r] = "close" => ~Firm(held[r]))'
  <2>1. \A r \in Requests : job[r] = "close" => held[r] \in Workers /\ ~Firm(held[r])
    BY Members DEF Inv, Careful, Ended, Holds, Unfinished
  <2> QED BY <2>1 DEF Wanes, Firm
<1>3. Fresh' /\ Sparing'
  BY <1>1 DEF Careful, Fresh, Sparing, Sweeping
<1>4. (shut'.at # "raised" /\ Spent(slots)' => Emptied') /\ (shut'.at = "raised" => Emptied')
  BY <1>1 DEF Emptied
<1>5. (Resisting = {} => slots' = <<>>) => Spare'
  BY <1>1 DEF Careful, Spare
<1> QED BY <1>2, <1>3, <1>4, <1>5

LEMMA ShutBeginCares ==
    ASSUME Inv, Inv', Careful, ShutBegin
    PROVE  Careful'
<1>1. /\ state' = "closing" /\ closing' /\ UNCHANGED <<slots, idle, events, executor, proc, job, held, ctl>>
      /\ shut'.at = "join" /\ shut'.calls = shut.calls + 1 /\ shut.calls \in Nat
  BY ShutTyped DEF ShutBegin, workers, jobs, Inv
<1>2. Sparing'
  BY <1>1 DEF Careful, Sparing, Guarded, Spent, Lacks, Free, Holds, Firm, Alive, Sweeping, Distinct
<1>3. Accounted'
  <2>1. shut'.calls =< 1 => shut.calls = 0 /\ shut.at = "none"
    BY <1>1 DEF Inv, Phases
  <2>2. \A w \in Workers : /\ Firm(w)' => Firm(w)
                           /\ Registered(w) => Registered(w)'
                           /\ InHand(w) => InHand(w)'
    BY <1>1 DEF Firm, Alive, Registered, InHand, Sweeping
  <2> QED BY <2>1, <2>2 DEF Careful, Accounted
<1>4. Ended' /\ Fresh' /\ Emptied' /\ Spare'
  BY <1>1 DEF Careful, Ended, Fresh, Emptied, Spare, Firm, Alive
<1> QED BY <1>2, <1>3, <1>4 DEF Careful

LEMMA ShutJoinCares ==
    ASSUME Inv, Inv', Careful, ShutJoin
    PROVE  Careful'
<1>1. /\ slots' = <<>> /\ UNCHANGED <<state, closing, events, executor, proc, job, held, ctl>>
      /\ shut'.at = "stop" /\ shut'.calls = shut.calls /\ shut'.todo = slots /\ shut.at = "join"
  <2>1. ShutIs("stop", shut.calls, slots)
    BY ShutMovesOn, Maps DEF ShutJoin, Inv, ShutAts
  <2> QED BY <2>1 DEF ShutIs, ShutJoin, workers, jobs
<1>2. Accounted'
  <2>1. \A w \in Workers : Firm(w)' => Firm(w)
    BY <1>1 DEF Firm, Alive
  <2> QED BY <1>1, <2>1, ShutAlone DEF Careful, Accounted, Registered
<1>3. Ended' /\ Fresh' /\ Sparing' /\ Emptied' /\ Spare'
  <2>1. Spent(slots)'
    BY <1>1, NothingQueued DEF Spent
  <2> QED BY <1>1, <2>1, SameWanes, ShutKeeps, ShutAlone DEF Ended
<1> QED BY <1>2, <1>3 DEF Careful

LEMMA ShutStopCares ==
    ASSUME Inv, Inv', Careful, ShutStop
    PROVE  Careful'
<1>1. /\ shut.at = "stop" /\ UNCHANGED <<state, closing, slots, events, executor, job, held, ctl>>
      /\ Spent(slots) /\ (Resisting = {} => slots = <<>>)
  BY DEF ShutStop, pool, jobs, Careful, Emptied, Spare
<1>2. /\ ctl'.at = "none" /\ shut.calls # 0 /\ state # "stopped" /\ shut.todo \in Seq(Workers)
      /\ \A w \in Workers : ~InHand(w)
  BY <1>1, ShutAlone
<1>3. CASE UNCHANGED proc /\ (\/ shut.todo = <<>> /\ ShutGoto("executor")
                             \/ ShutGoto("raised"))
  <2>1. /\ shut'.at \in {"executor", "raised"} /\ shut'.calls = shut.calls
        /\ shut.todo = <<>> \/ shut'.at = "raised"
    BY <1>3, ShutGoes DEF Inv, ShutAts, ShutIs
  <2>2. Accounted'
    <3>1. \A w \in Workers : Firm(w)' => Firm(w)
      BY <1>3 DEF Firm, Alive
    <3> QED BY <1>1, <1>2, <2>1, <3>1, NothingQueued DEF Careful, Accounted, Registered
  <2>3. Spent(slots)'
    BY <1>1, <1>3 DEF Spent, Firm, Alive
  <2> QED BY <1>1, <1>2, <1>3, <2>1, <2>2, <2>3, SameWanes, ShutKeeps DEF Careful, Ended
<1>4. CASE shut.todo # <<>> /\ Kill(Head(shut.todo)) /\ ShutGoto("close")
  <2>1. shut'.at = "close" /\ shut'.calls = shut.calls /\ shut'.todo = shut.todo
    BY <1>4, ShutGoes DEF Inv, ShutAts, ShutIs
  <2>2. Head(shut.todo) \in Workers
    BY <1>2, <1>4, Dequeued
  <2>3. Wanes
    BY <1>4, <2>2, Maps DEF Inv, Kill, Wanes, Alive
  <2>4. (shut.at = "close" => ~Firm(Head(shut.todo)))'
    BY <1>4, <2>1, <2>2, Maps DEF Inv, Kill, Firm, Alive
  <2>5. Accounted'
    <3>1. \A w \in Workers : Firm(w)' => Firm(w)
      BY <2>3 DEF Wanes, Firm
    <3> QED BY <1>1, <1>2, <2>1, <3>1 DEF Careful, Accounted, Registered
  <2>6. Spent(slots)'
    BY <1>1, <2>3, Members DEF Inv, Spent, Wanes, Firm
  <2> QED BY <1>1, <1>2, <2>1, <2>3, <2>4, <2>5, <2>6, ShutKeeps DEF Careful, Ended
<1> QED BY <1>3, <1>4 DEF ShutStop

LEMMA ShutCloseCares ==
    ASSUME Inv, Inv', Careful, ShutClose
    PROVE  Careful'
<1> DEFINE h == Head(shut.todo)
<1>1. /\ shut.at = "close" /\ UNCHANGED <<state, closing, events, executor, job, held, ctl>>
      /\ Spent(slots) /\ (Resisting = {} => slots = <<>>) /\ ~Firm(h)
  BY DEF ShutClose, jobs, Careful, Ended, Emptied, Spare
<1>2. /\ ctl'.at = "none" /\ shut.calls # 0 /\ state # "stopped"
      /\ \A w \in Workers : ~InHand(w)
      /\ shut.todo \in Seq(Workers) /\ shut.todo # <<>> /\ h \in Workers
      /\ Tail(shut.todo) \in Seq(Workers) /\ ToSet(shut.todo) = ToSet(Tail(shut.todo)) \cup {h}
  BY <1>1, ShutAlone, Dequeued DEF Inv, Types
<1>3. CASE proc[h] = "closed" /\ ShutGoto("raised") /\ UNCHANGED <<proc, slots>>
  <2>1. shut'.at = "raised" /\ shut'.calls = shut.calls
    BY <1>3, ShutGoes DEF Inv, ShutAts, ShutIs
  <2>2. Accounted'
    BY <1>1, <1>2, <2>1 DEF Accounted
  <2> QED BY <1>1, <1>2, <1>3, <2>1, <2>2, SameWanes, ShutKeeps DEF Careful, Ended
<1>4. CASE /\ proc[h] = "dead" /\ Close(h) /\ UNCHANGED slots
           /\ shut' = [shut EXCEPT !.at = "stop", !.todo = Tail(@)]
  <2>1. shut'.at = "stop" /\ shut'.calls = shut.calls /\ shut'.todo = Tail(shut.todo)
    BY <1>2, <1>4, ShutMovesOn DEF Inv, ShutAts, ShutIs
  <2>2. proc'[h] = "closed" /\ \A v \in Workers : v # h => proc'[v] = proc[v]
    BY <1>2, <1>4, Maps DEF Inv, Close
  <2>3. Wanes
    BY <1>2, <1>4, <2>2 DEF Wanes, Alive
  <2>4. Accounted'
    <3>1. \A w \in Workers : Firm(w)' => Firm(w) /\ w # h
      BY <1>2, <2>2, <2>3 DEF Wanes, Firm, Alive
    <3> QED BY <1>1, <1>2, <1>4, <2>1, <3>1 DEF Careful, Accounted, Registered
  <2>5. Spent(slots)'
    BY <1>1, <1>4, <2>3, Members DEF Inv, Spent, Wanes, Firm
  <2> QED BY <1>1, <1>2, <1>4, <2>1, <2>3, <2>4, <2>5, ShutKeeps DEF Careful, Ended
<1>5. CASE /\ Alive(h) /\ slots' = Put(h) /\ UNCHANGED proc
           /\ shut' = [shut EXCEPT !.at = "stop", !.todo = Tail(@), !.error = TRUE]
  <2>1. shut'.at = "stop" /\ shut'.calls = shut.calls /\ shut'.todo = Tail(shut.todo)
    BY <1>2, <1>5, ShutMovesOn DEF Inv, ShutAts, ShutIs
  <2>2. ToSet(slots') = {v \in ToSet(slots) : v[1] # h[1]} \cup {h}
    BY <1>2, <1>5, PutIn, Maps DEF Inv, Seats
  <2>3. Accounted'
    <3>1. \A w \in Workers : Firm(w)' => Firm(w) /\ (w[1] = h[1] => w = h)
      BY <1>2, <1>5, OthersAreDead DEF Firm, Alive
    <3> QED BY <1>1, <1>2, <2>1, <2>2, <3>1 DEF Careful, Accounted, Registered
  <2>4. Spent(slots)'
    BY <1>1, <1>5, <2>2 DEF Spent, Firm, Alive
  <2>5. Resisting # {}
    BY <1>1, <1>5 DEF Firm
  <2> QED BY <1>1, <1>2, <1>5, <2>1, <2>3, <2>4, <2>5, SameWanes, ShutKeeps DEF Careful, Ended
<1> QED BY <1>3, <1>4, <1>5 DEF ShutClose

LEMMA ShutEndsCares ==
    ASSUME Inv, Inv', Careful, ShutExecutor \/ ShutFinish
    PROVE  Careful'
<1>1. /\ shut.at \in {"executor", "drain"} /\ UNCHANGED <<closing, slots, proc, held, ctl>>
      /\ Spent(slots) /\ (Resisting = {} => slots = <<>>)
  BY DEF ShutExecutor, ShutFinish, pool, workers, jobs, Careful, Emptied, Spare
<1>2. /\ ctl'.at = "none" /\ shut.calls # 0 /\ state # "stopped"
      /\ \A w \in Workers : ~InHand(w)
  BY <1>1, ShutAlone
<1>3. \A w \in Workers : /\ Firm(w)' => Firm(w)
                         /\ Registered(w) => Registered(w)'
  BY <1>1 DEF Firm, Alive, Registered
<1>4. CASE ShutExecutor
  <2>1. shut'.at = "drain" /\ shut'.calls = shut.calls
    BY <1>4, ShutGoes DEF Inv, ShutAts, ShutIs, ShutExecutor
  <2>2. UNCHANGED <<state, events>> /\ \A r \in Requests : job'[r] = "close" => job[r] = "close"
    BY <1>4 DEF ShutExecutor, pool
  <2>3. Accounted'
    BY <1>1, <1>2, <1>3, <2>1, <2>2 DEF Careful, Accounted
  <2>4. Spent(slots)'
    BY <1>1 DEF Spent, Firm, Alive
  <2> QED BY <1>1, <1>2, <2>1, <2>2, <2>3, <2>4, SameWanes, ShutKeeps DEF Careful, Ended
<1>5. CASE ShutFinish
  <2>1. shut'.at \in {"returned", "raised"} /\ shut'.calls = shut.calls
    BY <1>5, ShutGoes DEF Inv, ShutAts, ShutIs, ShutFinish
  <2>2. /\ state' = IF slots # <<>> THEN "unavailable" ELSE "stopped"
        /\ events' = <<>> /\ UNCHANGED job /\ shut.at = "drain"
    BY <1>5 DEF ShutFinish, jobs
  <2>3. Ended'
    BY <1>1, <1>2, <2>1, <2>2 DEF Careful, Ended, Firm, Alive
  <2>4. Fresh' /\ Sparing'
    BY <1>2, <2>2 DEF Fresh, Sparing, Sweeping
  <2>5. Accounted'
    BY <1>2, <1>3, <2>1, <2>2 DEF Careful, Accounted
  <2>6. Emptied' /\ Spare'
    BY <1>1, <1>2, <2>1, <2>2 DEF Emptied, Spare
  <2> QED BY <2>3, <2>4, <2>5, <2>6 DEF Careful
<1> QED BY <1>4, <1>5

-----------------------------------------------------------------------------
(* With two slots nothing is left behind.                                    *)

LEMMA InitCares == Init => Careful
<1> SUFFICES ASSUME Init PROVE Careful
  OBVIOUS
<1>1. /\ state = "stopped" /\ ~closing /\ slots = <<>> /\ events = <<>> /\ executor = "none"
      /\ ctl.at = "none" /\ shut.at = "none" /\ shut.calls = 0
      /\ \A r \in Requests : job[r] = "none"
      /\ \A w \in Workers : ~Alive(w)
  BY DEF Init, Idle, Alive
<1> QED BY <1>1 DEF Careful, Ended, Fresh, Sparing, Sweeping, Accounted, Firm, Emptied, Spare

LEMMA NextCares ==
    ASSUME MaxLive =< 2, Inv, Inv', Careful, [Next]_vars
    PROVE  Careful'
<1>1. CASE UNCHANGED vars
  <2>1. UNCHANGED <<state, closing, slots, idle, events, executor, proc, job, held, ctl, shut>>
    BY <1>1 DEF vars, pool, workers, jobs
  <2>2. Sparing'
    BY <2>1 DEF Careful, Sparing, Guarded, Spent, Lacks, Free, Holds, Firm, Alive, Sweeping, Distinct
  <2>3. Accounted'
    BY <2>1 DEF Careful, Accounted, Registered, InHand, Sweeping, Firm, Alive
  <2> QED BY <2>1, <2>2, <2>3 DEF Careful, Ended, Fresh, Popping, Emptied, Spare, Spent, Firm, Alive
<1>2. ASSUME NEW r \in Requests, Fetch(r) \/ Cancel(r) \/ Tick(r) PROVE Careful'
  BY <1>2, CallsAside, AsideKeeps DEF Careful
<1>3. ASSUME NEW r \in Requests, Job(r) PROVE Careful'
  BY <1>3, JobsAside, AsideKeeps DEF Careful
<1>4. ASSUME NEW w \in Workers, WorkerInitializes(w) \/ WorkerAnswers(w) \/ WorkerDies(w) PROVE Careful'
  BY <1>4, WorkersAside, AsideKeeps DEF Careful
<1>5. CASE \E enabled \in BOOLEAN : Start(enabled)
  BY <1>5, StartCares
<1>6. CASE Ctl
  BY <1>6, CtlCares
<1>7. CASE ShutBegin \/ Shut
  BY <1>7, ShutBeginCares, ShutJoinCares, ShutStopCares, ShutCloseCares, ShutEndsCares DEF Shut
<1> QED BY <1>1, <1>2, <1>3, <1>4, <1>5, <1>6, <1>7 DEF Next

LEMMA Care ==
    ASSUME MaxLive =< 2
    PROVE  Spec => [](Inv /\ Careful)
<1>1. Inv /\ Careful /\ [Next]_vars => (Inv /\ Careful)'
  BY NextInv, NextCares
<1> QED BY InitInv, InitCares, <1>1, PTL DEF Spec

\* "Leaves zero worker processes alive": the replacement controller, a failed
\* startup and a job that cannot stop its worker leave none behind a pool that
\* is given up, when a process that is killed ends and there are two slots.
THEOREM FailedPoolsAreEmpty ==
    ASSUME MaxLive =< 2, Resisting = {}
    PROVE  Spec => []FailedPoolIsEmpty
<1>1. ASSUME Inv, Careful PROVE FailedPoolIsEmpty
  <2> SUFFICES ASSUME state = "unavailable", ctl.at = "none", NEW w \in Workers, Alive(w)
               PROVE  FALSE
    BY DEF FailedPoolIsEmpty
  <2>1. slots = <<>> /\ shut.calls = 0 /\ shut.at = "none" /\ Firm(w)
    BY <1>1 DEF Careful, Spare, Firm, Inv, Phases
  <2>2. ~Registered(w) /\ ~InHand(w)
    BY <2>1, NothingQueued DEF Registered, InHand, Sweeping
  <2> QED BY <1>1, <2>1, <2>2 DEF Careful, Accounted
<1> QED BY <1>1, Care, PTL

\* shutdown is called no more often than MaxShutdowns.
LEMMA ShutdownsAreCounted == Spec => [](shut.calls =< MaxShutdowns)
<1>1. Init => shut.calls =< MaxShutdowns
  BY PoolAssumption DEF Init
<1>2. shut.calls =< MaxShutdowns /\ Inv /\ [Next]_vars => (shut.calls =< MaxShutdowns)'
  <2> SUFFICES ASSUME shut.calls =< MaxShutdowns, Inv, [Next]_vars PROVE shut'.calls =< MaxShutdowns
    OBVIOUS
  <2>1. CASE ShutBegin
    BY <2>1, ShutTyped, PoolAssumption DEF ShutBegin, Inv
  <2>2. CASE Shut
    <3>1. shut'.calls = shut.calls
      BY <2>2, ShutTyped DEF Inv, Shuts, Shut, ShutJoin, ShutStop, ShutClose, ShutExecutor, ShutFinish, ShutGoto
    <3> QED BY <3>1
  <2>3. CASE Ctl
    BY <2>3 DEF Ctl, CtlSpawn, CtlRegister, CtlReady, CtlGivesUp, CtlEnlist, CtlCondemn, CtlSweep,
       CtlSweepClose, CtlRescue, CtlLoop, CtlExit
  <2>4. ASSUME NEW r \in Requests, Fetch(r) \/ Cancel(r) \/ Tick(r) PROVE UNCHANGED shut
    BY <2>4 DEF Fetch, Admit, Acquire, Receive, Expire, Contain, Cancel, Tick
  <2>5. ASSUME NEW r \in Requests, Job(r) PROVE UNCHANGED shut
    BY <2>5 DEF Job, Dispatch, Take, GiveUpJob, LoseWorker, Retire, RetireKill, RetireClose, RetirePop, Schedule
  <2>6. ASSUME NEW w \in Workers, WorkerInitializes(w) \/ WorkerAnswers(w) \/ WorkerDies(w)
        PROVE  UNCHANGED shut
    BY <2>6 DEF WorkerInitializes, WorkerAnswers, WorkerDies
  <2>7. ASSUME NEW enabled \in BOOLEAN, Start(enabled) PROVE UNCHANGED shut
    BY <2>7 DEF Start
  <2>8. UNCHANGED vars => UNCHANGED shut
    BY DEF vars
  <2> QED BY <2>1, <2>2, <2>3, <2>4, <2>5, <2>6, <2>7, <2>8 DEF Next
<1> QED BY <1>1, <1>2, Invariance, PTL DEF Spec

\* "No worker may remain after shutdown completes": the first call of shutdown
\* stops every worker of two slots that can be stopped, and says "stopped" only
\* then; whoever was starting, replacing or retiring one meanwhile.
THEOREM StoppedPoolsAreEmpty ==
    ASSUME MaxLive =< 2, MaxShutdowns =< 1
    PROVE  Spec => []StoppedMeansNoWorker
<1>1. ASSUME Inv, Careful, shut.calls =< MaxShutdowns PROVE StoppedMeansNoWorker
  <2> SUFFICES ASSUME state = "stopped", NEW w \in Workers, Firm(w) PROVE FALSE
    BY DEF StoppedMeansNoWorker, Firm
  <2>1. shut.calls =< 1 /\ slots = <<>>
    BY <1>1, ShutTyped, PoolAssumption DEF Careful, Emptied, Inv
  <2>2. CASE shut.calls = 0
    BY <1>1, <2>2 DEF Careful, Emptied, Inv, Phases, Firm, Alive
  <2>3. CASE shut.calls # 0
    <3>1. shut.at \in {"returned", "raised"} /\ ctl.at = "none"
      BY <1>1, <2>3 DEF Careful, Emptied
    <3>2. ~Registered(w) /\ ~InHand(w)
      BY <2>1, <3>1, NothingQueued DEF Registered, InHand, Sweeping
    <3> QED BY <1>1, <2>1, <3>1, <3>2 DEF Careful, Accounted
  <2> QED BY <2>2, <2>3
<1> QED BY <1>1, Care, ShutdownsAreCounted, PTL
=============================================================================
