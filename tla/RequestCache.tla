---------------------------- MODULE RequestCache ----------------------------
(***************************************************************************)
(* BoundedRequestCache: reuse of successful provider results for a time,   *)
(* in least-recently-used order under two bounds, and a single flight per  *)
(* key for calls that miss.  The lock covers bookkeeping only; provider    *)
(* operations, the storing of their results and the answers to callers     *)
(* interleave freely.                                                      *)
(*                                                                         *)
(* A flight is an operation and what follows it; it is named by the call   *)
(* that owns it.  run makes its flight in the caller's thread, async_run   *)
(* in a task of its own, which goes on when the caller is cancelled; the   *)
(* model lets any caller be cancelled.  Metrics and copies are left out.   *)
(*                                                                         *)
(* Operators marked (slip) are wrong variants of the one that follows.     *)
(***************************************************************************)
EXTENDS Integers, FiniteSets, Sequences, FiniteSetsExt, Functions

CONSTANTS Calls,       \* the calls of run and async_run that are made
          Keys,
          MaxEntries,  \* max_entries
          MaxBytes,    \* max_bytes
          TTL,         \* ttl_seconds
          MaxClears,   \* bound: calls of clear
          MaxTime      \* bound: ticks of the clock

\* what __init__ demands
ASSUME CacheAssumption ==
    /\ MaxEntries \in Nat \ {0} /\ MaxBytes \in Nat \ {0} /\ TTL \in Nat
    /\ MaxClears \in Nat /\ MaxTime \in Nat
    /\ "none" \notin Calls

VARIABLES cached,    \* _entries, the values
          order,     \* _entries, the keys from the least recently used
          bytes,     \* _bytes
          inflight,  \* _inflight: the flight whose future is registered
          epoch,     \* _epoch
          now,       \* clock()
          flight,    \* what a call does as an owner
          call       \* the calls, and the flights they are answered by

store == <<cached, order, bytes>>
vars == <<store, inflight, epoch, now, flight, call>>

NoEntry  == [at |-> "none"]
NoFlight == "none"
Grounded == [at |-> "none"]
NoCall   == [at |-> "new"]

Init ==
    /\ cached = [k \in Keys |-> NoEntry]
    /\ order = <<>>
    /\ bytes = 0
    /\ inflight = [k \in Keys |-> NoFlight]
    /\ epoch = 0
    /\ now = 0
    /\ flight = [f \in Calls |-> Grounded]
    /\ call = [c \in Calls |-> NoCall]

-----------------------------------------------------------------------------
(* The store, under the lock.                                              *)

Stored    == {k \in Keys : cached[k] # NoEntry}
Expired   == {k \in Stored : cached[k].expires <= now}
Sizes     == [k \in Stored |-> cached[k].size]
SizeOf(S) == SumFunctionOnSet(Sizes, S)

\* The keys of the order that are not of S.
Without(S) ==
    LET kept[i \in 0..Len(order)] ==
            IF i = 0 THEN <<>>
            ELSE IF order[i] \in S THEN kept[i - 1] ELSE Append(kept[i - 1], order[i])
    IN  kept[Len(order)]

\* _expire
Expire ==
    /\ cached' = [k \in Keys |-> IF k \in Expired THEN NoEntry ELSE cached[k]]
    /\ bytes' = bytes - SizeOf(Expired)

\* (slip) the size of the entry that is replaced stays counted
BytesKept(k) == bytes
BytesWithout(k) == bytes - SizeOf({k} \cap Stored)

Oldest(q, n) == {q[i] : i \in 1..n}

\* How many of the least recently used keys of q, whose sizes sum up to
\* total, have to go.
Evictions(q, size, total) ==
    Min({n \in 0..Len(q) :
            \/ n = Len(q)
            \/ /\ Len(q) - n <= MaxEntries
               /\ total - SumFunctionOnSet(size, Oldest(q, n)) <= MaxBytes})

Put(k, entry) ==
    LET q     == Append(Without({k}), k)
        size  == [j \in Stored \cup {k} |->
                    IF j = k THEN entry.size ELSE Sizes[j]]
        total == BytesWithout(k) + entry.size
        n     == Evictions(q, size, total)
        gone  == Oldest(q, n)
    IN  /\ cached' = [j \in Keys |-> IF j \in gone THEN NoEntry
                                     ELSE IF j = k THEN entry ELSE cached[j]]
        /\ order' = SubSeq(q, n + 1, Len(q))
        /\ bytes' = total - SumFunctionOnSet(size, gone)

Unregistered == [k \in Keys |-> NoFlight]

NoEntries == [k \in Keys |-> NoEntry]

Clear ==
    /\ epoch < MaxClears
    /\ cached' = NoEntries /\ order' = <<>> /\ bytes' = 0
    /\ epoch' = epoch + 1
    /\ inflight' = Unregistered
    /\ UNCHANGED <<now, flight, call>>

Tick == now < MaxTime /\ now' = now + 1
        /\ UNCHANGED <<store, inflight, epoch, flight, call>>

-----------------------------------------------------------------------------
(* Callers.                                                                *)

Begin(c, k, at, f) ==
    /\ call[c] = NoCall
    /\ call' = [call EXCEPT ![c] = [at |-> at, by |-> f, asked |-> epoch]]
    /\ Expire

Hit(c, k) ==
    /\ k \in Stored \ Expired
    /\ Begin(c, k, "answered", cached[k].by)
    /\ order' = Append(Without(Expired \cup {k}), k)
    /\ UNCHANGED <<inflight, epoch, now, flight>>

Join(c, k) ==
    /\ k \notin Stored \ Expired
    /\ inflight[k] # NoFlight
    /\ Begin(c, k, "waiting", inflight[k])
    /\ order' = Without(Expired)
    /\ UNCHANGED <<inflight, epoch, now, flight>>

\* With no room for its future the flight is nobody else's.
Room == Cardinality({k \in Keys : inflight[k] # NoFlight}) < MaxEntries

Own(c, k) ==
    /\ k \notin Stored \ Expired
    /\ inflight[k] = NoFlight
    /\ Begin(c, k, "waiting", c)
    /\ order' = Without(Expired)
    /\ inflight' = IF Room THEN [inflight EXCEPT ![k] = c] ELSE inflight
    /\ flight' = [flight EXCEPT ![c] = [at |-> "operating", key |-> k, epoch |-> epoch,
                                       shared |-> Room, ok |-> FALSE, settled |-> FALSE]]
    /\ UNCHANGED <<epoch, now>>

\* The future's answer for those who joined, the task's end for the owner.
Landed(c) ==
    IF call[c].by = c THEN flight[c].at = "done" ELSE flight[call[c].by].settled

Answer(c) ==
    /\ call[c].at = "waiting"
    /\ Landed(c)
    /\ call' = [call EXCEPT ![c].at = "answered"]
    /\ UNCHANGED <<store, inflight, epoch, now, flight>>

\* A caller of async_run is cancelled; its flight is not.
Cancel(c) ==
    /\ call[c].at = "waiting"
    /\ call' = [call EXCEPT ![c].at = "cancelled"]
    /\ UNCHANGED <<store, inflight, epoch, now, flight>>

-----------------------------------------------------------------------------
(* Flights.                                                                *)

\* (slip) a result is stored whatever was cleared since
AnyEpoch(f) == TRUE
SameEpoch(f) == flight[f].epoch = epoch

\* The operation succeeds and _retain takes its result, which may be
\* uncacheable and is of any size.
Retain(f) ==
    /\ flight[f].at = "operating"
    /\ flight' = [flight EXCEPT ![f].at = "settling", ![f].ok = TRUE]
    /\ \/ \E size \in 0..MaxBytes :
             /\ TTL > 0 /\ SameEpoch(f)
             /\ Put(flight[f].key, [by |-> f, size |-> size, expires |-> now + TTL])
       \/ UNCHANGED store
    /\ UNCHANGED <<inflight, epoch, now, call>>

\* future.set_result
Settle(f) ==
    /\ flight[f].at = "settling"
    /\ flight' = [flight EXCEPT ![f].at = "releasing", ![f].settled = flight[f].shared]
    /\ UNCHANGED <<store, inflight, epoch, now, call>>

\* (slip) a failure is not passed on
KeepsQuiet(f) == FALSE
PassesOn(f) == flight[f].shared

\* The operation fails, or its result cannot be measured: future.set_exception
Fail(f) ==
    /\ flight[f].at = "operating"
    /\ flight' = [flight EXCEPT ![f].at = "releasing", ![f].settled = PassesOn(f)]
    /\ UNCHANGED <<store, inflight, epoch, now, call>>

\* (slip) whatever future is registered
Registered(f) == flight[f].shared
IsRegistered(f) == flight[f].shared /\ inflight[flight[f].key] = f

\* _release
Release(f) ==
    /\ flight[f].at = "releasing"
    /\ flight' = [flight EXCEPT ![f].at = "done"]
    /\ inflight' = IF IsRegistered(f)
                   THEN [inflight EXCEPT ![flight[f].key] = NoFlight] ELSE inflight
    /\ UNCHANGED <<store, epoch, now, call>>

Fly(f) == Retain(f) \/ Fail(f) \/ Settle(f) \/ Release(f)

Next ==
    \/ \E c \in Calls, k \in Keys : Hit(c, k) \/ Join(c, k) \/ Own(c, k)
    \/ \E c \in Calls : Answer(c) \/ Cancel(c)
    \/ \E f \in Calls : Fly(f)
    \/ Clear
    \/ Tick

Spec == Init /\ [][Next]_vars

-----------------------------------------------------------------------------
(* Properties.                                                             *)

Aloft(f) == flight[f].at \notin {"none", "done"}

EntryRecords  == [by : Calls, size : 0..MaxBytes, expires : Nat]
FlightRecords == [at : {"operating", "settling", "releasing", "done"}, key : Keys,
                  epoch : Nat, shared : BOOLEAN, ok : BOOLEAN, settled : BOOLEAN]
CallRecords   == [at : {"waiting", "answered", "cancelled"}, by : Calls, asked : Nat]

\* The actors' part of the type.
ShapeOK ==
    /\ inflight \in [Keys -> Calls \cup {NoFlight}]
    /\ epoch \in Nat
    /\ flight \in [Calls -> FlightRecords \cup {Grounded}]
    /\ call \in [Calls -> CallRecords \cup {NoCall}]

\* Every variable keeps its type, and the byte count of _entries never leaves
\* the range its bound allows, whatever is evicted, expired or cleared.
TypeOK ==
    /\ ShapeOK
    /\ cached \in [Keys -> EntryRecords \cup {NoEntry}]
    /\ order \in Seq(Keys)
    /\ bytes \in 0..MaxBytes
    /\ now \in 0..MaxTime

\* _bytes is the sum of the sizes kept, over one place in the order for each
\* key: a drift would make the cache evict for ever, or never (_expire, _retain
\* and clear each keep the count by hand).
BytesAreExact ==
    /\ bytes = SizeOf(Stored)
    /\ {order[i] : i \in DOMAIN order} = Stored
    /\ Len(order) = Cardinality(Stored)
    /\ Len(order) <= MaxEntries

\* No two flights of a key whose callers may be joined are aloft in an epoch,
\* and no more of them than there is room: the finally of a flight from before
\* a clear must not unregister its successor (_release).
SingleFlight ==
    /\ \A f, g \in Calls :
          /\ Aloft(f) /\ Aloft(g) /\ flight[f].shared /\ flight[g].shared
          /\ flight[f].key = flight[g].key /\ flight[f].epoch = flight[g].epoch
          => f = g
    /\ Cardinality({k \in Keys : inflight[k] # NoFlight}) <= MaxEntries

\* A call that came after clear is never answered with a result whose
\* operation was asked for before it: not from a late _retain, not by joining.
FreshAfterClear ==
    \A c \in Calls : call[c].at = "answered" => flight[call[c].by].epoch >= call[c].asked

\* A call that waits has its answer, or waits for a flight that is still aloft:
\* none is left behind by a failure, a clear, a cancelled owner or a bypass.
NobodyIsLeftBehind ==
    \A c \in Calls : call[c].at = "waiting" => Landed(c) \/ Aloft(call[c].by)
=============================================================================
