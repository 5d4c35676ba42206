------------------------- MODULE RequestCacheProofs -------------------------
(* A clear separates the calls before it from the calls after it, at most   *)
(* one flight of a key can be joined, no caller is left behind, and the     *)
(* byte count is the sum of the sizes: for every number of calls and keys,  *)
(* every bound and every TTL.                                               *)
EXTENDS RequestCache, FiniteSetTheorems, SequenceTheorems, WellFoundedInduction, TLAPS

\* What is stored was asked for since the last clear.
EntriesAreCurrent ==
    \A k \in Keys : cached[k] # NoEntry =>
        /\ cached[k].by \in Calls
        /\ flight[cached[k].by] # Grounded
        /\ flight[cached[k].by].epoch = epoch

\* What is registered is aloft and was asked for since the last clear.
InflightIsCurrent ==
    \A k \in Keys : inflight[k] # NoFlight =>
        /\ flight[inflight[k]] # Grounded /\ Aloft(inflight[k])
        /\ flight[inflight[k]].key = k
        /\ flight[inflight[k]].epoch = epoch
        /\ flight[inflight[k]].shared

\* A flight that may be joined is registered until it is done or forgotten.
CurrentIsInflight ==
    \A f \in Calls : flight[f] # Grounded =>
        /\ flight[f].epoch <= epoch
        /\ Aloft(f) /\ flight[f].shared /\ flight[f].epoch = epoch
             => inflight[flight[f].key] = f
        /\ flight[f].shared /\ flight[f].at \in {"releasing", "done"}
             => flight[f].settled

\* A call belongs to the epoch of the flight that answers it.
CallsMatchFlights ==
    \A c \in Calls :
        /\ call[c] = NoCall => flight[c] = Grounded
        /\ call[c] # NoCall =>
              /\ flight[call[c].by] # Grounded
              /\ flight[call[c].by].epoch = call[c].asked
              /\ call[c].at = "waiting" /\ call[c].by # c => flight[call[c].by].shared

OneAloft ==
    \A f, g \in Calls :
        /\ Aloft(f) /\ Aloft(g) /\ flight[f].shared /\ flight[g].shared
        /\ flight[f].key = flight[g].key /\ flight[f].epoch = flight[g].epoch
        => f = g

InflightFits ==
    /\ IsFiniteSet({k \in Keys : inflight[k] # NoFlight})
    /\ Cardinality({k \in Keys : inflight[k] # NoFlight}) <= MaxEntries

Inv ==
    /\ ShapeOK
    /\ EntriesAreCurrent
    /\ InflightIsCurrent
    /\ CurrentIsInflight
    /\ CallsMatchFlights
    /\ OneAloft
    /\ InflightFits

LEMMA InitInv == Init => Inv
<1> SUFFICES ASSUME Init PROVE Inv
  OBVIOUS
<1>1. ShapeOK
  BY DEF Init, ShapeOK
<1>2. EntriesAreCurrent /\ InflightIsCurrent /\ CurrentIsInflight /\ CallsMatchFlights
  BY DEF Init, EntriesAreCurrent, InflightIsCurrent, CurrentIsInflight, CallsMatchFlights
<1>3. OneAloft
  BY DEF Init, OneAloft, Aloft, Grounded
<1>4. InflightFits
  <2>1. {k \in Keys : inflight[k] # NoFlight} = {}
    BY DEF Init
  <2> QED BY <2>1, FS_EmptySet, CacheAssumption DEF InflightFits
<1> QED BY <1>1, <1>2, <1>3, <1>4 DEF Inv

\* Expiry only takes entries away.
LEMMA ExpireKeepsEntries ==
    ASSUME EntriesAreCurrent, Expire, UNCHANGED <<flight, epoch>>
    PROVE  EntriesAreCurrent'
BY DEF EntriesAreCurrent, Expire

LEMMA HitKeepsInv ==
    ASSUME Inv, NEW c \in Calls, NEW k \in Keys, Hit(c, k)
    PROVE  Inv'
<1> USE DEF Inv
<1>1. UNCHANGED <<inflight, epoch, flight>>
  BY DEF Hit
<1>2. cached[k].by \in Calls /\ flight[cached[k].by] # Grounded
      /\ flight[cached[k].by].epoch = epoch
  BY DEF Hit, Stored, EntriesAreCurrent
<1>3. call[c] = NoCall
      /\ call' = [call EXCEPT ![c] = [at |-> "answered", by |-> cached[k].by,
                                      asked |-> epoch]]
  BY DEF Hit, Begin
<1>4. ShapeOK'
  BY <1>1, <1>2, <1>3 DEF ShapeOK, CallRecords
<1>5. EntriesAreCurrent'
  BY <1>1, ExpireKeepsEntries DEF Hit, Begin
<1>6. InflightIsCurrent' /\ CurrentIsInflight' /\ OneAloft' /\ InflightFits'
  BY <1>1 DEF InflightIsCurrent, CurrentIsInflight, OneAloft, InflightFits, Aloft
<1>7. CallsMatchFlights'
  BY <1>1, <1>2, <1>3 DEF CallsMatchFlights, ShapeOK, CallRecords, NoCall
<1> QED BY <1>4, <1>5, <1>6, <1>7

LEMMA JoinKeepsInv ==
    ASSUME Inv, NEW c \in Calls, NEW k \in Keys, Join(c, k)
    PROVE  Inv'
<1> USE DEF Inv
<1>1. UNCHANGED <<inflight, epoch, flight>>
  BY DEF Join
<1> DEFINE f == inflight[k]
<1>2. f \in Calls /\ flight[f] # Grounded /\ flight[f].epoch = epoch /\ flight[f].shared
  BY DEF Join, InflightIsCurrent, ShapeOK
<1>3. call[c] = NoCall
      /\ call' = [call EXCEPT ![c] = [at |-> "waiting", by |-> f, asked |-> epoch]]
  BY DEF Join, Begin
<1> HIDE DEF f
<1>4. ShapeOK'
  BY <1>1, <1>2, <1>3 DEF ShapeOK, CallRecords
<1>5. EntriesAreCurrent'
  BY <1>1, ExpireKeepsEntries DEF Join, Begin
<1>6. InflightIsCurrent' /\ CurrentIsInflight' /\ OneAloft' /\ InflightFits'
  BY <1>1 DEF InflightIsCurrent, CurrentIsInflight, OneAloft, InflightFits, Aloft
<1>7. CallsMatchFlights'
  BY <1>1, <1>2, <1>3 DEF CallsMatchFlights, ShapeOK, CallRecords, NoCall
<1> QED BY <1>4, <1>5, <1>6, <1>7

\* The new flight is of this epoch; any other such flight of k that may be
\* joined would be registered under k, and nothing is.
LEMMA OwnKeepsInv ==
    ASSUME Inv, NEW c \in Calls, NEW k \in Keys, Own(c, k)
    PROVE  Inv'
<1> USE DEF Inv
<1> DEFINE new == [at |-> "operating", key |-> k, epoch |-> epoch, shared |-> Room,
                   ok |-> FALSE, settled |-> FALSE]
<1>1. /\ UNCHANGED epoch
      /\ flight' = [flight EXCEPT ![c] = new]
      /\ inflight' = IF Room THEN [inflight EXCEPT ![k] = c] ELSE inflight
      /\ inflight[k] = NoFlight
  BY DEF Own
<1>2. /\ call[c] = NoCall
      /\ call' = [call EXCEPT ![c] = [at |-> "waiting", by |-> c, asked |-> epoch]]
  BY DEF Own, Begin
<1>3. flight[c] = Grounded
  BY <1>2 DEF CallsMatchFlights
<1>4. new \in FlightRecords /\ new # Grounded
  BY DEF FlightRecords, ShapeOK, Room, Grounded
<1>5. c # NoFlight
  BY CacheAssumption DEF NoFlight
<1>6. ShapeOK'
  BY <1>1, <1>2, <1>4 DEF ShapeOK, CallRecords
<1>7. \A f \in Calls : flight[f] # Grounded => f # c /\ flight'[f] = flight[f]
  BY <1>1, <1>3 DEF ShapeOK
<1>8. EntriesAreCurrent'
  BY <1>1, <1>7 DEF EntriesAreCurrent, Own, Begin, Expire
<1>9. InflightIsCurrent'
  <2> SUFFICES ASSUME NEW j \in Keys, inflight'[j] # NoFlight
               PROVE  /\ flight'[inflight'[j]] # Grounded
                      /\ flight'[inflight'[j]].at \notin {"none", "done"}
                      /\ flight'[inflight'[j]].key = j
                      /\ flight'[inflight'[j]].epoch = epoch'
                      /\ flight'[inflight'[j]].shared
    BY DEF InflightIsCurrent, Aloft
  <2>1. CASE Room /\ j = k
    BY <2>1, <1>1, <1>4 DEF ShapeOK, Aloft
  <2>2. CASE ~(Room /\ j = k)
    <3>1. inflight'[j] = inflight[j]
      BY <2>2, <1>1 DEF ShapeOK
    <3>2. flight'[inflight[j]] = flight[inflight[j]]
      BY <3>1, <1>7 DEF InflightIsCurrent, ShapeOK
    <3> QED BY <3>1, <3>2, <1>1 DEF InflightIsCurrent, Aloft
  <2> QED BY <2>1, <2>2
<1>10. CurrentIsInflight'
  <2> SUFFICES ASSUME NEW f \in Calls, flight'[f] # Grounded
               PROVE  /\ flight'[f].epoch <= epoch'
                      /\ Aloft(f)' /\ flight'[f].shared /\ flight'[f].epoch = epoch'
                           => inflight'[flight'[f].key] = f
                      /\ flight'[f].shared /\ flight'[f].at \in {"releasing", "done"}
                           => flight'[f].settled
    BY DEF CurrentIsInflight
  <2>1. CASE f = c
    BY <2>1, <1>1 DEF ShapeOK
  <2>2. CASE f # c
    <3>1. flight'[f] = flight[f] /\ flight[f] # Grounded
      BY <2>2, <1>1 DEF ShapeOK
    <3>2. flight[f].key \in Keys
      BY <3>1 DEF ShapeOK, FlightRecords
    <3>3. inflight[flight[f].key] = f => inflight'[flight[f].key] = f
      BY <1>1, <3>2, <1>5, CacheAssumption DEF ShapeOK, NoFlight
    <3> QED BY <3>1, <3>3, <1>1 DEF CurrentIsInflight, Aloft
  <2> QED BY <2>1, <2>2
<1>11. CallsMatchFlights'
  BY <1>1, <1>2, <1>4, <1>7 DEF CallsMatchFlights, ShapeOK, CallRecords, NoCall
<1>12. OneAloft'
  <2>1. ASSUME NEW g \in Calls, g # c, Aloft(g)', flight'[g].shared,
               flight'[g].key = k, flight'[g].epoch = epoch
        PROVE  FALSE
    <3>1. flight'[g] = flight[g] /\ flight[g] # Grounded
      BY <2>1, <1>1 DEF ShapeOK, Aloft, Grounded
    <3>2. inflight[k] = g
      BY <2>1, <3>1 DEF CurrentIsInflight, Aloft
    <3> QED BY <3>2, <1>1, CacheAssumption DEF NoFlight
  <2>2. flight'[c].key = k /\ flight'[c].epoch = epoch
    BY <1>1 DEF ShapeOK
  <2>3. \A g \in Calls : g # c => flight'[g] = flight[g]
    BY <1>1 DEF ShapeOK
  <2> QED BY <2>1, <2>2, <2>3 DEF OneAloft, Aloft
<1>13. InflightFits'
  <2> DEFINE S == {j \in Keys : inflight[j] # NoFlight}
  <2>1. CASE Room
    <3>1. {j \in Keys : inflight'[j] # NoFlight} = S \cup {k}
      BY <2>1, <1>1, <1>5 DEF ShapeOK
    <3>2. k \notin S /\ IsFiniteSet(S) /\ Cardinality(S) < MaxEntries
      BY <2>1, <1>1 DEF Room, InflightFits
    <3>3. IsFiniteSet(S \cup {k}) /\ Cardinality(S \cup {k}) = Cardinality(S) + 1
      BY <3>2, FS_AddElement
    <3>4. Cardinality(S) \in Nat
      BY <3>2, FS_CardinalityType
    <3> HIDE DEF S
    <3> QED BY <3>1, <3>2, <3>3, <3>4, CacheAssumption DEF InflightFits
  <2>2. CASE ~Room
    BY <2>2, <1>1 DEF InflightFits
  <2> QED BY <2>1, <2>2
<1> QED BY <1>6, <1>8, <1>9, <1>10, <1>11, <1>12, <1>13

LEMMA AnswerKeepsInv ==
    ASSUME Inv, NEW c \in Calls, Answer(c) \/ Cancel(c)
    PROVE  Inv'
<1> USE DEF Inv
<1>1. UNCHANGED <<cached, inflight, epoch, flight>>
  BY DEF Answer, Cancel, store
<1>2. PICK at \in {"answered", "cancelled"} : call' = [call EXCEPT ![c].at = at]
  BY DEF Answer, Cancel
<1>3. call[c] \in CallRecords /\ call[c] # NoCall
  BY DEF Answer, Cancel, ShapeOK, NoCall, CallRecords
<1>4. ShapeOK'
  BY <1>1, <1>2, <1>3 DEF ShapeOK, CallRecords
<1>5. EntriesAreCurrent' /\ InflightIsCurrent' /\ CurrentIsInflight' /\ OneAloft'
      /\ InflightFits'
  BY <1>1 DEF EntriesAreCurrent, InflightIsCurrent, CurrentIsInflight, OneAloft,
              InflightFits, Aloft
<1>6. CallsMatchFlights'
  BY <1>1, <1>2, <1>3 DEF CallsMatchFlights, ShapeOK, CallRecords, NoCall
<1> QED BY <1>4, <1>5, <1>6

\* A flight that stays aloft, keeps its key, epoch and future, and settles
\* that future no later than it starts to release it.
LEMMA StayingAloftKeepsInv ==
    ASSUME Inv, NEW f \in Calls, flight[f] \in FlightRecords, Aloft(f),
           NEW r \in FlightRecords, flight' = [flight EXCEPT ![f] = r],
           r.at \in {"settling", "releasing"},
           r.key = flight[f].key, r.epoch = flight[f].epoch, r.shared = flight[f].shared,
           r.shared /\ r.at = "releasing" => r.settled,
           UNCHANGED <<inflight, epoch, call>>
    PROVE  /\ ShapeOK' /\ InflightIsCurrent' /\ CurrentIsInflight'
           /\ CallsMatchFlights' /\ OneAloft' /\ InflightFits'
           /\ \A g \in Calls : flight[g] # Grounded =>
                  flight'[g] # Grounded /\ flight'[g].epoch = flight[g].epoch
<1> USE DEF Inv
<1>1. \A g \in Calls : g # f => flight'[g] = flight[g]
  BY DEF ShapeOK
<1>2. flight'[f] = r /\ r # Grounded /\ flight[f] # Grounded
  BY DEF ShapeOK, Grounded, FlightRecords
<1>3. ShapeOK'
  BY DEF ShapeOK
<1>4. InflightIsCurrent'
  BY <1>1, <1>2 DEF InflightIsCurrent, ShapeOK, Aloft
<1>5. CurrentIsInflight'
  BY <1>1, <1>2 DEF CurrentIsInflight, Aloft
<1>6. CallsMatchFlights'
  BY <1>1, <1>2 DEF CallsMatchFlights, ShapeOK, CallRecords, NoCall
<1>7. OneAloft'
  BY <1>1, <1>2 DEF OneAloft, Aloft
<1>8. InflightFits'
  BY DEF InflightFits
<1> QED BY <1>1, <1>2, <1>3, <1>4, <1>5, <1>6, <1>7, <1>8

\* A result is stored only in the epoch it was asked for in.
LEMMA RetainKeepsInv ==
    ASSUME Inv, NEW f \in Calls, Retain(f)
    PROVE  Inv'
<1> USE DEF Inv
<1>1. flight[f] \in FlightRecords /\ Aloft(f) /\ flight[f] # Grounded
  BY DEF Retain, ShapeOK, Grounded, Aloft
<1> DEFINE r == [flight[f] EXCEPT !.at = "settling", !.ok = TRUE]
<1>2. r \in FlightRecords /\ flight' = [flight EXCEPT ![f] = r]
  BY <1>1 DEF Retain, FlightRecords, ShapeOK
<1>3. /\ r.at = "settling" /\ r.key = flight[f].key
      /\ r.epoch = flight[f].epoch /\ r.shared = flight[f].shared
  BY <1>1 DEF FlightRecords
<1>4. UNCHANGED <<inflight, epoch, call>>
  BY DEF Retain
<1> HIDE DEF r
<1>5. /\ ShapeOK' /\ InflightIsCurrent' /\ CurrentIsInflight'
      /\ CallsMatchFlights' /\ OneAloft' /\ InflightFits'
      /\ \A g \in Calls : flight[g] # Grounded =>
            flight'[g] # Grounded /\ flight'[g].epoch = flight[g].epoch
  BY <1>1, <1>2, <1>3, <1>4, StayingAloftKeepsInv
<1>6. \A j \in Keys : cached'[j] # NoEntry =>
         \/ cached'[j] = cached[j]
         \/ cached'[j].by = f /\ flight[f].epoch = epoch
  <2>1. ASSUME NEW size \in 0..MaxBytes, SameEpoch(f),
               Put(flight[f].key, [by |-> f, size |-> size, expires |-> now + TTL])
        PROVE  \A j \in Keys : cached'[j] # NoEntry =>
                  \/ cached'[j] = cached[j]
                  \/ cached'[j].by = f /\ flight[f].epoch = epoch
    BY <2>1 DEF Put, SameEpoch
  <2>2. CASE UNCHANGED store
    BY <2>2 DEF store
  <2> QED BY <2>1, <2>2 DEF Retain
<1>7. EntriesAreCurrent'
  BY <1>1, <1>4, <1>5, <1>6 DEF EntriesAreCurrent
<1> QED BY <1>5, <1>7

LEMMA SettleKeepsInv ==
    ASSUME Inv, NEW f \in Calls, Settle(f) \/ Fail(f)
    PROVE  Inv'
<1> USE DEF Inv
<1>1. flight[f] \in FlightRecords /\ Aloft(f)
  BY DEF Settle, Fail, ShapeOK, Grounded, Aloft
<1> DEFINE r == [flight[f] EXCEPT !.at = "releasing", !.settled = flight[f].shared]
<1>2. r \in FlightRecords /\ flight' = [flight EXCEPT ![f] = r]
  BY <1>1 DEF Settle, Fail, PassesOn, FlightRecords, ShapeOK
<1>3. /\ r.at = "releasing" /\ r.key = flight[f].key
      /\ r.epoch = flight[f].epoch /\ r.shared = flight[f].shared
      /\ r.settled = r.shared
  BY <1>1 DEF FlightRecords
<1>4. UNCHANGED <<inflight, epoch, call, cached>>
  BY DEF Settle, Fail, store
<1> HIDE DEF r
<1>5. /\ ShapeOK' /\ InflightIsCurrent' /\ CurrentIsInflight'
      /\ CallsMatchFlights' /\ OneAloft' /\ InflightFits'
      /\ \A g \in Calls : flight[g] # Grounded =>
            flight'[g] # Grounded /\ flight'[g].epoch = flight[g].epoch
  BY <1>1, <1>2, <1>3, <1>4, StayingAloftKeepsInv
<1>6. EntriesAreCurrent'
  BY <1>4, <1>5 DEF EntriesAreCurrent
<1> QED BY <1>5, <1>6

\* A flight takes its own registration away, and nobody else's.
LEMMA ReleaseKeepsInv ==
    ASSUME Inv, NEW f \in Calls, Release(f)
    PROVE  Inv'
<1> USE DEF Inv
<1>1. flight[f] \in FlightRecords /\ Aloft(f) /\ flight[f] # Grounded
      /\ flight[f].at = "releasing"
  BY DEF Release, ShapeOK, Grounded, Aloft
<1>2. /\ flight'[f] = [flight[f] EXCEPT !.at = "done"]
      /\ flight'[f] \in FlightRecords /\ flight'[f] # Grounded
      /\ flight'[f].at = "done" /\ flight'[f].key = flight[f].key
      /\ flight'[f].epoch = flight[f].epoch /\ flight'[f].shared = flight[f].shared
      /\ flight'[f].settled = flight[f].settled
  BY <1>1 DEF Release, ShapeOK, FlightRecords, Grounded
<1>3. \A g \in Calls : g # f => flight'[g] = flight[g]
  BY DEF Release, ShapeOK
<1>4. UNCHANGED <<cached, epoch, call>>
  BY DEF Release, store
<1>5. \A k \in Keys : inflight'[k] = IF inflight[k] = f THEN NoFlight ELSE inflight[k]
  <2>1. \A k \in Keys : inflight[k] = f => k = flight[f].key /\ flight[f].shared
    BY CacheAssumption DEF InflightIsCurrent, NoFlight
  <2> QED BY <2>1, <1>1 DEF Release, IsRegistered, ShapeOK, FlightRecords
<1>6. ShapeOK'
  BY <1>1, <1>2, <1>4 DEF ShapeOK, Release
<1>7. EntriesAreCurrent'
  BY <1>1, <1>2, <1>3, <1>4 DEF EntriesAreCurrent
<1>8. InflightIsCurrent'
  BY <1>3, <1>4, <1>5 DEF InflightIsCurrent, ShapeOK, Aloft
<1>9. CurrentIsInflight'
  <2> SUFFICES ASSUME NEW g \in Calls, flight'[g] # Grounded
               PROVE  /\ flight'[g].epoch <= epoch'
                      /\ Aloft(g)' /\ flight'[g].shared /\ flight'[g].epoch = epoch'
                           => inflight'[flight'[g].key] = g
                      /\ flight'[g].shared /\ flight'[g].at \in {"releasing", "done"}
                           => flight'[g].settled
    BY DEF CurrentIsInflight
  <2>1. CASE g = f
    BY <2>1, <1>1, <1>2, <1>4 DEF CurrentIsInflight, Aloft
  <2>2. CASE g # f
    <3>1. flight'[g] = flight[g] /\ flight[g].key \in Keys
      BY <2>2, <1>3 DEF ShapeOK, FlightRecords
    <3> QED BY <2>2, <3>1, <1>4, <1>5 DEF CurrentIsInflight, Aloft
  <2> QED BY <2>1, <2>2
<1>10. CallsMatchFlights'
  <2>1. \A g \in Calls :
           /\ flight'[g] = Grounded <=> flight[g] = Grounded
           /\ flight[g] # Grounded => /\ flight'[g].epoch = flight[g].epoch
                                     /\ flight'[g].shared = flight[g].shared
    BY <1>1, <1>2, <1>3
  <2>2. \A c \in Calls : call[c] # NoCall => call[c].by \in Calls
    BY DEF ShapeOK, CallRecords
  <2> QED BY <2>1, <2>2, <1>4 DEF CallsMatchFlights
<1>11. OneAloft'
  <2>1. \A g \in Calls : Aloft(g)' => g # f /\ Aloft(g) /\ flight'[g] = flight[g]
    BY <1>2, <1>3 DEF Aloft
  <2> QED BY <2>1 DEF OneAloft
<1>12. InflightFits'
  <2> DEFINE S == {k \in Keys : inflight[k] # NoFlight}
             T == {k \in Keys : inflight'[k] # NoFlight}
  <2>1. T \subseteq S
    BY <1>5
  <2>2. IsFiniteSet(S) /\ Cardinality(S) <= MaxEntries
    BY DEF InflightFits
  <2>3. IsFiniteSet(T) /\ Cardinality(T) <= Cardinality(S)
    BY <2>1, <2>2, FS_Subset
  <2>4. Cardinality(S) \in Nat /\ Cardinality(T) \in Nat
    BY <2>2, <2>3, FS_CardinalityType
  <2> HIDE DEF S
  <2> QED BY <2>2, <2>3, <2>4, CacheAssumption DEF InflightFits
<1> QED BY <1>6, <1>7, <1>8, <1>9, <1>10, <1>11, <1>12

\* After a clear nothing is current.
LEMMA ClearKeepsInv == ASSUME Inv, Clear PROVE Inv'
<1> USE DEF Inv
<1>1. /\ \A k \in Keys : cached'[k] = NoEntry /\ inflight'[k] = NoFlight
      /\ epoch' = epoch + 1 /\ epoch \in Nat
      /\ UNCHANGED <<flight, call>>
  BY DEF Clear, NoEntries, Unregistered, ShapeOK
<1>2. ShapeOK'
  BY <1>1 DEF ShapeOK, Clear, Unregistered
<1>3. EntriesAreCurrent' /\ InflightIsCurrent'
  BY <1>1 DEF EntriesAreCurrent, InflightIsCurrent
<1>4. CurrentIsInflight'
  <2>1. \A f \in Calls : flight[f] # Grounded => flight[f].epoch \in Nat
    BY DEF ShapeOK, FlightRecords
  <2> QED BY <2>1, <1>1 DEF CurrentIsInflight, Aloft
<1>5. CallsMatchFlights' /\ OneAloft'
  BY <1>1 DEF CallsMatchFlights, OneAloft, Aloft
<1>6. InflightFits'
  <2>1. {k \in Keys : inflight'[k] # NoFlight} = {}
    BY <1>1
  <2> QED BY <2>1, FS_EmptySet, CacheAssumption DEF InflightFits
<1> QED BY <1>2, <1>3, <1>4, <1>5, <1>6

LEMMA StutterKeepsInv ==
    ASSUME Inv, UNCHANGED <<cached, inflight, epoch, flight, call>> PROVE Inv'
BY DEF Inv, ShapeOK, EntriesAreCurrent, InflightIsCurrent, CurrentIsInflight,
       CallsMatchFlights, OneAloft, InflightFits, Aloft

LEMMA NextKeepsInv == Inv /\ [Next]_vars => Inv'
<1> SUFFICES ASSUME Inv, [Next]_vars PROVE Inv'
  OBVIOUS
<1>1. ASSUME NEW c \in Calls, NEW k \in Keys, Hit(c, k) \/ Join(c, k) \/ Own(c, k)
      PROVE  Inv'
  BY <1>1, HitKeepsInv, JoinKeepsInv, OwnKeepsInv
<1>2. ASSUME NEW c \in Calls, Answer(c) \/ Cancel(c) PROVE Inv'
  BY <1>2, AnswerKeepsInv
<1>3. ASSUME NEW f \in Calls, Fly(f) PROVE Inv'
  BY <1>3, RetainKeepsInv, SettleKeepsInv, ReleaseKeepsInv DEF Fly
<1>4. CASE Clear
  BY <1>4, ClearKeepsInv
<1>5. CASE Tick \/ UNCHANGED vars
  BY <1>5, StutterKeepsInv DEF Tick, vars, store
<1> QED BY <1>1, <1>2, <1>3, <1>4, <1>5 DEF Next

LEMMA AlwaysInv == Spec => []Inv
BY InitInv, NextKeepsInv, PTL DEF Spec

\* No two flights of a key that may be joined are aloft in an epoch, whatever
\* clears and late releases come between.
THEOREM FlightsAreSingle == Spec => []SingleFlight
<1>1. Inv => SingleFlight
  BY DEF Inv, OneAloft, InflightFits, SingleFlight
<1> QED BY <1>1, AlwaysInv, PTL

\* No call is answered with a result asked for before a clear that came
\* before the call.
THEOREM ClearSeparates == Spec => []FreshAfterClear
<1>1. Inv => FreshAfterClear
  BY DEF Inv, CallsMatchFlights, FreshAfterClear, ShapeOK, CallRecords, NoCall
<1> QED BY <1>1, AlwaysInv, PTL

\* Every waiting call has its answer or waits for a flight that is aloft.
THEOREM EveryCallIsServed == Spec => []NobodyIsLeftBehind
<1>1. Inv => NobodyIsLeftBehind
  <2> SUFFICES ASSUME Inv, NEW c \in Calls, call[c].at = "waiting"
               PROVE  Landed(c) \/ Aloft(call[c].by)
    BY DEF NobodyIsLeftBehind
  <2>1. call[c] # NoCall /\ call[c].by \in Calls
    BY DEF Inv, ShapeOK, CallRecords, NoCall
  <2>2. flight[call[c].by] \in FlightRecords
    BY <2>1 DEF Inv, CallsMatchFlights, ShapeOK
  <2> QED BY <2>1, <2>2 DEF Inv, CallsMatchFlights, CurrentIsInflight, Landed, Aloft,
                            FlightRecords
<1> QED BY <1>1, AlwaysInv, PTL

-----------------------------------------------------------------------------
(* Sums over finite sets, and the sequences that Without makes.  Both are   *)
(* recursive functions; the induction is on a smallest counterexample.      *)

\* A set of numbers has a smallest member.
LEMMA SmallestNumber ==
    ASSUME NEW N, N \subseteq Nat, N # {}
    PROVE  \E n \in N : \A k \in N : n <= k
<1>1. PICK n \in N : \A k \in N : ~(<<k, n>> \in OpToRel(<, Nat))
  BY WFMin, NatLessThanWellFounded
<1>2. \A k \in N : ~(k < n)
  BY <1>1 DEF OpToRel
<1> QED BY <1>2

\* A set of finite sets has a smallest member.
LEMMA SmallestSet ==
    ASSUME NEW B, B # {}, \A s \in B : IsFiniteSet(s)
    PROVE  \E s \in B : \A u \in SUBSET s : u # s => u \notin B
<1> DEFINE Counts == {Cardinality(s) : s \in B}
<1>1. Counts \subseteq Nat /\ Counts # {}
  BY FS_CardinalityType
<1>2. PICK n \in Counts : \A k \in Counts : n <= k
  <2> HIDE DEF Counts
  <2> QED BY <1>1, SmallestNumber
<1>3. PICK s \in B : n = Cardinality(s)
  BY <1>2
<1>4. ASSUME NEW u \in SUBSET s, u # s, u \in B PROVE FALSE
  <2>1. Cardinality(u) <= Cardinality(s) /\ Cardinality(u) # Cardinality(s)
    BY <1>4, FS_Subset
  <2>2. Cardinality(u) \in Counts /\ Cardinality(u) \in Nat /\ Cardinality(s) \in Nat
    BY <1>1, <1>4
  <2> HIDE DEF Counts
  <2> QED BY <2>1, <2>2, <1>2, <1>3
<1>5. \A u \in SUBSET s : u # s => u \notin B
  BY <1>4
<1> QED BY <1>5, <1>3

\* The recursion of SumFunctionOnSet, over the subsets of a set.
Adds(sum, f, S) ==
    sum = [s \in SUBSET S |->
             IF s = {} THEN 0
             ELSE f[CHOOSE x \in s : TRUE] + sum[s \ {CHOOSE x \in s : TRUE}]]

LEMMA AddsOnce ==
    ASSUME NEW f, NEW S, IsFiniteSet(S), NEW T \in SUBSET S,
           NEW g, Adds(g, f, S), NEW h, Adds(h, f, T)
    PROVE  \A s \in SUBSET T : g[s] = h[s]
<1> DEFINE B == {s \in SUBSET T : g[s] # h[s]}
<1> SUFFICES ASSUME B # {} PROVE FALSE
  OBVIOUS
<1>1. \A s \in B : IsFiniteSet(s)
  BY FS_Subset
<1>2. PICK s \in B : \A u \in SUBSET s : u # s => u \notin B
  BY <1>1, SmallestSet
<1> DEFINE x == CHOOSE x \in s : TRUE
<1>3. g[s] = (IF s = {} THEN 0 ELSE f[x] + g[s \ {x}])
  BY DEF Adds
<1>4. h[s] = (IF s = {} THEN 0 ELSE f[x] + h[s \ {x}])
  BY DEF Adds
<1>5. s # {}
  BY <1>3, <1>4
<1>6. x \in s
  BY <1>5
<1> HIDE DEF x
<1>7. g[s \ {x}] = h[s \ {x}]
  BY <1>2, <1>6
<1> QED BY <1>3, <1>4, <1>5, <1>7

SumsOf(f, S) == CHOOSE sum : Adds(sum, f, S)

LEMMA AddsExists ==
    ASSUME NEW f, NEW S, IsFiniteSet(S) PROVE \E sum : Adds(sum, f, S)
<1> DEFINE B == {s \in SUBSET S : ~\E sum : Adds(sum, f, s)}
<1> SUFFICES ASSUME B # {} PROVE FALSE
  OBVIOUS
<1>1. \A s \in B : IsFiniteSet(s)
  BY FS_Subset
<1>2. PICK T \in B : \A u \in SUBSET T : u # T => u \notin B
  BY <1>1, SmallestSet
<1>3. \A u \in SUBSET T : u # T => Adds(SumsOf(f, u), f, u)
  BY <1>2 DEF SumsOf
<1> DEFINE c(s) == CHOOSE x \in s : TRUE
           it == [s \in SUBSET T |-> IF s = {} THEN 0 ELSE f[c(s)] + SumsOf(f, s \ {c(s)})[s \ {c(s)}]]
<1>4. ASSUME NEW s \in SUBSET T, s # {} PROVE it[s \ {c(s)}] = SumsOf(f, s \ {c(s)})[s \ {c(s)}]
  <2> DEFINE u == s \ {c(s)}
  <2>1. c(s) \in s
    BY <1>4
  <2>2. u \in SUBSET T /\ u # T
    BY <2>1
  <2> HIDE DEF u, c, it
  <2>3. Adds(SumsOf(f, u), f, u)
    BY <2>2, <1>3
  <2>4. it[u] = IF u = {} THEN 0 ELSE f[c(u)] + SumsOf(f, u \ {c(u)})[u \ {c(u)}]
    BY <2>2 DEF it
  <2>5. SumsOf(f, u)[u] = IF u = {} THEN 0 ELSE f[c(u)] + SumsOf(f, u)[u \ {c(u)}]
    BY <2>3 DEF Adds, c
  <2>6. CASE u # {}
    <3>1. c(u) \in u
      BY <2>6 DEF c
    <3>2. (u \ {c(u)}) \in SUBSET T /\ u \ {c(u)} # T /\ (u \ {c(u)}) \in SUBSET u
      BY <2>2
    <3>3. Adds(SumsOf(f, u \ {c(u)}), f, u \ {c(u)})
      BY <3>2, <1>3
    <3>4. IsFiniteSet(u)
      BY <2>2, FS_Subset
    <3>5. SumsOf(f, u)[u \ {c(u)}] = SumsOf(f, u \ {c(u)})[u \ {c(u)}]
      BY <3>2, <3>3, <3>4, <2>3, AddsOnce
    <3> QED BY <2>4, <2>5, <2>6, <3>5 DEF u
  <2>7. CASE u = {}
    BY <2>4, <2>5, <2>7 DEF u
  <2> QED BY <2>6, <2>7
<1>5. it = [s \in SUBSET T |-> IF s = {} THEN 0 ELSE f[c(s)] + it[s \ {c(s)}]]
  <2> HIDE DEF c
  <2>1. \A s \in SUBSET T : it[s] = (IF s = {} THEN 0 ELSE f[c(s)] + it[s \ {c(s)}])
    BY <1>4
  <2> QED BY <2>1
<1>6. Adds(it, f, T)
  BY <1>5 DEF Adds
<1> QED BY <1>6

LEMMA SumUnfolds ==
    ASSUME NEW f, NEW S, IsFiniteSet(S)
    PROVE  /\ Adds(SumsOf(f, S), f, S)
           /\ SumFunctionOnSet(f, S) = SumsOf(f, S)[S]
<1>1. Adds(SumsOf(f, S), f, S)
  <2>1. \E sum : Adds(sum, f, S)
    BY AddsExists
  <2> QED BY <2>1 DEF SumsOf
<1>2. SumFunctionOnSet(f, S) = SumsOf(f, S)[S]
  BY DEF SumFunctionOnSet, FoldFunctionOnSet, MapThenFoldSet, SumsOf, Adds
<1> QED BY <1>1, <1>2

LEMMA SumStep ==
    ASSUME NEW f, NEW S, IsFiniteSet(S)
    PROVE  SumFunctionOnSet(f, S) = IF S = {} THEN 0
                       ELSE f[CHOOSE x \in S : TRUE] + SumFunctionOnSet(f, S \ {CHOOSE x \in S : TRUE})
<1> DEFINE c == CHOOSE x \in S : TRUE
<1>1. SumFunctionOnSet(f, S) = IF S = {} THEN 0 ELSE f[c] + SumsOf(f, S)[S \ {c}]
  <2> DEFINE g == SumsOf(f, S)
  <2>1. Adds(g, f, S) /\ SumFunctionOnSet(f, S) = g[S] /\ S \in SUBSET S
    BY SumUnfolds
  <2> HIDE DEF g
  <2>2. g[S] = IF S = {} THEN 0 ELSE f[c] + g[S \ {c}]
    BY <2>1 DEF Adds
  <2> QED BY <2>1, <2>2 DEF g
<1>2. IsFiniteSet(S \ {c}) /\ (S \ {c}) \in SUBSET S
  BY FS_Subset
<1> HIDE DEF c
<1>3. SumsOf(f, S)[S \ {c}] = SumsOf(f, S \ {c})[S \ {c}]
  <2>1. Adds(SumsOf(f, S), f, S) /\ Adds(SumsOf(f, S \ {c}), f, S \ {c})
    BY <1>2, SumUnfolds
  <2> QED BY <2>1, <1>2, AddsOnce
<1>4. SumsOf(f, S \ {c})[S \ {c}] = SumFunctionOnSet(f, S \ {c})
  BY <1>2, SumUnfolds
<1>5. SumFunctionOnSet(f, S) = IF S = {} THEN 0 ELSE f[c] + SumFunctionOnSet(f, S \ {c})
  BY <1>1, <1>3, <1>4
<1> QED BY <1>5 DEF c

LEMMA SumIsNat ==
    ASSUME NEW f, NEW S, IsFiniteSet(S), \A x \in S : f[x] \in Nat
    PROVE  SumFunctionOnSet(f, S) \in Nat
<1> DEFINE B == {s \in SUBSET S : SumFunctionOnSet(f, s) \notin Nat}
<1> SUFFICES ASSUME B # {} PROVE FALSE
  OBVIOUS
<1>1. \A s \in B : IsFiniteSet(s)
  BY FS_Subset
<1>2. PICK s \in B : \A u \in SUBSET s : u # s => u \notin B
  BY <1>1, SmallestSet
<1> DEFINE c == CHOOSE x \in s : TRUE
<1>3. SumFunctionOnSet(f, s) = IF s = {} THEN 0 ELSE f[c] + SumFunctionOnSet(f, s \ {c})
  BY <1>1, SumStep
<1>4. s # {} => c \in s
  OBVIOUS
<1> HIDE DEF c
<1>5. s # {} => SumFunctionOnSet(f, s \ {c}) \in Nat /\ f[c] \in Nat
  BY <1>2, <1>4
<1> QED BY <1>3, <1>5

\* Which element is taken first does not matter.
LEMMA SumWith ==
    ASSUME NEW f, NEW S, IsFiniteSet(S), \A x \in S : f[x] \in Nat, NEW a \in S
    PROVE  SumFunctionOnSet(f, S) = f[a] + SumFunctionOnSet(f, S \ {a})
<1> DEFINE B == {s \in SUBSET S : \E e \in s : SumFunctionOnSet(f, s) # f[e] + SumFunctionOnSet(f, s \ {e})}
<1> SUFFICES ASSUME B # {} PROVE FALSE
  OBVIOUS
<1>1. \A s \in B : IsFiniteSet(s)
  BY FS_Subset
<1>2. PICK s \in B : \A u \in SUBSET s : u # s => u \notin B
  BY <1>1, SmallestSet
<1>3. PICK e \in s : SumFunctionOnSet(f, s) # f[e] + SumFunctionOnSet(f, s \ {e})
  BY <1>2
<1> DEFINE c == CHOOSE x \in s : TRUE
<1>4. SumFunctionOnSet(f, s) = f[c] + SumFunctionOnSet(f, s \ {c}) /\ c \in s
  BY <1>1, <1>3, SumStep
<1> HIDE DEF c
<1>5. c # e
  BY <1>3, <1>4
<1>6. SumFunctionOnSet(f, s \ {c}) = f[e] + SumFunctionOnSet(f, (s \ {c}) \ {e})
  BY <1>2, <1>4, <1>5
<1>7. SumFunctionOnSet(f, s \ {e}) = f[c] + SumFunctionOnSet(f, (s \ {e}) \ {c})
  BY <1>2, <1>3, <1>4, <1>5
<1>8. (s \ {c}) \ {e} = (s \ {e}) \ {c} /\ IsFiniteSet((s \ {c}) \ {e})
  BY <1>1, FS_Subset
<1>9. SumFunctionOnSet(f, (s \ {c}) \ {e}) \in Nat /\ f[c] \in Nat /\ f[e] \in Nat
  BY <1>8, SumIsNat, <1>3, <1>4
<1> QED BY <1>3, <1>4, <1>6, <1>7, <1>8, <1>9

LEMMA SumOfEqual ==
    ASSUME NEW f, NEW g, NEW S, IsFiniteSet(S), \A x \in S : f[x] = g[x]
    PROVE  SumFunctionOnSet(f, S) = SumFunctionOnSet(g, S)
<1> DEFINE B == {s \in SUBSET S : SumFunctionOnSet(f, s) # SumFunctionOnSet(g, s)}
<1> SUFFICES ASSUME B # {} PROVE FALSE
  OBVIOUS
<1>1. \A s \in B : IsFiniteSet(s)
  BY FS_Subset
<1>2. PICK s \in B : \A u \in SUBSET s : u # s => u \notin B
  BY <1>1, SmallestSet
<1> DEFINE c == CHOOSE x \in s : TRUE
<1>3. /\ SumFunctionOnSet(f, s) = IF s = {} THEN 0 ELSE f[c] + SumFunctionOnSet(f, s \ {c})
      /\ SumFunctionOnSet(g, s) = IF s = {} THEN 0 ELSE g[c] + SumFunctionOnSet(g, s \ {c})
  BY <1>1, SumStep
<1>4. s # {} => c \in s
  OBVIOUS
<1> HIDE DEF c
<1>5. s # {} => SumFunctionOnSet(f, s \ {c}) = SumFunctionOnSet(g, s \ {c}) /\ f[c] = g[c]
  BY <1>2, <1>4
<1> QED BY <1>2, <1>3, <1>5

LEMMA SumOfUnion ==
    ASSUME NEW f, NEW S, NEW T, IsFiniteSet(S \cup T), S \cap T = {},
           \A x \in S \cup T : f[x] \in Nat
    PROVE  SumFunctionOnSet(f, S \cup T) = SumFunctionOnSet(f, S) + SumFunctionOnSet(f, T)
<1> DEFINE B == {s \in SUBSET T : SumFunctionOnSet(f, S \cup s) # SumFunctionOnSet(f, S) + SumFunctionOnSet(f, s)}
<1> SUFFICES ASSUME B # {} PROVE FALSE
  OBVIOUS
<1>1. \A s \in SUBSET T : IsFiniteSet(s) /\ IsFiniteSet(S \cup s) /\ IsFiniteSet(S)
  BY FS_Subset
<1>2. PICK s \in B : \A u \in SUBSET s : u # s => u \notin B
  BY <1>1, SmallestSet
<1>3. s # {}
  <2>1. SumFunctionOnSet(f, {}) = 0
    BY FS_EmptySet, SumStep
  <2>2. SumFunctionOnSet(f, S) \in Nat
    BY <1>1, SumIsNat
  <2>3. S \cup {} = S
    OBVIOUS
  <2>4. SumFunctionOnSet(f, S \cup s) # SumFunctionOnSet(f, S) + SumFunctionOnSet(f, s)
    BY <1>2
  <2> QED BY <2>1, <2>2, <2>3, <2>4
<1>4. PICK e \in s : TRUE
  BY <1>3
<1>5. SumFunctionOnSet(f, S \cup s) = f[e] + SumFunctionOnSet(f, (S \cup s) \ {e})
  BY <1>1, <1>2, SumWith
<1>6. SumFunctionOnSet(f, s) = f[e] + SumFunctionOnSet(f, s \ {e})
  BY <1>1, <1>2, SumWith
<1>7. (S \cup s) \ {e} = S \cup (s \ {e})
  BY <1>2, <1>4
<1>8. SumFunctionOnSet(f, S \cup (s \ {e})) = SumFunctionOnSet(f, S) + SumFunctionOnSet(f, s \ {e})
  BY <1>2, <1>4
<1>9. SumFunctionOnSet(f, S) \in Nat /\ SumFunctionOnSet(f, s \ {e}) \in Nat /\ f[e] \in Nat
  BY <1>1, <1>2, SumIsNat
<1> QED BY <1>2, <1>5, <1>6, <1>7, <1>8, <1>9

\* The recursion of Without, up to the n-th key.
Keeps(kept, q, S, n) ==
    kept = [i \in 0..n |->
              IF i = 0 THEN <<>>
              ELSE IF q[i] \in S THEN kept[i - 1] ELSE Append(kept[i - 1], q[i])]

LEMMA KeepsExists ==
    ASSUME NEW q, NEW S, NEW N \in Nat PROVE \E kept : Keeps(kept, q, S, N)
<1> DEFINE B == {n \in 0..N : ~\E kept : Keeps(kept, q, S, n)}
<1> SUFFICES ASSUME B # {} PROVE FALSE
  OBVIOUS
<1>1. PICK n \in B : \A k \in B : n <= k
  <2>1. B \subseteq Nat
    OBVIOUS
  <2> HIDE DEF B
  <2> QED BY <2>1, SmallestNumber
<1>2. CASE n = 0
  <2> DEFINE kept == [i \in 0..0 |-> <<>>]
  <2>1. Keeps(kept, q, S, 0)
    BY DEF Keeps
  <2> QED BY <2>1, <1>1, <1>2
<1>3. CASE n # 0
  <2>1. n - 1 \in 0..N /\ n \in 0..N /\ n - 1 \notin B
    BY <1>1, <1>3
  <2>2. PICK less : Keeps(less, q, S, n - 1)
    BY <2>1
  <2> DEFINE top == IF q[n] \in S THEN less[n - 1] ELSE Append(less[n - 1], q[n])
             kept == [i \in 0..n |-> IF i = n THEN top ELSE less[i]]
  <2>3. \A i \in 0..(n - 1) : less[i] =
            (IF i = 0 THEN <<>>
             ELSE IF q[i] \in S THEN less[i - 1] ELSE Append(less[i - 1], q[i]))
    BY <2>2 DEF Keeps
  <2>4. \A i \in 0..n : i - 1 \in 0..n /\ i # 0 => kept[i - 1] = less[i - 1]
    BY <2>1
  <2>5. \A i \in 0..n : kept[i] =
            (IF i = 0 THEN <<>>
             ELSE IF q[i] \in S THEN kept[i - 1] ELSE Append(kept[i - 1], q[i]))
    <3> SUFFICES ASSUME NEW i \in 0..n
                 PROVE  kept[i] = (IF i = 0 THEN <<>>
                                   ELSE IF q[i] \in S THEN kept[i - 1]
                                   ELSE Append(kept[i - 1], q[i]))
      OBVIOUS
    <3>1. CASE i = n
      BY <3>1, <2>1, <2>4, <1>3
    <3>2. CASE i # n
      BY <3>2, <2>1, <2>3, <2>4
    <3> QED BY <3>1, <3>2
  <2> HIDE DEF top
  <2>6. Keeps(kept, q, S, n)
    BY <2>5 DEF Keeps
  <2> QED BY <2>6, <1>1
<1> QED BY <1>2, <1>3

Distinct(q) == \A i, j \in 1..Len(q) : q[i] = q[j] => i = j
Elements(q) == {q[i] : i \in 1..Len(q)}

LEMMA ElementsOfAppend ==
    ASSUME NEW K, NEW q \in Seq(K), NEW k \in K
    PROVE  /\ Append(q, k) \in Seq(K)
           /\ Elements(Append(q, k)) = Elements(q) \cup {k}
           /\ Distinct(q) /\ k \notin Elements(q) => Distinct(Append(q, k))
<1>1. /\ Append(q, k) \in Seq(K) /\ Len(q) \in Nat /\ Len(Append(q, k)) = Len(q) + 1
      /\ \A i \in 1..Len(q) : Append(q, k)[i] = q[i]
      /\ Append(q, k)[Len(q) + 1] = k
  BY AppendProperties, LenProperties
<1>2. 1..(Len(q) + 1) = (1..Len(q)) \cup {Len(q) + 1}
  BY <1>1
<1>3. Elements(Append(q, k)) = Elements(q) \cup {k}
  BY <1>1, <1>2 DEF Elements
<1>4. Distinct(q) /\ k \notin Elements(q) => Distinct(Append(q, k))
  BY <1>1, <1>2 DEF Elements, Distinct
<1> QED BY <1>1, <1>3, <1>4

\* kept[i] has the first i keys but those of S.
KeptUpTo(kept, i, S) ==
    /\ kept[i] \in Seq(Keys) /\ Distinct(kept[i])
    /\ Elements(kept[i]) = {order[j] : j \in 1..i} \ S

\* What Without leaves are the other keys, each once.
LEMMA WithoutKeeps ==
    ASSUME order \in Seq(Keys), Distinct(order), NEW S
    PROVE  /\ Without(S) \in Seq(Keys) /\ Distinct(Without(S))
           /\ Elements(Without(S)) = Elements(order) \ S
<1> DEFINE kept == CHOOSE f : Keeps(f, order, S, Len(order))
<1>1. Len(order) \in Nat
  BY LenProperties
<1>2. Keeps(kept, order, S, Len(order))
  <2>1. \E f : Keeps(f, order, S, Len(order))
    BY <1>1, KeepsExists
  <2> QED BY <2>1
<1>3. Without(S) = kept[Len(order)]
  BY DEF Without, Keeps
<1> HIDE DEF kept
<1> DEFINE B == {i \in 0..Len(order) : ~KeptUpTo(kept, i, S)}
<1>4. B = {}
  <2> SUFFICES ASSUME B # {} PROVE FALSE
    OBVIOUS
  <2>1. PICK i \in B : \A k \in B : i <= k
    <3>1. B \subseteq Nat
      BY <1>1
    <3> HIDE DEF B
    <3> QED BY <3>1, SmallestNumber
  <2>2. kept[i] = IF i = 0 THEN <<>>
                  ELSE IF order[i] \in S THEN kept[i - 1] ELSE Append(kept[i - 1], order[i])
    BY <1>2 DEF Keeps
  <2>3. CASE i = 0
    <3>1. kept[i] = <<>> /\ Len(<<>>) = 0 /\ <<>> \in Seq(Keys) /\ 1..0 = {}
      BY <2>2, <2>3, EmptySeq
    <3>2. KeptUpTo(kept, i, S)
      BY <3>1, <2>3 DEF Distinct, Elements, KeptUpTo
    <3> QED BY <3>2, <2>1
  <2>4. CASE i # 0
    <3>1. i \in 1..Len(order) /\ i - 1 \in 0..Len(order) /\ order[i] \in Keys
      BY <1>1, <2>4, ElementOfSeq
    <3>2. KeptUpTo(kept, i - 1, S)
      BY <2>1, <3>1
    <3>3. 1..i = (1..(i - 1)) \cup {i}
      BY <3>1
    <3>4. order[i] \notin {order[j] : j \in 1..(i - 1)}
      BY <3>1, <1>1 DEF Distinct
    <3>5. {order[j] : j \in 1..i} = {order[j] : j \in 1..(i - 1)} \cup {order[i]}
      BY <3>3
    <3>6. CASE order[i] \in S
      <4>1. KeptUpTo(kept, i, S)
        BY <3>2, <3>5, <3>6, <2>2, <2>4 DEF KeptUpTo
      <4> QED BY <4>1, <2>1
    <3>7. CASE order[i] \notin S
      <4>1. kept[i] = Append(kept[i - 1], order[i])
        BY <3>7, <2>2, <2>4
      <4>2. /\ kept[i] \in Seq(Keys) /\ Distinct(kept[i])
            /\ Elements(kept[i]) = Elements(kept[i - 1]) \cup {order[i]}
        <5>1. /\ kept[i - 1] \in Seq(Keys) /\ Distinct(kept[i - 1])
              /\ order[i] \notin Elements(kept[i - 1])
          BY <3>2, <3>4 DEF KeptUpTo
        <5> QED BY <5>1, <4>1, <3>1, ElementsOfAppend
      <4>3. KeptUpTo(kept, i, S)
        BY <4>2, <3>2, <3>5, <3>7 DEF KeptUpTo
      <4> QED BY <4>3, <2>1
    <3> QED BY <3>6, <3>7
  <2> QED BY <2>3, <2>4
<1>5. KeptUpTo(kept, Len(order), S)
  BY <1>1, <1>4
<1> QED BY <1>3, <1>5 DEF Elements, KeptUpTo

\* A sequence without repetition is as long as the set of its elements.
LEMMA LengthIsCount ==
    ASSUME NEW K, NEW q \in Seq(K), Distinct(q)
    PROVE  IsFiniteSet(Elements(q)) /\ Cardinality(Elements(q)) = Len(q) /\ Len(q) \in Nat
<1>1. Len(q) \in Nat /\ q \in [1..Len(q) -> K]
  BY LenProperties
<1>2. q \in Bijection(1..Len(q), Elements(q))
  BY <1>1 DEF Elements, Distinct, Bijection, Injection, Surjection, IsInjective
<1>3. IsFiniteSet(1..Len(q)) /\ Cardinality(1..Len(q)) = Len(q)
  BY <1>1, FS_Interval
<1> QED BY <1>1, <1>2, <1>3, FS_Bijection DEF ExistsBijection

-----------------------------------------------------------------------------
(* The bookkeeping of the store.                                           *)

Books ==
    /\ cached \in [Keys -> EntryRecords \cup {NoEntry}]
    /\ now \in 0..MaxTime
    /\ order \in Seq(Keys) /\ Distinct(order)
    /\ Elements(order) = Stored
    /\ Len(order) <= MaxEntries
    /\ bytes = SizeOf(Stored) /\ bytes <= MaxBytes

LEMMA StoredIsFinite ==
    ASSUME Books
    PROVE  IsFiniteSet(Stored) /\ Cardinality(Stored) = Len(order) /\ Len(order) \in Nat
BY LengthIsCount DEF Books

LEMMA SizesAreNumbers ==
    ASSUME Books
    PROVE  \A k \in Stored : cached[k] \in EntryRecords /\ cached[k].size \in Nat
                             /\ Sizes[k] = cached[k].size
BY CacheAssumption DEF Books, Stored, Sizes, EntryRecords

LEMMA InitBooks == Init => Books
<1> SUFFICES ASSUME Init PROVE Books
  OBVIOUS
<1>1. Stored = {}
  BY DEF Init, Stored
<1>2. order = <<>> /\ order \in Seq(Keys) /\ Len(order) = 0
  BY EmptySeq DEF Init
<1>3. SizeOf(Stored) = 0
  BY <1>1, FS_EmptySet, SumStep DEF SizeOf
<1>4. 1..0 = {}
  OBVIOUS
<1>5. Elements(order) = {} /\ Distinct(order)
  BY <1>2, <1>4 DEF Elements, Distinct
<1>6. cached \in [Keys -> EntryRecords \cup {NoEntry}] /\ now \in 0..MaxTime /\ bytes = 0
  BY CacheAssumption DEF Init
<1> QED BY <1>1, <1>2, <1>3, <1>5, <1>6, CacheAssumption DEF Books

\* The count after the entries of T are gone, in whatever order the others are.
LEMMA DropKeepsBooks ==
    ASSUME Books, NEW T \in SUBSET Stored, now' \in 0..MaxTime,
           cached' = [k \in Keys |-> IF k \in T THEN NoEntry ELSE cached[k]],
           bytes' = bytes - SizeOf(T),
           order' \in Seq(Keys), Distinct(order'), Elements(order') = Stored \ T
    PROVE  Books'
<1>1. IsFiniteSet(Stored) /\ IsFiniteSet(T) /\ IsFiniteSet(Stored \ T)
  BY StoredIsFinite, FS_Subset
<1>2. cached' \in [Keys -> EntryRecords \cup {NoEntry}]
  BY DEF Books
<1>3. Stored' = Stored \ T /\ \A k \in Stored' : cached'[k] = cached[k]
  BY <1>2 DEF Stored
<1>4. \A k \in Stored' : Sizes'[k] = Sizes[k]
  BY <1>3 DEF Sizes
<1>5. \A k \in Stored : Sizes[k] \in Nat
  BY SizesAreNumbers
<1>6. SizeOf(Stored)' = SizeOf(Stored \ T)
  <2>1. SumFunctionOnSet(Sizes', Stored') = SumFunctionOnSet(Sizes, Stored')
    BY <1>1, <1>3, <1>4, SumOfEqual
  <2> QED BY <2>1, <1>3 DEF SizeOf
<1>7. SizeOf(Stored) = SizeOf(Stored \ T) + SizeOf(T)
  <2>1. (Stored \ T) \cup T = Stored /\ (Stored \ T) \cap T = {}
    OBVIOUS
  <2>2. SumFunctionOnSet(Sizes, (Stored \ T) \cup T)
            = SumFunctionOnSet(Sizes, Stored \ T) + SumFunctionOnSet(Sizes, T)
    <3>1. IsFiniteSet((Stored \ T) \cup T) /\ \A k \in (Stored \ T) \cup T : Sizes[k] \in Nat
      BY <2>1, <1>1, <1>5
    <3> HIDE DEF Stored
    <3> QED BY <3>1, <2>1, SumOfUnion
  <2> QED BY <2>1, <2>2 DEF SizeOf
<1>8. SizeOf(Stored \ T) \in Nat /\ SizeOf(T) \in Nat
  BY <1>1, <1>5, SumIsNat DEF SizeOf
<1>9. bytes' = SizeOf(Stored)' /\ bytes' <= MaxBytes
  BY <1>6, <1>7, <1>8, CacheAssumption DEF Books
<1>10. Len(order') <= MaxEntries
  <2>1. Cardinality(Stored \ T) <= Cardinality(Stored)
    BY <1>1, FS_Subset
  <2>2. Cardinality(Stored \ T) = Len(order') /\ Len(order') \in Nat
    BY LengthIsCount
  <2> QED BY <2>1, <2>2, StoredIsFinite, CacheAssumption DEF Books
<1> QED BY <1>2, <1>3, <1>9, <1>10 DEF Books, Distinct, Elements

\* A lookup expires what is due and moves what it finds to the end.
LEMMA LookupKeepsBooks ==
    ASSUME Books, NEW c \in Calls, NEW k \in Keys, Hit(c, k) \/ Join(c, k) \/ Own(c, k)
    PROVE  Books'
<1>1. /\ cached' = [j \in Keys |-> IF j \in Expired THEN NoEntry ELSE cached[j]]
      /\ bytes' = bytes - SizeOf(Expired) /\ now' = now
  BY DEF Hit, Join, Own, Begin, Expire
<1>2. Expired \in SUBSET Stored /\ now \in 0..MaxTime
      /\ order \in Seq(Keys) /\ Distinct(order) /\ Elements(order) = Stored
  BY DEF Expired, Books
<1>3. order' \in Seq(Keys) /\ Distinct(order') /\ Elements(order') = Stored \ Expired
  <2>1. CASE Hit(c, k)
    <3> DEFINE q == Without(Expired \cup {k})
    <3>1. q \in Seq(Keys) /\ Distinct(q) /\ Elements(q) = Stored \ (Expired \cup {k})
      BY <1>2, WithoutKeeps
    <3>2. k \in Stored \ Expired /\ order' = Append(q, k)
      BY <2>1 DEF Hit
    <3> HIDE DEF q
    <3>3. order' \in Seq(Keys) /\ Distinct(order') /\ Elements(order') = Elements(q) \cup {k}
      BY <3>1, <3>2, ElementsOfAppend
    <3> QED BY <3>1, <3>2, <3>3
  <2>2. CASE Join(c, k) \/ Own(c, k)
    BY <2>2, <1>2, WithoutKeeps DEF Join, Own
  <2> QED BY <2>1, <2>2
<1> QED BY <1>1, <1>2, <1>3, DropKeepsBooks

\* Of the eviction of the n least recently used keys of q.
LEMMA WhatIsEvicted ==
    ASSUME NEW q \in Seq(Keys), Distinct(q), NEW n \in 0..Len(q)
    PROVE  LET rest == SubSeq(q, n + 1, Len(q))
           IN  /\ Oldest(q, n) \subseteq Elements(q)
               /\ n = Len(q) => Oldest(q, n) = Elements(q)
               /\ rest \in Seq(Keys) /\ Distinct(rest) /\ Len(rest) = Len(q) - n
               /\ Elements(rest) = Elements(q) \ Oldest(q, n)
<1> DEFINE rest == SubSeq(q, n + 1, Len(q))
<1>1. Len(q) \in Nat /\ \A i \in 1..Len(q) : q[i] \in Keys
  BY LenProperties, ElementOfSeq
<1>2. /\ rest \in Seq(Keys) /\ Len(rest) = Len(q) - n
      /\ \A i \in 1..(Len(q) - n) : rest[i] = q[n + i]
  <2>1. \A i \in (n + 1)..Len(q) : q[i] \in Keys
    BY <1>1
  <2>2. /\ rest \in Seq(Keys)
        /\ Len(rest) = IF n + 1 <= Len(q) THEN Len(q) - (n + 1) + 1 ELSE 0
        /\ \A i \in 1..(Len(q) - (n + 1) + 1) : rest[i] = q[(n + 1) + i - 1]
    <3>1. n + 1 \in Int /\ Len(q) \in Int
      BY <1>1
    <3> QED BY <2>1, <3>1, SubSeqProperties
  <2>3. Len(q) - (n + 1) + 1 = Len(q) - n /\ \A i \in Nat : (n + 1) + i - 1 = n + i
    BY <1>1
  <2>4. Len(rest) = Len(q) - n
    BY <2>2, <1>1
  <2> HIDE DEF rest
  <2>5. ASSUME NEW i \in 1..(Len(q) - n) PROVE rest[i] = q[n + i]
    <3>1. i \in 1..(Len(q) - (n + 1) + 1) /\ i \in Nat /\ n \in Nat
      BY <1>1
    <3>2. rest[i] = q[(n + 1) + i - 1]
      BY <3>1, <2>2
    <3>3. (n + 1) + i - 1 = n + i
      BY <3>1
    <3> QED BY <3>2, <3>3
  <2> QED BY <2>2, <2>4, <2>5
<1> HIDE DEF rest
<1>3. Oldest(q, n) \subseteq Elements(q) /\ (n = Len(q) => Oldest(q, n) = Elements(q))
  BY <1>1 DEF Oldest, Elements
<1>4. Distinct(rest)
  <2> SUFFICES ASSUME NEW i \in 1..Len(rest), NEW j \in 1..Len(rest), rest[i] = rest[j]
               PROVE  i = j
    BY DEF Distinct
  <2>1. q[n + i] = q[n + j] /\ n + i \in 1..Len(q) /\ n + j \in 1..Len(q)
    BY <1>1, <1>2
  <2>2. n + i = n + j
    BY <2>1 DEF Distinct
  <2> QED BY <2>2, <1>1, <1>2
<1>5. Elements(rest) = Elements(q) \ Oldest(q, n)
  <2>1. ASSUME NEW k \in Elements(rest) PROVE k \in Elements(q) \ Oldest(q, n)
    <3>1. PICK i \in 1..Len(rest) : k = rest[i]
      BY <2>1 DEF Elements
    <3>2. k = q[n + i] /\ n + i \in 1..Len(q) /\ n + i \notin 1..n
      BY <3>1, <1>1, <1>2
    <3>3. \A j \in 1..n : q[j] # k
      <4>1. \A j \in 1..n : j \in 1..Len(q)
        BY <1>1
      <4> QED BY <4>1, <3>2 DEF Distinct
    <3> QED BY <3>2, <3>3 DEF Elements, Oldest
  <2>2. ASSUME NEW k \in Elements(q) \ Oldest(q, n) PROVE k \in Elements(rest)
    <3>1. PICK i \in 1..Len(q) : k = q[i]
      BY <2>2 DEF Elements
    <3>2. i \notin 1..n
      BY <2>2, <3>1 DEF Oldest
    <3>3. i - n \in 1..Len(rest) /\ rest[i - n] = q[n + (i - n)] /\ n + (i - n) = i
      BY <3>1, <3>2, <1>1, <1>2
    <3> QED BY <3>1, <3>3 DEF Elements
  <2> QED BY <2>1, <2>2
<1> QED BY <1>2, <1>3, <1>4, <1>5 DEF rest

\* A result that is stored replaces its predecessor, and as many of the oldest
\* go as the bounds ask for.
LEMMA PutKeepsBooks ==
    ASSUME Books, NEW k \in Keys, NEW e \in EntryRecords, Put(k, e), now' = now
    PROVE  Books'
<1> DEFINE D     == Stored \cup {k}
           q     == Append(Without({k}), k)
           size  == [j \in D |-> IF j = k THEN e.size ELSE Sizes[j]]
           total == BytesWithout(k) + e.size
           M     == {n \in 0..Len(q) :
                       \/ n = Len(q)
                       \/ /\ Len(q) - n <= MaxEntries
                          /\ total - SumFunctionOnSet(size, Oldest(q, n)) <= MaxBytes}
           n     == Evictions(q, size, total)
           gone  == Oldest(q, n)
<1>1. /\ cached' = [j \in Keys |-> IF j \in gone THEN NoEntry
                                   ELSE IF j = k THEN e ELSE cached[j]]
      /\ order' = SubSeq(q, n + 1, Len(q))
      /\ bytes' = total - SumFunctionOnSet(size, gone)
  BY DEF Put
<1>2. q \in Seq(Keys) /\ Distinct(q) /\ Elements(q) = D /\ Len(q) \in Nat
  <2>1. /\ Without({k}) \in Seq(Keys) /\ Distinct(Without({k}))
        /\ Elements(Without({k})) = Stored \ {k}
    BY WithoutKeeps DEF Books
  <2>2. q \in Seq(Keys) /\ Distinct(q) /\ Elements(q) = (Stored \ {k}) \cup {k}
    <3> DEFINE w == Without({k})
    <3>1. w \in Seq(Keys) /\ Distinct(w) /\ Elements(w) = Stored \ {k} /\ k \notin Elements(w)
      BY <2>1
    <3>2. q = Append(w, k)
      OBVIOUS
    <3> HIDE DEF w, q
    <3> QED BY <3>1, <3>2, ElementsOfAppend
  <2>3. (Stored \ {k}) \cup {k} = D
    OBVIOUS
  <2> HIDE DEF q, D
  <2> QED BY <2>2, <2>3, LenProperties
<1>3. n \in M
  <2>1. M \subseteq Nat /\ Len(q) \in M
    BY <1>2
  <2>2. n = Min(M)
    BY DEF Evictions
  <2> HIDE DEF M, n
  <2>3. \E x \in M : \A y \in M : x <= y
    BY <2>1, SmallestNumber
  <2> QED BY <2>2, <2>3 DEF Min
<1>4. IsFiniteSet(Stored) /\ IsFiniteSet(D) /\ IsFiniteSet({k} \cap Stored)
  BY StoredIsFinite, FS_AddElement, FS_Subset
<1>5. e.size \in Nat /\ e # NoEntry
  BY CacheAssumption DEF EntryRecords, NoEntry
<1>6. \A j \in D : size[j] \in Nat
  BY <1>5, SizesAreNumbers
<1>7. total = SumFunctionOnSet(size, D)
  <2>1. SizeOf(Stored) = SizeOf(Stored \ {k}) + SizeOf({k} \cap Stored)
    <3>1. Stored = (Stored \ {k}) \cup ({k} \cap Stored)
          /\ (Stored \ {k}) \cap ({k} \cap Stored) = {}
      OBVIOUS
    <3>2. \A j \in Stored : Sizes[j] \in Nat
      BY SizesAreNumbers
    <3>3. SumFunctionOnSet(Sizes, (Stored \ {k}) \cup ({k} \cap Stored))
            = SumFunctionOnSet(Sizes, Stored \ {k}) + SumFunctionOnSet(Sizes, {k} \cap Stored)
      BY <3>1, <3>2, <1>4, SumOfUnion
    <3> QED BY <3>1, <3>3 DEF SizeOf
  <2>2. SizeOf(Stored \ {k}) \in Nat /\ SizeOf({k} \cap Stored) \in Nat
    <3>1. IsFiniteSet(Stored \ {k}) /\ \A j \in Stored : Sizes[j] \in Nat
      BY <1>4, FS_Subset, SizesAreNumbers
    <3> QED BY <3>1, <1>4, SumIsNat DEF SizeOf
  <2>3. BytesWithout(k) = SizeOf(Stored \ {k})
    BY <2>1, <2>2 DEF BytesWithout, Books
  <2>4. SumFunctionOnSet(size, D) = size[k] + SumFunctionOnSet(size, D \ {k})
    BY <1>4, <1>6, SumWith
  <2>5. D \ {k} = Stored \ {k} /\ size[k] = e.size
    OBVIOUS
  <2>6. SumFunctionOnSet(size, Stored \ {k}) = SizeOf(Stored \ {k})
    <3>1. IsFiniteSet(Stored \ {k}) /\ \A j \in Stored \ {k} : size[j] = Sizes[j]
      BY <1>4, FS_Subset
    <3> HIDE DEF size
    <3> QED BY <3>1, SumOfEqual DEF SizeOf
  <2> DEFINE others == SizeOf(Stored \ {k})
  <2>7. total = others + e.size /\ others \in Nat
    BY <2>2, <2>3
  <2> HIDE DEF size, D, total, others
  <2>8. SumFunctionOnSet(size, D) = e.size + others
    BY <2>4, <2>5, <2>6 DEF others
  <2> QED BY <2>7, <2>8, <1>5
<1>8. n \in 0..Len(q) /\ (n = Len(q) \/ (/\ Len(q) - n <= MaxEntries
                                          /\ total - SumFunctionOnSet(size, gone) <= MaxBytes))
  BY <1>3
<1> HIDE DEF n, M, total, q, size
<1>9. /\ gone \subseteq D /\ (n = Len(q) => gone = D)
      /\ order' \in Seq(Keys) /\ Distinct(order') /\ Len(order') = Len(q) - n
      /\ Elements(order') = D \ gone
  BY <1>1, <1>2, <1>8, WhatIsEvicted
<1> HIDE DEF gone, D
<1>10. cached' \in [Keys -> EntryRecords \cup {NoEntry}]
  BY <1>1 DEF Books
<1>11. Stored' = D \ gone
  BY <1>1, <1>5, <1>9 DEF Stored, Books, D
<1>12. \A j \in Stored' : Sizes'[j] = size[j]
  BY <1>1, <1>11 DEF Sizes, size, D, Stored
<1>13. IsFiniteSet(D \ gone) /\ IsFiniteSet(gone)
  BY <1>4, <1>9, FS_Subset
<1>14. SizeOf(Stored)' = SumFunctionOnSet(size, D \ gone)
  <2>1. SumFunctionOnSet(Sizes', Stored') = SumFunctionOnSet(size, Stored')
    BY <1>11, <1>12, <1>13, SumOfEqual
  <2> QED BY <2>1, <1>11 DEF SizeOf
<1>15. SumFunctionOnSet(size, D)
           = SumFunctionOnSet(size, D \ gone) + SumFunctionOnSet(size, gone)
  <2>1. (D \ gone) \cup gone = D /\ (D \ gone) \cap gone = {}
    BY <1>9
  <2>2. SumFunctionOnSet(size, (D \ gone) \cup gone)
            = SumFunctionOnSet(size, D \ gone) + SumFunctionOnSet(size, gone)
    <3>1. IsFiniteSet((D \ gone) \cup gone) /\ \A j \in (D \ gone) \cup gone : size[j] \in Nat
      BY <2>1, <1>4, <1>6
    <3> QED BY <2>1, <3>1, SumOfUnion
  <2> QED BY <2>1, <2>2
<1>16. SumFunctionOnSet(size, D \ gone) \in Nat /\ SumFunctionOnSet(size, gone) \in Nat
  BY <1>6, <1>9, <1>13, SumIsNat
<1>17. bytes' = SizeOf(Stored)'
  BY <1>1, <1>7, <1>14, <1>15, <1>16
<1>18. bytes' <= MaxBytes /\ Len(order') <= MaxEntries
  <2>1. CASE n = Len(q)
    <3>1. D \ gone = {}
      BY <2>1, <1>9
    <3>2. SumFunctionOnSet(size, {}) = 0
      BY FS_EmptySet, SumStep
    <3>3. bytes' = 0
      BY <3>1, <3>2, <1>14, <1>17
    <3>4. Len(order') = 0
      BY <2>1, <1>2, <1>9
    <3> QED BY <3>3, <3>4, CacheAssumption
  <2>2. CASE n # Len(q)
    BY <2>2, <1>1, <1>8, <1>9
  <2> QED BY <2>1, <2>2
<1>19. now' \in 0..MaxTime
  BY DEF Books
<1> QED BY <1>9, <1>10, <1>11, <1>17, <1>18, <1>19 DEF Books, Distinct, Elements

LEMMA ClearKeepsBooks == ASSUME Books, Clear PROVE Books'
<1>1. /\ cached' = [k \in Keys |-> NoEntry] /\ order' = <<>> /\ bytes' = 0 /\ now' = now
  BY DEF Clear, NoEntries
<1>2. Stored' = {}
  BY <1>1 DEF Stored
<1>3. SizeOf(Stored)' = 0
  <2>1. SumFunctionOnSet(Sizes', {}) = 0
    BY FS_EmptySet, SumStep
  <2> QED BY <2>1, <1>2 DEF SizeOf
<1>4. order' \in Seq(Keys) /\ Len(order') = 0 /\ 1..0 = {}
  BY <1>1, EmptySeq
<1>5. Elements(order)' = {} /\ Distinct(order)'
  BY <1>4 DEF Elements, Distinct
<1>6. cached' \in [Keys -> EntryRecords \cup {NoEntry}] /\ now' \in 0..MaxTime
  BY <1>1 DEF Books
<1> QED BY <1>1, <1>2, <1>3, <1>4, <1>5, <1>6, CacheAssumption DEF Books

LEMMA OthersKeepBooks ==
    ASSUME Books, UNCHANGED store, now' \in 0..MaxTime PROVE Books'
BY DEF Books, store, Stored, SizeOf, Sizes, Distinct, Elements

LEMMA NextKeepsBooks == Inv /\ Books /\ [Next]_vars => Books'
<1> SUFFICES ASSUME Inv, Books, [Next]_vars PROVE Books'
  OBVIOUS
<1>0. now \in 0..MaxTime
  BY DEF Books
<1>1. ASSUME NEW c \in Calls, NEW k \in Keys, Hit(c, k) \/ Join(c, k) \/ Own(c, k)
      PROVE  Books'
  BY <1>1, LookupKeepsBooks
<1>2. ASSUME NEW c \in Calls, Answer(c) \/ Cancel(c) PROVE Books'
  BY <1>2, <1>0, OthersKeepBooks DEF Answer, Cancel
<1>3. ASSUME NEW f \in Calls, Retain(f) PROVE Books'
  <2>1. CASE UNCHANGED store
    BY <2>1, <1>0, <1>3, OthersKeepBooks DEF Retain
  <2>2. ASSUME NEW size \in 0..MaxBytes,
               Put(flight[f].key, [by |-> f, size |-> size, expires |-> now + TTL])
        PROVE  Books'
    <3>1. flight[f].key \in Keys
      BY <1>3 DEF Retain, Inv, ShapeOK, FlightRecords, Grounded
    <3>2. [by |-> f, size |-> size, expires |-> now + TTL] \in EntryRecords
      BY <1>0, CacheAssumption DEF EntryRecords
    <3>3. now' = now
      BY <1>3 DEF Retain
    <3> QED BY <2>2, <3>1, <3>2, <3>3, PutKeepsBooks
  <2> QED BY <1>3, <2>1, <2>2 DEF Retain
<1>4. ASSUME NEW f \in Calls, Settle(f) \/ Fail(f) \/ Release(f) PROVE Books'
  BY <1>4, <1>0, OthersKeepBooks DEF Settle, Fail, Release
<1>5. CASE Clear
  BY <1>5, ClearKeepsBooks
<1>6. CASE Tick
  <2>1. now' \in 0..MaxTime /\ UNCHANGED store
    BY <1>0, <1>6, CacheAssumption DEF Tick
  <2> QED BY <2>1, OthersKeepBooks
<1>7. CASE UNCHANGED vars
  BY <1>7, <1>0, OthersKeepBooks DEF vars
<1> QED BY <1>1, <1>2, <1>3, <1>4, <1>5, <1>6, <1>7 DEF Next, Fly

\* The byte count is the sum of the sizes kept, each key has one place in the
\* order, and both bounds hold, whatever is replaced, evicted, expired or
\* cleared; and every variable keeps its type.
THEOREM BooksAreExact == Spec => [](BytesAreExact /\ TypeOK)
<1>1. Books => BytesAreExact
  <2> SUFFICES ASSUME Books PROVE BytesAreExact
    OBVIOUS
  <2>1. DOMAIN order = 1..Len(order)
    BY LenProperties DEF Books
  <2> QED BY <2>1, StoredIsFinite DEF Books, BytesAreExact, Elements
<1>2. Inv /\ Books => TypeOK
  <2> SUFFICES ASSUME Inv, Books PROVE TypeOK
    OBVIOUS
  <2>1. SizeOf(Stored) \in Nat
    BY StoredIsFinite, SizesAreNumbers, SumIsNat DEF SizeOf
  <2> QED BY <2>1, CacheAssumption DEF Inv, Books, TypeOK
<1>3. Inv /\ Books => BytesAreExact /\ TypeOK
  BY <1>1, <1>2
<1> QED BY <1>3, InitBooks, NextKeepsBooks, AlwaysInv, PTL DEF Spec
=============================================================================
