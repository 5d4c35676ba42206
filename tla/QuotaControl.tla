---------------------------- MODULE QuotaControl ----------------------------
(***************************************************************************)
(* The Admin control plane and the durable quota of one subject, over one   *)
(* usage database: administrators change the policy while calls are being   *)
(* admitted by it, and the database may be replaced, with all its counters. *)
(***************************************************************************)
EXTENDS AdminPlane

CONSTANTS Markers, Kind, Hour, Day, MarkerTTL, SubjectTTL, MaxMarkers, Batch, MaxTime

Policies == [request : Nat, operation : Nat, daily : Nat]

ASSUME QuotaAssumption ==
    /\ DefaultPolicy \in Policies
    /\ \A c \in Submissions : c.op = "quota" => c.quota \in Policies
    /\ Kind \in [Markers -> {"request", "operation"}]
    /\ Hour \in Nat \ {0} /\ Day \in Nat \ {0} /\ Day % Hour = 0
    /\ MarkerTTL \in Nat /\ SubjectTTL \in Nat /\ Day =< SubjectTTL
    /\ MaxMarkers \in Nat /\ Batch \in Nat /\ MaxTime \in Nat

VARIABLES now, subject, markers, hourly, calls

quota == <<now, subject, markers, hourly, calls>>

Guard == INSTANCE QuotaGuard

ControlInit == Init /\ Guard!Init

\* A new usage database has no subjects; the calls of the old one have failed.
Replace ==
    /\ ReplaceUsage
    /\ subject' = Guard!NoSubject
    /\ markers' = [m \in Markers |-> Guard!NoTime]
    /\ hourly' = Guard!EmptyLedger
    /\ calls' = [m \in Markers |-> IF m \in Guard!InFlight THEN Guard!Unadmitted(m) ELSE calls[m]]
    /\ UNCHANGED now

ControlNext ==
    \/ Step /\ UNCHANGED quota
    \/ Guard!Next /\ UNCHANGED <<accounts, commands, claims, instance, applied, pc, req, owner>>
    \/ Replace

ControlSpec == ControlInit /\ [][ControlNext]_<<vars, quota>>

-----------------------------------------------------------------------------
\* See QuotaGuard: the row that admits calls agrees with the ledger, also while
\* the policy changes and after the usage database has been replaced.
CountersMatchTheLedger == Guard!CountersMatchTheLedger

\* See QuotaGuard: a call is admitted within the policy it read, which an
\* administrator may change while it waits.
AdmittedWithinPolicy == Guard!AdmittedWithinPolicy
=============================================================================
