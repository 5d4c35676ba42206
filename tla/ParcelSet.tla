----------------------------- MODULE ParcelSet ------------------------------
(***************************************************************************)
(* What one case's parcel-review set promises its callers.                 *)
(*                                                                         *)
(* A client sends a command under an idempotency key; the key's fate is    *)
(* open until the command is applied once, or refused once, and never      *)
(* both.  This is the abstract specification: ParcelSetCommands says how   *)
(* the service, the repository and the database keep the promise.          *)
(***************************************************************************)
EXTENDS ParcelSetData

CONSTANT Keys  \* idempotency keys, each with its actor

VARIABLE fate  \* of each key
vars == <<pset, fate>>

Fates == {"open", "applied", "refused"}

Init ==
    /\ pset = NoSet
    /\ fate = [k \in Keys |-> "open"]

Apply(k) ==
    /\ fate[k] = "open"
    /\ \E c \in Commands :
          /\ Refusal(c, pset) = "none"
          /\ pset' = Applied(c, pset)
    /\ fate' = [fate EXCEPT ![k] = "applied"]

Refuse(k) ==
    /\ fate[k] = "open"
    /\ fate' = [fate EXCEPT ![k] = "refused"]
    /\ UNCHANGED pset

Next == \E k \in Keys : Apply(k) \/ Refuse(k)

Spec == Init /\ [][Next]_vars

-----------------------------------------------------------------------------
(* Types; what makes the set correct is said beside its data.              *)

TypeOK ==
    /\ SetTypeOK
    /\ fate \in [Keys -> Fates]
=============================================================================
