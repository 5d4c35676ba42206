--------------------------- MODULE ParcelSetData ----------------------------
(***************************************************************************)
(* The data of one case's parcel-review set and the commands on it.        *)
(*                                                                         *)
(* The set (migration 018, CaseParcelSetRecord) has a version, a review    *)
(* status, an active member and members, each with a position and a review *)
(* status.  A member is never deleted and a reference is a member at most  *)
(* once, so a member is named by its reference, and position 0 stands for  *)
(* "not a member".  A command names the version it was computed from.      *)
(*                                                                         *)
(* Operators marked (slip) are wrong variants of the one that follows: put *)
(* in its place, they must break the property PROJECT.json names.          *)
(***************************************************************************)
EXTENDS Integers, FiniteSets, FiniteSetsExt, Sequences

CONSTANTS Refs,        \* identity references the workspace holds
          ParcelRefs,  \* those whose reference_type is 'parcel'
          NoRef,       \* a null active_member_id
          MaxMembers,  \* the cap on members (100 in the code)
          Commands     \* the commands clients may send

VARIABLE pset  \* the case's set, as committed, with its members

Reviews == {"candidate", "case_selected", "case_rejected"}
Ops == {"initialize", "add_member", "review_member", "set_active_member",
        "reorder", "mark_case_reviewed"}

ASSUME RefsAssumption ==
    /\ ParcelRefs \subseteq Refs
    /\ NoRef \notin Refs
    /\ MaxMembers \in Nat

\* What the service lets through to the repository: an order names 1..cap
\* distinct members, only initialize expects version 0.
ASSUME CommandsAssumption ==
    \A c \in Commands :
        /\ c.op \in Ops
        /\ c.expected \in Nat
        /\ c.ref \in Refs \cup {NoRef}
        /\ c.op \in {"add_member", "review_member"} => c.ref \in Refs
        /\ c.to \in Reviews
        /\ c.order \in Seq(Refs)
        /\ c.op = "reorder" =>
              IsInjective(c.order) /\ Len(c.order) \in 1..MaxMembers

NoSet == [version  |-> 0,
          status   |-> "draft",
          active   |-> NoRef,
          position |-> [x \in Refs |-> 0],
          review   |-> [x \in Refs |-> "candidate"]]

PSets == [version  : Nat,
          status   : {"draft", "case_reviewed"},
          active   : Refs \cup {NoRef},
          position : [Refs -> 0..MaxMembers],
          review   : [Refs -> Reviews]]

Members(s) == {x \in Refs : s.position[x] > 0}

\* (slip) coalesce(max(position), 1)
LastPositionFromOne(s) == Max({1} \cup {s.position[x] : x \in Refs})

\* coalesce(max(position), 0)
LastPosition(s) == Max({0} \cup {s.position[x] : x \in Refs})

PlaceOf(order, x) == CHOOSE i \in DOMAIN order : order[i] = x

\* (slip) the cap tested with > instead of >=
MayJoinOverCap(x, s) ==
    /\ x \in ParcelRefs \ Members(s)
    /\ Cardinality(Members(s)) <= MaxMembers

MayJoin(x, s) ==
    /\ x \in ParcelRefs \ Members(s)
    /\ Cardinality(Members(s)) < MaxMembers

\* (slip) the focus is not looked up among the members
MayFocusAnywhere(x, s) == x \in Refs \cup {NoRef}

MayFocus(x, s) == x \in Members(s) \cup {NoRef}

\* What each command asks of a set whose version is the expected one.
Admissible(c, s) ==
    CASE c.op = "add_member" -> MayJoin(c.ref, s)
      [] c.op = "review_member" -> c.ref \in Members(s)
      [] c.op = "set_active_member" -> MayFocus(c.ref, s)
      [] c.op = "reorder" -> Range(c.order) = Members(s)
      [] c.op = "mark_case_reviewed" ->
            /\ Members(s) # {}
            /\ \A x \in Members(s) : s.review[x] # "candidate"

\* Why the repository refuses command c on the set s it has locked; "none" if
\* it does not.  A violated unique or check constraint of migration 018 comes
\* back as validation_failed, an unknown member as not_found.
Refusal(c, s) ==
    IF c.op = "initialize"
    THEN IF s.version = 0 THEN "none" ELSE "validation_failed"
    ELSE IF s.version = 0 THEN "not_found"
    ELSE IF s.version # c.expected THEN "version_conflict"
    ELSE IF Admissible(c, s) THEN "none"
    ELSE IF c.op \in {"review_member", "set_active_member"} THEN "not_found"
    ELSE "validation_failed"

\* (slip) a reviewed set is not reopened
ChangedNotReopened(s, status, active, position, review) ==
    [version  |-> s.version + 1,
     status   |-> IF s.status = "case_reviewed" THEN s.status ELSE status,
     active   |-> active,
     position |-> position,
     review   |-> review]

\* Every change moves the set to the next version.
Changed(s, status, active, position, review) ==
    [version  |-> s.version + 1,
     status   |-> status,
     active   |-> active,
     position |-> position,
     review   |-> review]

\* Positions as the order gives them.
Reordered(s, order) ==
    [x \in Refs |-> IF x \in Members(s) THEN PlaceOf(order, x) ELSE 0]

Initialized(s) == Changed(s, s.status, s.active, s.position, s.review)

\* Membership, disposition and order reopen the review ...
Added(x, s) ==
    Changed(s, "draft", s.active,
            [s.position EXCEPT ![x] = LastPosition(s) + 1], s.review)

Reviewed(x, to, s) ==
    Changed(s, "draft", s.active, s.position, [s.review EXCEPT ![x] = to])

Rearranged(order, s) ==
    Changed(s, "draft", s.active, Reordered(s, order), s.review)

\* ... and the active member, only a focus, leaves the status alone.
Focused(x, s) == Changed(s, s.status, x, s.position, s.review)

MarkedReviewed(s) == Changed(s, "case_reviewed", s.active, s.position, s.review)

\* The set after command c.
Applied(c, s) ==
    CASE c.op = "initialize"         -> Initialized(s)
      [] c.op = "add_member"         -> Added(c.ref, s)
      [] c.op = "review_member"      -> Reviewed(c.ref, c.to, s)
      [] c.op = "set_active_member"  -> Focused(c.ref, s)
      [] c.op = "reorder"            -> Rearranged(c.order, s)
      [] c.op = "mark_case_reviewed" -> MarkedReviewed(s)

-----------------------------------------------------------------------------
(* What makes a set correct.                                               *)

ReviewComplete(s) ==
    s.status = "case_reviewed" =>
        /\ Members(s) # {}
        /\ \A x \in Members(s) : s.review[x] # "candidate"

Dense(s) ==
    \E n \in 0..MaxMembers :
        /\ {s.position[x] : x \in Members(s)} = 1..n
        /\ \A x, y \in Members(s) : s.position[x] = s.position[y] => x = y

ActiveMember(s) ==
    /\ s.active \in Members(s) \cup {NoRef}
    /\ Members(s) \subseteq ParcelRefs

\* The columns keep to the checks of migration 018: no position over the cap.
SetTypeOK == pset \in PSets

\* A reviewed set has members and every one of them has been disposed of: no
\* sequence of commands leaves 'case_reviewed' standing over a candidate.
ReviewedIsComplete == ReviewComplete(pset)

\* Positions are 1..n with no gap and no two members share one, whatever the
\* additions and reorderings: the next addition at max + 1 stays under the cap.
PositionsAreDense == Dense(pset)

\* The active member is null or a member, and every member is a parcel.
ActiveIsMember == ActiveMember(pset)
=============================================================================
