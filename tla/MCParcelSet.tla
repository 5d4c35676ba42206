---------------------------- MODULE MCParcelSet ----------------------------
(* ParcelSet over every command on up to three references, one of them not  *)
(* a parcel, with one version more than the longest interesting sequence.   *)
EXTENDS ParcelSet, SequencesExt, TLC

CONSTANTS p1, p2, p3, b1

MCParcels == {p1, p2, p3}
MCRefs == MCParcels \cup {b1}

\* expected versions: one command per key, so Cardinality(Keys) bounds them
MaxVersion == Cardinality(Keys)

Command(op, ref, to, order, expected) ==
    [op |-> op, ref |-> ref, to |-> to, order |-> order, expected |-> expected]

Orders == UNION {SetToAllKPermutations(MCParcels)}

MCCommands ==
    {Command("initialize", NoRef, "candidate", <<>>, 0)}
    \cup {Command("add_member", x, "candidate", <<>>, v) :
            x \in MCRefs, v \in 1..MaxVersion}
    \cup {Command("review_member", x, d, <<>>, v) :
            x \in MCParcels, d \in Reviews, v \in 1..MaxVersion}
    \cup {Command("set_active_member", x, "candidate", <<>>, v) :
            x \in MCParcels \cup {NoRef}, v \in 1..MaxVersion}
    \cup {Command("reorder", NoRef, "candidate", o, v) :
            o \in {q \in Orders : Len(q) \in 1..MaxMembers}, v \in 1..MaxVersion}
    \cup {Command("mark_case_reviewed", NoRef, "candidate", <<>>, v) :
            v \in 1..MaxVersion}

KeySymmetry == Permutations(Keys)
=============================================================================
