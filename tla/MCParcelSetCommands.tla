------------------------ MODULE MCParcelSetCommands ------------------------
(* ParcelSetCommands with two requests in flight over three keys: commands  *)
(* that race from the same version, retries, orphaned transactions.         *)
EXTENDS ParcelSetCommands

CONSTANTS p1, p2, k1, k2, k3

MCRefs == {p1, p2}

Command(op, ref, to, order, expected) ==
    [op |-> op, ref |-> ref, to |-> to, order |-> order, expected |-> expected]

Initialize == Command("initialize", NoRef, "candidate", <<>>, 0)
Add(x, v)  == Command("add_member", x, "candidate", <<>>, v)

MCCommands == {Initialize, Add(p1, 1), Add(p2, 1)}

\* two additions race from version 1, two keys race to initialize, and
\* one key is sent with two different commands
MCSubmissions ==
    { [key |-> k1, cmd |-> Initialize],
      [key |-> k2, cmd |-> Initialize],
      [key |-> k2, cmd |-> Add(p1, 1)],
      [key |-> k3, cmd |-> Add(p2, 1)] }

\* one retried command behind an initialization
MCFewSubmissions ==
    { [key |-> k1, cmd |-> Initialize],
      [key |-> k2, cmd |-> Add(p1, 1)] }
=============================================================================
