------------------------------- MODULE MCStartup -------------------------------
(* Small instances of Startup for TLC. *)
EXTENDS Startup, TLC

CONSTANTS a1, p1

\* What earlier releases may have left: nothing; or a database from before the
\* table of addresses, the preferences, the company of an upload and the newest
\* permission, whose keys do not cascade.
Nothing == [schemas |-> {}, tables |-> {}, columns |-> {}, cascade |-> FALSE,
            perms |-> {}, accounts |-> {}, rows |-> {}]
Before == [schemas |-> {"private"}, tables |-> Table \ {"accountemail"},
           columns |-> {}, cascade |-> FALSE, perms |-> {p1},
           accounts |-> {a1}, rows |-> {}]
Databases == {Nothing, Before}

Settings == {[pool |-> FALSE, given |-> Direct],
             [pool |-> TRUE, given |-> Direct]}

Symmetry == Permutations(Worker) \cup Permutations(Run)
=============================================================================
