-------------------------------- MODULE MCPages --------------------------------
(* Small instances of Pages for TLC. *)
EXTENDS Pages, TLC

CONSTANTS n1, i1

Switches(o, u, m) ==
  [about |-> "preferences",
   fields |-> [c \in Preferences |-> CASE c = "comm_opt_in" -> o
                                       [] c = "comm_updates" -> u
                                       [] c = "comm_marketing" -> m]]
Card(name, image) ==
  [about |-> "profile",
   fields |-> [c \in Profile |-> IF c = "name" THEN name ELSE image]]
Others == {[about |-> "other", fields |-> <<>>]}
OfUser == {Switches(FALSE, FALSE, TRUE), Switches(TRUE, FALSE, TRUE),
           Card(n1, i1), Card(None, None)}
Forms == Others \cup OfUser
Values == BOOLEAN \cup {None, n1, i1}

\* A new browser that opens, follows links and submits forms that end in a
\* message; a browser with its cookie whose tabs save forms about the user.
Browsing == {[kinds |-> Kind, forms |-> Others, visited |-> FALSE],
             [kinds |-> {"hxform"}, forms |-> OfUser, visited |-> TRUE]}

Symmetry == Permutations(Tab) \cup Permutations(Message) \cup Permutations(Token)
=============================================================================
