----------------------------- MODULE MCSessions -----------------------------
(* Small instances of Sessions for TLC. *)
EXTENDS Sessions, TLC

\* Signing in and out, exchanging cookies, resetting the password, opening and
\* closing the account.
PasswordOps == {"page", "error", "refresh", "login", "logout", "forgot", "reset",
                "register", "delete"}

\* Moving addresses between accounts while sessions live.
AddressOps == {"page", "login", "promote", "recover", "claim", "release", "register",
               "delete"}

\* The operations a single browser needs to keep a session.
BrowsingOps == {"page", "error", "refresh", "login", "logout"}

Symmetry == UNION {Permutations(Account), Permutations(Email),
                   Permutations(Client), Permutations(Request)}
=============================================================================
