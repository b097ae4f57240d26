---------------------------- MODULE SessionLedger ----------------------------
(***************************************************************************)
(* What the application promises about its refresh tokens, without cookies, *)
(* requests or transactions: a numbered token is issued once, to one        *)
(* account; it may be exchanged for a fresh token of the same account,      *)
(* which spends it; it may be revoked; and nothing brings it back.  When an *)
(* account is closed its tokens go, and it gets no others.                  *)
(***************************************************************************)
EXTENDS Naturals

CONSTANTS Account,   \* rows of the account table
          MaxJti     \* how many refresh tokens are ever issued

Jti == 1..MaxJti

Unissued == [status |-> "unissued"]
Gone == [status |-> "gone"]
Entry == [status : {"live", "spent"}, account : Account]

VARIABLES ledger,   \* jti -> what the server remembers about it
          closed    \* accounts that were deleted

LedgerTypeOK == ledger \in [Jti -> Entry \cup {Unissued, Gone}] /\ closed \subseteq Account

LedgerInit == ledger = [j \in Jti |-> Unissued] /\ closed = {}

Live(a) == [status |-> "live", account |-> a]
Spent(a) == [status |-> "spent", account |-> a]

\* Tokens S, all issued to account a, are revoked, and possibly one fresh
\* token is issued to a: a login issues, a logout or a sweep revokes, and a
\* rotation or a password reset does both.
Exchange(a, S, new) ==
  /\ a \notin closed
  /\ \A j \in S : ledger[j] \in {Live(a), Spent(a)}
  /\ \A j \in new : ledger[j] = Unissued
  /\ ledger' = [j \in Jti |-> IF j \in new THEN Live(a)
                              ELSE IF j \in S THEN Spent(a)
                              ELSE ledger[j]]
  /\ UNCHANGED closed

Close(a) ==
  /\ a \notin closed
  /\ closed' = closed \cup {a}
  /\ ledger' = [j \in Jti |-> IF ledger[j] \in {Live(a), Spent(a)} THEN Gone ELSE ledger[j]]

LedgerNext ==
  \E a \in Account :
    \/ \E S \in SUBSET Jti, new \in {{}} \cup {{j} : j \in Jti} : Exchange(a, S, new)
    \/ Close(a)

LedgerSpec == LedgerInit /\ [][LedgerNext]_<<ledger, closed>>
=============================================================================
