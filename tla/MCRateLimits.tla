----------------------------- MODULE MCRateLimits -----------------------------
(* A small instance of RateLimits for TLC: logins for two e-mails from one    *)
(* address, so that a limiter has a key that others do not touch.            *)
EXTENDS RateLimits, TLC

CONSTANTS login_ip, login_email, ip, x, y

Scopes == ip :> login_ip @@ x :> login_email @@ y :> login_email
Limits == login_ip :> 1 @@ login_email :> 2
Login(email) == [gates |-> <<ip, email>>, resets |-> {email}]
Logins == {Login(x), Login(y)}
=============================================================================
