--------------------------- MODULE MCAuthSession ---------------------------
(* AuthSession with a few logins and a short chain of steps. *)
EXTENDS AuthSession
=============================================================================
