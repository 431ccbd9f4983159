----------------------------- MODULE MCSsoLogin -----------------------------
(* TLC instances of SsoLogin; every constant is given in the .cfg files.    *)
EXTENDS SsoLogin

=============================================================================
