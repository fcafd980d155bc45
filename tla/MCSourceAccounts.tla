-------------------------- MODULE MCSourceAccounts --------------------------
(* Instances of SourceAccounts for TLC. *)
EXTENDS SourceAccounts

CONSTANTS e1, e2, s1, s2
=============================================================================
