------------------------------ MODULE MCAuthCodes ------------------------------
(* Two rows that may come to share a login.                                      *)
EXTENDS AuthCodes, TLC
================================================================================
