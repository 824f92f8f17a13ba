------------------------------ MODULE MCAuthTokens ------------------------------
(* Two requests at a time.                                                        *)
EXTENDS AuthTokens, TLC
=================================================================================
