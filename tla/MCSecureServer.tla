--------------------------- MODULE MCSecureServer ---------------------------
(* Model values for two connections of the supervisor.                     *)
EXTENDS SecureServer

CONSTANTS a, b
=============================================================================
