------------------------ MODULE MCAuthoritySessions -------------------------
(***************************************************************************)
(* Who may act: the sessions of the authority core, and the trust in the   *)
(* identity provider, which share no state.  Which of the two a behaviour  *)
(* belongs to is chosen at the start.                                      *)
(***************************************************************************)
EXTENDS AuthoritySessions, OidcTrust, TLC

CONSTANTS a, b, t1, t2, v1, v2

VARIABLE part

(* In the order of their identifiers; a datagram of any may come any time. *)
Script == <<"rifle", "reload", "rifle", "wood", "steel">>

Prices == [wood |-> 1, steel |-> 2]

Interchangeable == Permutations(Sources)

MCInit ==
  /\ part \in {"sessions", "trust"}
  /\ Init /\ OidcInit
  /\ part # "trust" => service = "serving"

MCNext ==
  \/ part = "sessions" /\ Next /\ UNCHANGED <<part, OidcVars>>
  \/ part = "trust" /\ OidcNext /\ UNCHANGED <<part, vars>>

MCSpec == MCInit /\ [][MCNext]_<<part, vars, OidcVars>>
=============================================================================
