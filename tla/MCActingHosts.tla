--------------------------- MODULE MCActingHosts ---------------------------
(***************************************************************************)
(* ActingHosts for a handful of clients, which are interchangeable: no     *)
(* definition tells one from another.                                      *)
(***************************************************************************)
EXTENDS ActingHosts

Clients == Permutations(Client)
=============================================================================
