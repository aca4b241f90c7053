---------------------------- MODULE MCSecureMesh ----------------------------
(***************************************************************************)
(* Two nodes, and one DM from a to b.                                      *)
(***************************************************************************)
EXTENDS SecureMesh

CONSTANTS a, b, d

MCFrom == [p \in Dm |-> a]
MCTo == [p \in Dm |-> b]
=============================================================================
