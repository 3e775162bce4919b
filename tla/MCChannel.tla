----------------------------- MODULE MCChannel -----------------------------
(* A function and two helpers with two messages each. *)
EXTENDS Channel

CONSTANTS h1, h2
==============================================================================
