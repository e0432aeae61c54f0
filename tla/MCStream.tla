------------------------------ MODULE MCStream ------------------------------
(* Values for the model checking of Stream. *)
EXTENDS Stream

\* Requests of two, one and three bytes.
ThreeRequests == <<2, 3, 6>>
=============================================================================
