------------------------------ MODULE MCAppend ------------------------------
(* Values for the model checking of AppendFallback. *)
EXTENDS AppendFallback

\* Sequence numbers and UIDs differ: UID 1 and 3 are gone.
TwoMessages == {2, 4}
=============================================================================
