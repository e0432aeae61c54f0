------------------------------- MODULE MCMove -------------------------------
(* Values for the model checking of MoveFallback. *)
EXTENDS MoveFallback

\* Two messages, and room for one more.  (UIDs and numbers differ once one is gone.)
TwoMessages == {1, 2}
BothVariants == {TRUE, FALSE}
=============================================================================
