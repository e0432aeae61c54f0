---------------------------- MODULE MCConnection ----------------------------
(* Values for the model checking of Connection. *)
EXTENDS Connection

Extensions == {"ENABLE", "CONDSTORE", "ID", "BINARY", "SASL-IR"}
\* None, some, others: they come and go with TLS and with the login.
SomeOffers == {{}, {"SASL-IR", "ID"}, {"ENABLE", "CONDSTORE", "BINARY"}}
=============================================================================
