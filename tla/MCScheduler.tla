---------------------------- MODULE MCScheduler ----------------------------
(* Values for the model checking of Scheduler. *)
EXTENDS Scheduler

\* Every way a command is put on the wire, by tasks after which a server still
\* owes an answer to the commands that follow (all but LOGOUT); two of them want
\* the same data, others none.
ShapeKinds == {"append", "authenticate", "idle", "login", "noop"}
LiteralKinds == {"append", "appenduid", "noop"}
\* Tasks that are after the same data, and keep of them one, one of each kind or
\* all, need them or take them out of the completion result as well.
RivalKinds == {"append", "login", "logout", "fetch", "fetch_first", "store"}

ShapeVolunteers ==
    {<<"data", "-", "EXISTS">>, <<"untagged", "NO", "CAPABILITY">>,
     <<"malformed", "-", "FETCH">>, <<"malformed", "-", "-">>}
NoVolunteers == {}
\* Data that some of the rivals take for an answer, and a BYE.
RivalVolunteers ==
    {<<"data", "-", "EXISTS">>, <<"data", "-", "FETCH1">>, <<"data", "-", "CAPABILITY">>,
     <<"bye", "-", "-">>}
=============================================================================
