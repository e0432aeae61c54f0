----------------------------- MODULE MCSession -----------------------------
(* Values for the model checking of Session. *)
EXTENDS Session

DropKinds == {"search", "append"}
MixedKinds == {"append", "authenticate", "search"}
OneKind == {"noop"}

Close == {<<"close", "-", "-">>}
DropVolunteers == {<<"data", "-", "SEARCH">>, <<"malformed", "-", "-">>}
MixedVolunteers ==
    {<<"data", "-", "EXISTS">>, <<"continuation", "-", "-">>, <<"malformed", "-", "-">>,
     <<"bye", "-", "-">>, <<"close", "-", "-">>}
=============================================================================
