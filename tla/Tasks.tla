------------------------------- MODULE Tasks -------------------------------
(***************************************************************************)
(* The tasks of src/src/tasks/tasks: for each of them the responses it     *)
(* consumes, what it keeps of them and how it turns the command completion *)
(* result into its output.  All of it is pure: the scheduler applies it.   *)
(*                                                                         *)
(* A response is a record                                                  *)
(*   type    greeting, data, untagged, bye, continuation, tagged or        *)
(*           malformed (a line the parser of imap-next gives up on)        *)
(*   status  OK, NO or BAD for tagged and untagged responses               *)
(*   what    the kind of data, or the response code ("-" when there is     *)
(*           none); FETCH1 and FETCH2 are the FETCH responses of two       *)
(*           messages of the mailbox                                       *)
(*   id      the tag of a tagged response; for the others, which carry no  *)
(*           tag, a ghost: the command the server answers, 0 if the server *)
(*           speaks on its own                                             *)
(*   n       a ghost: the how manyeth answer to that command this is       *)
(***************************************************************************)
EXTENDS Naturals, Sequences

DataKinds == {"CAPABILITY", "ENABLED", "EXISTS", "EXPUNGE", "FETCH1", "FETCH2", "FLAGS",
              "ID", "LIST", "RECENT", "SEARCH", "SORT", "THREAD"}
Codes == {"APPENDUID", "CAPABILITY", "HIGHESTMODSEQ", "PERMANENTFLAGS", "UIDNEXT",
          "UIDVALIDITY", "UNSEEN"}
\* "FETCH" is what a malformed line may have been.
What == DataKinds \cup Codes \cup {"-", "FETCH"}

Response(type, status, what, id, n) ==
    [type |-> type, status |-> status, what |-> what, id |-> id, n |-> n]

(***************************************************************************)
(* A task is described by                                                  *)
(*   shape     how its command is put on the wire (plain; literal: the     *)
(*             server must first invite the rest; auth; idle)              *)
(*   data      the data responses process_data consumes                    *)
(*   untagged  the <<status, code>> process_untagged consumes              *)
(*   bye       whether process_bye consumes                                *)
(*   answers   whether process_continuation_request_authenticate answers   *)
(*   keeps     what of the consumed responses is kept: none, the latest of *)
(*             each kind, the one latest of all, or all                    *)
(*   needs     whether OK without anything kept is MissingData             *)
(*   final     the codes process_tagged takes out of the tagged response   *)
(*   prefers   whether such a code replaces what was kept before           *)
(***************************************************************************)

\* What the default methods of the trait amount to: everything is handed back.
Plain == [shape |-> "plain", data |-> {}, untagged |-> {}, bye |-> FALSE,
          answers |-> FALSE, keeps |-> "none", needs |-> FALSE,
          final |-> {}, prefers |-> FALSE]

AppendTask == [Plain EXCEPT !.shape = "literal", !.data = {"EXISTS"}, !.keeps = "one"]
PostAppendNoOpTask == [Plain EXCEPT !.data = {"EXISTS"}, !.keeps = "one"]
PostAppendCheckTask == [Plain EXCEPT !.data = {"EXISTS"}, !.keeps = "one"]
AppendUidTask == [Plain EXCEPT !.shape = "literal", !.final = {"APPENDUID"}]
AuthenticateTask ==
    [Plain EXCEPT !.shape = "auth", !.data = {"CAPABILITY"}, !.answers = TRUE,
                  !.keeps = "one", !.final = {"CAPABILITY"}, !.prefers = TRUE]
CapabilityTask ==
    [Plain EXCEPT !.data = {"CAPABILITY"},
                  !.untagged = {"OK", "NO", "BAD"} \X {"CAPABILITY"},
                  !.keeps = "one", !.needs = TRUE, !.final = {"CAPABILITY"}]
CheckTask == Plain
CopyTask == Plain
CreateTask == Plain
DeleteTask == Plain
EnableTask == [Plain EXCEPT !.data = {"ENABLED"}, !.keeps = "one"]
ExpungeTask == [Plain EXCEPT !.data = {"EXPUNGE"}, !.keeps = "all"]
FetchTask == [Plain EXCEPT !.data = {"FETCH1", "FETCH2"}, !.keeps = "all"]
FetchFirstTask ==
    [Plain EXCEPT !.data = {"FETCH1", "FETCH2"}, !.keeps = "one", !.needs = TRUE]
IdTask == [Plain EXCEPT !.data = {"ID"}, !.keeps = "one"]
ListTask == [Plain EXCEPT !.data = {"LIST"}, !.keeps = "all"]
LoginTask ==
    [Plain EXCEPT !.data = {"CAPABILITY"}, !.keeps = "one",
                  !.final = {"CAPABILITY"}, !.prefers = TRUE]
LogoutTask == [Plain EXCEPT !.bye = TRUE, !.keeps = "one", !.needs = TRUE]
MoveTask == Plain
NoOpTask == Plain
SearchTask == [Plain EXCEPT !.data = {"SEARCH"}, !.keeps = "one"]
SelectTask ==
    [Plain EXCEPT !.data = {"FLAGS", "EXISTS", "RECENT"},
                  !.untagged = {"OK"} \X {"UNSEEN", "PERMANENTFLAGS", "UIDNEXT",
                                          "UIDVALIDITY", "HIGHESTMODSEQ"},
                  !.keeps = "latest"]
SortTask == [Plain EXCEPT !.data = {"SORT"}, !.keeps = "one", !.needs = TRUE]
StoreTask == [Plain EXCEPT !.data = {"FETCH1", "FETCH2"}, !.keeps = "latest"]
SilentStoreTask == Plain
ThreadTask == [Plain EXCEPT !.data = {"THREAD"}, !.keeps = "one", !.needs = TRUE]

(***************************************************************************)
(* Task is a public trait: a program may enqueue tasks of its own.  Two of *)
(* them stand for those that leave every method at its default and that    *)
(* issue IDLE or AUTHENTICATE: the scheduler has arms for both.            *)
(***************************************************************************)
OwnIdleTask == [Plain EXCEPT !.shape = "idle"]
OwnAuthenticateTask == [Plain EXCEPT !.shape = "auth"]

Task ==
    [append |-> AppendTask, post_append_noop |-> PostAppendNoOpTask,
     post_append_check |-> PostAppendCheckTask, appenduid |-> AppendUidTask,
     authenticate |-> AuthenticateTask, capability |-> CapabilityTask,
     check |-> CheckTask, copy |-> CopyTask, create |-> CreateTask,
     delete |-> DeleteTask, enable |-> EnableTask, expunge |-> ExpungeTask,
     fetch |-> FetchTask, fetch_first |-> FetchFirstTask, id |-> IdTask,
     list |-> ListTask, login |-> LoginTask, logout |-> LogoutTask,
     move |-> MoveTask, noop |-> NoOpTask, search |-> SearchTask,
     select |-> SelectTask, sort |-> SortTask, store |-> StoreTask,
     silent_store |-> SilentStoreTask, thread |-> ThreadTask,
     idle |-> OwnIdleTask, own_auth |-> OwnAuthenticateTask]

TaskKinds == DOMAIN Task

-----------------------------------------------------------------------------

\* process_data, process_untagged, process_bye, process_continuation_request:
\* TRUE when the task consumes the response, FALSE when it hands it back.
Consumes(k, r) ==
    \/ r.type = "data" /\ r.what \in Task[k].data
    \/ r.type = "untagged" /\ <<r.status, r.what>> \in Task[k].untagged
    \/ r.type = "bye" /\ Task[k].bye

\* A slip: what tasks keep the latest of each kind of is kept in one field.
Kept_OneField(k, s) ==
    IF Task[k].keeps = "all" THEN {s[i] : i \in DOMAIN s}
    ELSE IF Task[k].keeps = "none" \/ s = <<>> THEN {} ELSE {s[Len(s)]}

\* What is left of the consumed responses s in the fields of the task.
Kept(k, s) ==
    CASE Task[k].keeps = "none"   -> {}
      [] Task[k].keeps = "one"    -> IF s = <<>> THEN {} ELSE {s[Len(s)]}
      [] Task[k].keeps = "latest" ->
            {s[i] : i \in {j \in DOMAIN s :
                \A l \in DOMAIN s : l > j => s[l].what # s[j].what}}
      [] Task[k].keeps = "all"    -> {s[i] : i \in DOMAIN s}

\* The output on OK: what was kept, or the code of the tagged response r.
OkItems(k, s, r) ==
    IF r.what \in Task[k].final /\ (Task[k].prefers \/ Kept(k, s) = {})
    THEN {r}
    ELSE Kept(k, s)

\* The output of process_tagged: Ok with what was collected, or a TaskError.
process_tagged(k, s, r) ==
    LET failure(e) == [verdict |-> e, items |-> {}]
    IN  CASE r.status = "NO"  -> failure("UnexpectedNoResponse")
          [] r.status = "BAD" -> failure("UnexpectedBadResponse")
          [] r.status = "OK"  ->
                IF Task[k].needs /\ OkItems(k, s, r) = {}
                THEN failure("MissingData")
                ELSE [verdict |-> "Ok", items |-> OkItems(k, s, r)]

NoOutput == [verdict |-> "none", items |-> {}]
Verdicts == {"none", "Ok", "UnexpectedNoResponse", "UnexpectedBadResponse", "MissingData"}
=============================================================================
