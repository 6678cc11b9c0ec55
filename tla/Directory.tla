------------------------------ MODULE Directory ------------------------------
(***************************************************************************)
(* The student directory (StudentDirectoryView.tsx): a searched list of    *)
(* students, and a dialog on one of them from which an administrator       *)
(* changes membership or account status, issues a setup code, or grants    *)
(* scanner access.                                                         *)
(*                                                                         *)
(* A handler that awaits the server is two actions: the one that sends,    *)
(* with what it captured of the screen kept in `calls`, and the one that   *)
(* runs when the answer lands, in any order and on whatever the screen has *)
(* become.  Requests that fail do so at any time.  The reasons typed for   *)
(* an edit and accounts not yet activated are left out, as is every field  *)
(* of a record that no button looks at.                                    *)
(***************************************************************************)
EXTENDS FiniteSets

CONSTANTS
    Student,    \* students on the roll
    Query,      \* contents of the search box
    CallId      \* bound: requests in flight at a time

VARIABLES ui, calls

vars == <<ui, calls>>

\* Membership: the student type and the campus, which are chosen together and
\* saved together, as one value.
Type == {"HOSTELLER", "OUTMESS"}
Status == {"ACTIVE", "SUSPENDED"}

\* A record of the list as the dialog copied it.
Record == [id : Student, type : Type, status : Status]

\* What a button awaits before it can be pressed again; "nothing" is the
\* reset button, which stays enabled, and the typed search.
Button == {"membership", "suspension", "add", "setupCode", "scanner"}

\* A call keeps what its handler closed over.  An edit that succeeded goes on,
\* in the same handler, as a list request.
NoCall == [kind |-> "none"]
Call ==
    [kind : {"list"}, query : Query, awaitedBy : Button \cup {"nothing"}] \cup
    [kind : {"membership"}, of : Record, type : Type, query : Query] \cup
    [kind : {"suspension"}, of : Record, status : Status, query : Query] \cup
    [kind : {"setupCode", "scanner"}] \cup
    [kind : {"reset", "add"}, query : Query]

TypeOK ==
    /\ ui \in [query : Query, typed : BOOLEAN, loading : BOOLEAN, failed : BOOLEAN,
               latest : SUBSET (CallId \X Query), rows : SUBSET Query,
               selected : SUBSET Record, memberType : Type, adding : BOOLEAN]
    /\ calls \in [CallId -> Call \cup {NoCall}]

\* memberBusy, suspendBusy, addLoading, setupBusy, scannerBusy.
Busy(button) ==
    \E i \in CallId :
        \/ calls[i].kind = button
        \/ calls[i].kind = "list" /\ calls[i].awaitedBy = button

\* The screen as it is mounted: the effect of the search box is already
\* waiting for its 250 ms.
Init ==
    /\ \E q \in Query :
         ui = [query |-> q, typed |-> TRUE, loading |-> TRUE, failed |-> FALSE,
               latest |-> {}, rows |-> {}, selected |-> {},
               memberType |-> "HOSTELLER", adding |-> FALSE]
    /\ calls = [i \in CallId |-> NoCall]

(* ---- the list ---- *)

\* `fetchStudents` as a handler with query q enters it: the new request
\* becomes the latest one.
FetchStudents(screen, i, q, button) ==
    /\ ui' = [screen EXCEPT !.loading = TRUE, !.failed = FALSE, !.latest = {<<i, q>>}]
    /\ calls' = [calls EXCEPT ![i] = [kind |-> "list", query |-> q, awaitedBy |-> button]]

\* Typing restarts the 250 ms timer of the effect.
Search(q) ==
    /\ ui.selected = {} /\ ~ui.adding
    /\ q # ui.query
    /\ ui' = [ui EXCEPT !.query = q, !.typed = TRUE]
    /\ UNCHANGED calls

Debounced(i) ==
    /\ ui.typed
    /\ calls[i] = NoCall
    /\ FetchStudents([ui EXCEPT !.typed = FALSE], i, ui.query, "nothing")

\* Slip: the sequence is not compared.
IsLatestAlways(i) == calls[i].kind = "list"

\* `sequence === requestSequence.current`
IsLatest(i) == <<i, calls[i].query>> \in ui.latest

\* Whoever finishes ends the spinner, latest or not; only the latest answer
\* is shown.
ListArrives(i) ==
    /\ calls[i].kind = "list"
    /\ ui' = [ui EXCEPT !.loading = FALSE,
                        !.rows = IF IsLatest(i) THEN {calls[i].query} ELSE @]
    /\ calls' = [calls EXCEPT ![i] = NoCall]

ListFails(i) ==
    /\ calls[i].kind = "list"
    /\ ui' = [ui EXCEPT !.loading = FALSE,
                        !.rows = IF IsLatest(i) THEN {} ELSE @,
                        !.failed = IF IsLatest(i) THEN TRUE ELSE @]
    /\ calls' = [calls EXCEPT ![i] = NoCall]

(* ---- the dialog ---- *)

\* The table is there, rather than a spinner, an error or nobody.
Listed == ui.rows # {} /\ ~ui.loading

\* Opening a row copies it and clears what an earlier student left behind.
OpenStudent(r) ==
    /\ ui.selected = {} /\ ~ui.adding
    /\ Listed
    /\ ui' = [ui EXCEPT !.selected = {r}, !.memberType = r.type]
    /\ UNCHANGED calls

CloseStudent ==
    /\ ui.selected # {}
    /\ ui' = [ui EXCEPT !.selected = {}]
    /\ UNCHANGED calls

PickType(t) ==
    /\ ui.selected # {}
    /\ t # ui.memberType
    /\ ui' = [ui EXCEPT !.memberType = t]
    /\ UNCHANGED calls

\* The save button is only there while the choice differs from the record.
SaveMembership(i) ==
    \E r \in ui.selected :
        /\ r.type # ui.memberType
        /\ ~Busy("membership")
        /\ calls[i] = NoCall
        /\ calls' = [calls EXCEPT ![i] = [kind |-> "membership", of |-> r,
                                          type |-> ui.memberType, query |-> ui.query]]
        /\ UNCHANGED ui

\* The answer puts the captured record back on the screen, whoever is open
\* now, and reloads the list with the captured query.
MembershipSaved(i) ==
    /\ calls[i].kind = "membership"
    /\ FetchStudents([ui EXCEPT !.selected = {[calls[i].of EXCEPT !.type = calls[i].type]}],
                     i, calls[i].query, "membership")

Other(status) == IF status = "ACTIVE" THEN "SUSPENDED" ELSE "ACTIVE"

SetSuspension(i) ==
    \E r \in ui.selected :
        /\ ~Busy("suspension")
        /\ calls[i] = NoCall
        /\ calls' = [calls EXCEPT ![i] = [kind |-> "suspension", of |-> r,
                                          status |-> Other(r.status), query |-> ui.query]]
        /\ UNCHANGED ui

SuspensionSaved(i) ==
    /\ calls[i].kind = "suspension"
    /\ FetchStudents([ui EXCEPT !.selected = {[calls[i].of EXCEPT !.status = calls[i].status]}],
                     i, calls[i].query, "suspension")

IssueSetupCode(i) ==
    /\ ui.selected # {}
    /\ ~Busy("setupCode")
    /\ calls[i] = NoCall
    /\ calls' = [calls EXCEPT ![i] = [kind |-> "setupCode"]]
    /\ UNCHANGED ui

\* Scanner access is granted to active students only, or revoked; either way
\* the grants are read again and nothing else on the screen changes.
ChangeScanner(i) ==
    /\ \E r \in ui.selected : r.status = "ACTIVE"
    /\ ~Busy("scanner")
    /\ calls[i] = NoCall
    /\ calls' = [calls EXCEPT ![i] = [kind |-> "scanner"]]
    /\ UNCHANGED ui

\* A prompt for the reason has blocked the page until here.
ResetAttendance(i) ==
    /\ ui.selected # {}
    /\ calls[i] = NoCall
    /\ calls' = [calls EXCEPT ![i] = [kind |-> "reset", query |-> ui.query]]
    /\ UNCHANGED ui

AttendanceReset(i) ==
    /\ calls[i].kind = "reset"
    /\ FetchStudents([ui EXCEPT !.selected = {}], i, calls[i].query, "nothing")

(* ---- adding a student ---- *)

OpenAdd ==
    /\ ui.selected = {} /\ ~ui.adding
    /\ ui' = [ui EXCEPT !.adding = TRUE]
    /\ UNCHANGED calls

CancelAdd ==
    /\ ui.adding
    /\ ui' = [ui EXCEPT !.adding = FALSE]
    /\ UNCHANGED calls

AddSubmit(i) ==
    /\ ui.adding
    /\ ~Busy("add")
    /\ calls[i] = NoCall
    /\ calls' = [calls EXCEPT ![i] = [kind |-> "add", query |-> ui.query]]
    /\ UNCHANGED ui

StudentAdded(i) ==
    /\ calls[i].kind = "add"
    /\ FetchStudents([ui EXCEPT !.adding = FALSE], i, calls[i].query, "add")

\* A request other than the list that fails only says so beside its button;
\* a change of scanner access ends alike when it succeeds.
EditEnds(i) ==
    /\ calls[i].kind \notin {"none", "list"}
    /\ calls' = [calls EXCEPT ![i] = NoCall]
    /\ UNCHANGED ui

Next ==
    \/ \E q \in Query : Search(q)
    \/ \E r \in Record : OpenStudent(r)
    \/ \E t \in Type : PickType(t)
    \/ CloseStudent \/ OpenAdd \/ CancelAdd
    \/ \E i \in CallId :
         \/ Debounced(i) \/ ListArrives(i) \/ ListFails(i)
         \/ SaveMembership(i) \/ MembershipSaved(i)
         \/ SetSuspension(i) \/ SuspensionSaved(i)
         \/ IssueSetupCode(i) \/ ChangeScanner(i)
         \/ ResetAttendance(i) \/ AttendanceReset(i)
         \/ AddSubmit(i) \/ StudentAdded(i)
         \/ EditEnds(i)

Spec == Init /\ [][Next]_vars

\* Whatever the order in which answers arrive, once the list request sent last
\* is answered the table shows its answer, or an error and no students.  (That
\* request need not be the last search: the reload after an edit asks with the
\* query it closed over, also when a newer search was sent meanwhile.)
ListIsTheLatest ==
    \A l \in ui.latest :
        \/ calls[l[1]].kind = "list" /\ calls[l[1]].query = l[2]
        \/ ui.rows = {l[2]}
        \/ ui.failed /\ ui.rows = {}

=============================================================================
