-------------------------------- MODULE Ledger --------------------------------
(***************************************************************************)
(* The expense ledger screen (LedgerView.tsx): a month's entries by kind,  *)
(* the form that logs one, and the dialog that voids one for a reason.     *)
(* `run` sends a change and then reloads the month it was called in; what  *)
(* follows it happens when that load is over, on whatever is shown then.   *)
(***************************************************************************)
EXTENDS FiniteSets

CONSTANTS
    Period,    \* months
    Kind,      \* kinds of entry, one tab each
    Row,       \* entries that can be voided
    CallId     \* bound: requests in flight at a time

VARIABLES ui, calls

vars == <<ui, calls>>

\* `then` is what `run` still has to do once its load is over: nothing, close
\* the void dialog, or put back the form as it was sent, here the kind its
\* category was chosen for.
NoCall == [kind |-> "none"]
Call ==
    [kind : {"load"}, period : Period, then : {"nothing", "void"} \cup Kind] \cup
    [kind : {"entry"}, period : Period, of : Kind, category : Kind] \cup
    [kind : {"void"}, period : Period, row : Row, reason : SUBSET Row] \cup
    [kind : {"export"}, period : Period]

\* `summary` and `entries` hold the month that last landed; `reason` the entry
\* in whose dialog a long enough reason was typed; `category` the tab whose
\* list the category of the form comes from.
TypeOK ==
    /\ ui \in [period : Period, tab : Kind, summary : SUBSET Period, entries : SUBSET Period,
               loading : BOOLEAN, voiding : SUBSET Row, reason : SUBSET Row,
               category : Kind, adding : BOOLEAN, filled : BOOLEAN, exporting : BOOLEAN]
    /\ calls \in [CallId -> Call \cup {NoCall}]

Saving ==
    \E i \in CallId :
        \/ calls[i].kind \in {"entry", "void"}
        \/ calls[i].kind = "load" /\ calls[i].then # "nothing"

Init ==
    \E p \in Period, k \in Kind, i \in CallId :
        /\ ui = [period |-> p, tab |-> k, summary |-> {}, entries |-> {}, loading |-> TRUE,
                 voiding |-> {}, reason |-> {}, category |-> k, adding |-> FALSE,
                 filled |-> FALSE, exporting |-> FALSE]
        /\ calls = [c \in CallId |-> IF c = i THEN [kind |-> "load", period |-> p, then |-> "nothing"]
                                     ELSE NoCall]

(* ---- the month ---- *)

Load(i, screen, p, then) ==
    /\ ui' = [screen EXCEPT !.loading = TRUE]
    /\ calls' = [calls EXCEPT ![i] = [kind |-> "load", period |-> p, then |-> then]]

ChooseMonth(i, p) ==
    /\ p # ui.period
    /\ calls[i] = NoCall
    /\ Load(i, [ui EXCEPT !.period = p], p, "nothing")

Refresh(i) == ~ui.loading /\ calls[i] = NoCall /\ Load(i, ui, ui.period, "nothing")

\* Slip: the reason typed for one entry is still there for the next.
DialogKeeping(screen, rows) == [screen EXCEPT !.voiding = rows]

\* `voiding` and `voidReason` are only ever set together: a dialog starts, and
\* is left, with no reason.
Dialog(screen, rows) == [screen EXCEPT !.voiding = rows, !.reason = {}]

\* Totals and entries land together, whichever month is shown by then, or
\* both are dropped; then the handler that asked goes on.
LoadEnds(i, ok) ==
    /\ calls[i].kind = "load"
    /\ LET held == IF ok THEN {calls[i].period} ELSE {}
           loaded == [ui EXCEPT !.loading = FALSE, !.summary = held, !.entries = held] IN
       ui' = CASE calls[i].then = "nothing" -> loaded
               [] calls[i].then = "void" -> Dialog(loaded, {})
               [] OTHER -> [loaded EXCEPT !.category = calls[i].then, !.filled = FALSE]
    /\ calls' = [calls EXCEPT ![i] = NoCall]

RunFails(i) ==
    /\ calls[i].kind \in {"entry", "void"}
    /\ calls' = [calls EXCEPT ![i] = NoCall]
    /\ UNCHANGED ui

(* ---- logging an entry ---- *)

OpenTab(k) ==
    /\ ui.voiding = {} /\ ~ui.exporting
    /\ ui' = [ui EXCEPT !.tab = k, !.adding = FALSE, !.category = k]
    /\ UNCHANGED calls

\* A new category is started, and given up or committed with its name.
AddCategory ==
    /\ ~ui.adding
    /\ ui' = [ui EXCEPT !.adding = TRUE]
    /\ UNCHANGED calls

EndCategory(commit) ==
    /\ ui.adding
    /\ ui' = [ui EXCEPT !.adding = FALSE, !.category = IF commit THEN ui.tab ELSE @]
    /\ UNCHANGED calls

FillForm ==
    /\ ~ui.filled
    /\ ui' = [ui EXCEPT !.filled = TRUE]
    /\ UNCHANGED calls

LogEntry(i) ==
    /\ ui.filled /\ ~Saving
    /\ calls[i] = NoCall
    /\ calls' = [calls EXCEPT ![i] = [kind |-> "entry", period |-> ui.period, of |-> ui.tab,
                                      category |-> ui.category]]
    /\ UNCHANGED ui

EntryLogged(i) ==
    /\ calls[i].kind = "entry"
    /\ Load(i, ui, calls[i].period, calls[i].category)

(* ---- voiding an entry ---- *)

OpenVoid(row) ==
    /\ ui.voiding = {} /\ ~ui.exporting
    /\ ui.entries # {} /\ ~ui.loading
    /\ ui' = Dialog(ui, {row})
    /\ UNCHANGED calls

CancelVoid ==
    /\ ui.voiding # {}
    /\ ui' = Dialog(ui, {})
    /\ UNCHANGED calls

TypeReason ==
    /\ ui.voiding # {}
    /\ ui' = [ui EXCEPT !.reason = ui.voiding]
    /\ UNCHANGED calls

\* Five characters at least; the row is kept, not looked up again.
VoidEntry(i) ==
    /\ ui.reason # {} /\ ~Saving
    /\ calls[i] = NoCall
    /\ \E row \in ui.voiding :
         calls' = [calls EXCEPT ![i] = [kind |-> "void", period |-> ui.period, row |-> row,
                                        reason |-> ui.reason]]
    /\ UNCHANGED ui

EntryVoided(i) ==
    /\ calls[i].kind = "void"
    /\ Load(i, ui, calls[i].period, "void")

(* ---- the month's report ---- *)

OpenExport ==
    /\ ui.voiding = {} /\ ~ui.exporting
    /\ ui' = [ui EXCEPT !.exporting = TRUE]
    /\ UNCHANGED calls

CancelExport ==
    /\ ui.exporting
    /\ ui' = [ui EXCEPT !.exporting = FALSE]
    /\ UNCHANGED calls

Export(i) ==
    /\ ui.exporting
    /\ calls[i] = NoCall
    /\ calls' = [calls EXCEPT ![i] = [kind |-> "export", period |-> ui.period]]
    /\ UNCHANGED ui

\* Downloaded or failed, the dialog closes.
ExportEnds(i) ==
    /\ calls[i].kind = "export"
    /\ ui' = [ui EXCEPT !.exporting = FALSE]
    /\ calls' = [calls EXCEPT ![i] = NoCall]

Next ==
    \/ \E i \in CallId :
         \/ \E p \in Period : ChooseMonth(i, p)
         \/ \E ok \in BOOLEAN : LoadEnds(i, ok)
         \/ Refresh(i) \/ RunFails(i) \/ LogEntry(i) \/ EntryLogged(i)
         \/ VoidEntry(i) \/ EntryVoided(i) \/ Export(i) \/ ExportEnds(i)
    \/ \E k \in Kind : OpenTab(k)
    \/ \E commit \in BOOLEAN : EndCategory(commit)
    \/ \E row \in Row : OpenVoid(row)
    \/ AddCategory \/ FillForm \/ CancelVoid \/ TypeReason \/ OpenExport \/ CancelExport

Spec == Init /\ [][Next]_vars

\* The reason an entry is voided with was typed in that entry's own dialog,
\* although a dialog may close, and another open, while a change is saved.
ReasonBelongsToItsRow ==
    \A i \in CallId : calls[i].kind = "void" => calls[i].reason = {calls[i].row}

=============================================================================
