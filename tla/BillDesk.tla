------------------------------- MODULE BillDesk -------------------------------
(***************************************************************************)
(* The billing screen (BillingManagementView.tsx): a month's figures are   *)
(* typed in or filled from the ledger, previewed, and published with the   *)
(* token of the preview; a published month is reopened for correction.     *)
(* The publication itself is in Billing; here the server answers whatever  *)
(* it may hold.                                                            *)
(*                                                                         *)
(* Every handler and the loading effect hold `busy` until they are done,   *)
(* and `busy` disables the period input and every button that starts one,  *)
(* so a single call is in flight.                                          *)
(***************************************************************************)
CONSTANTS
    Period,    \* billing months
    Amount     \* amounts in a field

VARIABLES ui, calls

vars == <<ui, calls>>

\* The stock values are typed in; the other lines come from the ledger.
Figures == [stock : Amount, costs : Amount]
Status == [period : Period, published : BOOLEAN, legacy : BOOLEAN]
Preview == [period : Period, figures : Figures, empty : BOOLEAN]

NoCall == [kind |-> "none"]
Call ==
    [kind : {"load", "fill", "bills", "reopen", "download"}, period : Period] \cup
    [kind : {"preview", "publish"}, period : Period, figures : Figures]

\* `status`, `preview` and `bills` hold at most what was last answered, with
\* the month it was asked for; `extras` says whether ledger and roll arrived.
TypeOK ==
    /\ ui \in [period : Period, figures : Figures, status : SUBSET Status,
               preview : SUBSET Preview, bills : SUBSET Period, extras : SUBSET {"ledger", "roll"},
               reopening : BOOLEAN, reasoned : BOOLEAN]
    /\ calls \in Call \cup {NoCall}

Busy == calls # NoCall
Published == \E s \in ui.status : s.published

\* The month whose students are listed: those of the bills, or of the preview.
Rows == IF Published THEN ui.bills ELSE {p.period : p \in ui.preview}

\* The effect on the period clears what the last one left, the figures aside.
LoadPeriod(p, screen) ==
    /\ ui' = [screen EXCEPT !.period = p, !.status = {}, !.preview = {}, !.bills = {},
                            !.reopening = FALSE]
    /\ calls' = [kind |-> "load", period |-> p]

Init ==
    \E p \in Period, zero \in Amount :
        /\ ui = [period |-> p, figures |-> [stock |-> zero, costs |-> zero], status |-> {},
                 preview |-> {}, bills |-> {}, extras |-> {},
                 reopening |-> FALSE, reasoned |-> FALSE]
        /\ calls = [kind |-> "load", period |-> p]

ChangePeriod(p) ==
    /\ ~Busy
    /\ p # ui.period
    /\ LoadPeriod(p, ui)

\* The status is asked for, then the bills of a published month; the ledger
\* and the roll may be missing without hiding the bill.
Loaded(status, figures, extras) ==
    /\ calls.kind = "load"
    /\ status.period = calls.period
    /\ ui' = [ui EXCEPT !.status = {status}, !.figures = figures, !.extras = extras,
                        !.bills = IF status.published /\ ~status.legacy THEN {calls.period} ELSE {}]
    /\ calls' = NoCall

RequestFails ==
    /\ Busy
    /\ calls' = NoCall
    /\ UNCHANGED ui

\* The fields and buttons of the draft, offered until the month is published.
Drafting == ui.status # {} /\ ~Published /\ ~Busy

\* Slip: the preview stays when a figure is typed over.
EditStockKeeping(amount) ==
    /\ Drafting
    /\ ui' = [ui EXCEPT !.figures.stock = amount]
    /\ UNCHANGED calls

\* A typed stock value outdates the preview.
EditStock(amount) ==
    /\ Drafting
    /\ ui' = [ui EXCEPT !.figures.stock = amount, !.preview = {}]
    /\ UNCHANGED calls

FillFromLedger ==
    /\ Drafting
    /\ calls' = [kind |-> "fill", period |-> ui.period]
    /\ UNCHANGED ui

CostsFilled(amount) ==
    /\ calls.kind = "fill"
    /\ ui' = [ui EXCEPT !.figures.costs = amount, !.preview = {}]
    /\ calls' = NoCall

PreviewBill ==
    /\ Drafting
    /\ calls' = [kind |-> "preview", period |-> ui.period, figures |-> ui.figures]
    /\ UNCHANGED ui

PreviewLands(empty) ==
    /\ calls.kind = "preview"
    /\ ui' = [ui EXCEPT !.preview = {[period |-> calls.period, figures |-> calls.figures,
                                      empty |-> empty]}]
    /\ calls' = NoCall

\* The figures of the fields go with the token of the preview.
PublishBill ==
    /\ Drafting
    /\ \E p \in ui.preview : ~p.empty
    /\ calls' = [kind |-> "publish", period |-> ui.period, figures |-> ui.figures]
    /\ UNCHANGED ui

\* Once published the bills are asked for; if that fails the month stays
\* published on the screen, with no bills.
BillPublished ==
    /\ calls.kind = "publish"
    /\ ui' = [ui EXCEPT !.status = {[period |-> calls.period, published |-> TRUE,
                                     legacy |-> FALSE]}]
    /\ calls' = [kind |-> "bills", period |-> calls.period]

BillsLand ==
    /\ calls.kind = "bills"
    /\ ui' = [ui EXCEPT !.bills = {calls.period}, !.preview = {}]
    /\ calls' = NoCall

\* The correction form: opened, or given up, even while a call is in flight.
ToggleReopen ==
    /\ Published
    /\ ui' = IF ui.reopening THEN [ui EXCEPT !.reopening = FALSE, !.reasoned = FALSE]
             ELSE [ui EXCEPT !.reopening = TRUE]
    /\ UNCHANGED calls

TypeReason ==
    /\ Published /\ ui.reopening
    /\ ui' = [ui EXCEPT !.reasoned = ~@]
    /\ UNCHANGED calls

UnpublishBill ==
    /\ Published /\ ui.reopening /\ ui.reasoned /\ ~Busy
    /\ calls' = [kind |-> "reopen", period |-> ui.period]
    /\ UNCHANGED ui

Reopened ==
    /\ calls.kind = "reopen"
    /\ ui' = [ui EXCEPT !.status = {[s EXCEPT !.published = FALSE] : s \in @},
                        !.preview = {}, !.bills = {},
                        !.reopening = FALSE, !.reasoned = FALSE]
    /\ calls' = NoCall

\* The month's file, for a revision that has one.
Download ==
    /\ \E s \in ui.status : s.published /\ ~s.legacy
    /\ ~Busy
    /\ calls' = [kind |-> "download", period |-> ui.period]
    /\ UNCHANGED ui

Next ==
    \/ \E p \in Period : ChangePeriod(p)
    \/ \E status \in Status, figures \in Figures, extras \in SUBSET {"ledger", "roll"} :
         Loaded(status, figures, extras)
    \/ \E amount \in Amount : EditStock(amount) \/ CostsFilled(amount)
    \/ \E empty \in BOOLEAN : PreviewLands(empty)
    \/ FillFromLedger \/ PreviewBill \/ PublishBill \/ BillPublished \/ BillsLand
    \/ ToggleReopen \/ TypeReason \/ UnpublishBill \/ Reopened
    \/ Download \/ RequestFails

Spec == Init /\ [][Next]_vars

\* The bill that is sent to be published is the one previewed on the screen:
\* its month and its figures, whatever was typed, filled in or reopened
\* between the two.
PublishesWhatIsShown ==
    calls.kind = "publish" =>
        \E p \in ui.preview : p.period = calls.period /\ p.figures = calls.figures

\* Status, preview and bills are those of the month chosen.  The figures are
\* not: until the chosen month's arrive, and after they failed to, they are those
\* of the month before.
ShownBelongsToChoice ==
    /\ \A s \in ui.status : s.period = ui.period
    /\ Rows \subseteq {ui.period}

=============================================================================
