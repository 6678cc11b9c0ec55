------------------------------ MODULE StudentBill ------------------------------
(***************************************************************************)
(* A student's bill (StudentBillView.tsx): the bill of the month chosen,   *)
(* and the form that reports its payment.  The months are chosen faster    *)
(* than bills arrive; an answer for a month no longer chosen is dropped.   *)
(***************************************************************************)
EXTENDS FiniteSets

CONSTANTS
    Period,    \* months of the selects
    CallId     \* bound: requests in flight at a time

VARIABLES ui, calls

vars == <<ui, calls>>

\* `cancelled` is the flag the effect's clean-up sets.  A payment has the month
\* it is for and the month whose total it states.
NoCall == [kind |-> "none"]
Call ==
    [kind : {"bill"}, period : Period, cancelled : BOOLEAN] \cup
    [kind : {"payments"}, after : {"nothing", "pay"}] \cup
    [kind : {"pay"}, period : Period, totalOf : Period]

\* `settled` holds the months with a submission for the bill's revision that
\* was not rejected.
TypeOK ==
    /\ ui \in [period : Period, bill : SUBSET Period, loading : BOOLEAN,
               notPublished : BOOLEAN, failed : BOOLEAN,
               settled : SUBSET Period, utr : BOOLEAN]
    /\ calls \in [CallId -> Call \cup {NoCall}]

Init ==
    \E p \in Period, i \in CallId, j \in CallId :
        /\ i # j
        /\ ui = [period |-> p, bill |-> {}, loading |-> TRUE, notPublished |-> FALSE,
                 failed |-> FALSE, settled |-> {}, utr |-> FALSE]
        /\ calls = [c \in CallId |->
             CASE c = i -> [kind |-> "bill", period |-> p, cancelled |-> FALSE]
               [] c = j -> [kind |-> "payments", after |-> "nothing"]
               [] OTHER -> NoCall]

\* The clean-up and the effect: the bill leaves the screen, its request is
\* cancelled, and the one of the new month is sent.
ChoosePeriod(i, p) ==
    /\ p # ui.period
    /\ calls[i] = NoCall
    /\ ui' = [ui EXCEPT !.period = p, !.bill = {}, !.loading = TRUE,
                        !.notPublished = FALSE, !.failed = FALSE]
    /\ calls' = [c \in CallId |->
         CASE c = i -> [kind |-> "bill", period |-> p, cancelled |-> FALSE]
           [] calls[c].kind = "bill" -> [calls[c] EXCEPT !.cancelled = TRUE]
           [] OTHER -> calls[c]]

\* Slip: the effect has no clean-up.
BillAnsweredLate(i, screen) ==
    /\ calls[i].kind = "bill"
    /\ ui' = [screen EXCEPT !.loading = FALSE]
    /\ calls' = [calls EXCEPT ![i] = NoCall]

\* The answer to a request that was not cancelled: the bill, that it is not
\* published, or an error.
BillAnswered(i, screen) ==
    /\ calls[i].kind = "bill"
    /\ ui' = IF calls[i].cancelled THEN ui ELSE [screen EXCEPT !.loading = FALSE]
    /\ calls' = [calls EXCEPT ![i] = NoCall]

BillLands(i) == calls[i].kind = "bill" /\ BillAnswered(i, [ui EXCEPT !.bill = {calls[i].period}])
BillNotPublished(i) == BillAnswered(i, [ui EXCEPT !.notPublished = TRUE])
BillFails(i) == BillAnswered(i, [ui EXCEPT !.failed = TRUE])

\* `loadPayments`: the list, or none when it fails.
PaymentsLand(i, settled) ==
    /\ calls[i].kind = "payments"
    /\ ui' = [ui EXCEPT !.settled = settled]
    /\ calls' = [calls EXCEPT ![i] = NoCall]

\* What the page renders of the bill, and with it the payment form.
Shown == IF ui.loading \/ ui.failed \/ ui.notPublished THEN {} ELSE ui.bill

TypeUtr ==
    /\ Shown # {} /\ ui.period \notin ui.settled
    /\ ui' = [ui EXCEPT !.utr = ~@]
    /\ UNCHANGED calls

Submitting ==
    \E i \in CallId : calls[i].kind = "pay" \/ (calls[i].kind = "payments" /\ calls[i].after = "pay")

\* The month chosen is sent with the total of the bill shown.
SubmitPayment(i) ==
    /\ ui.utr /\ ui.period \notin ui.settled
    /\ ~Submitting
    /\ calls[i] = NoCall
    /\ \E b \in Shown :
         calls' = [calls EXCEPT ![i] = [kind |-> "pay", period |-> ui.period, totalOf |-> b]]
    /\ UNCHANGED ui

\* The field is blank again and the submissions are read back.
PaymentSubmitted(i) ==
    /\ calls[i].kind = "pay"
    /\ ui' = [ui EXCEPT !.utr = FALSE]
    /\ calls' = [calls EXCEPT ![i] = [kind |-> "payments", after |-> "pay"]]

PaymentRefused(i) ==
    /\ calls[i].kind = "pay"
    /\ calls' = [calls EXCEPT ![i] = NoCall]
    /\ UNCHANGED ui

Next ==
    \/ \E i \in CallId :
         \/ \E p \in Period : ChoosePeriod(i, p)
         \/ \E settled \in SUBSET Period : PaymentsLand(i, settled)
         \/ BillLands(i) \/ BillNotPublished(i) \/ BillFails(i)
         \/ SubmitPayment(i) \/ PaymentSubmitted(i) \/ PaymentRefused(i)
    \/ TypeUtr

Spec == Init /\ [][Next]_vars

\* However bills arrive, the one shown is of the month chosen, and a payment
\* states the total of the month it is for.
ShownBelongsToChoice ==
    /\ Shown \subseteq {ui.period}
    /\ \A i \in CallId : calls[i].kind = "pay" => calls[i].totalOf = calls[i].period

=============================================================================
