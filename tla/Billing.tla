------------------------------- MODULE Billing -------------------------------
(***************************************************************************)
(* The billing backend: preview, publish and reopen a month, edit what the *)
(* month's bills are computed from, submit a payment and review it.  Each  *)
(* HTTP request runs in its own database transaction (get_db) at READ      *)
(* COMMITTED; a request that takes locks at one statement and writes at a  *)
(* later one is two steps here, and what it holds in between is read off   *)
(* the record of the request in tx.                                        *)
(***************************************************************************)
EXTENDS Naturals

CONSTANTS
    Student,
    Period,         \* billing months
    Utr,            \* bank transfer references
    Input,          \* values of a month's lock-protected billing data
    Figure,         \* expense figures an administrator can enter
    Admin,          \* administrators' browsers
    Session,        \* database sessions serving requests
    MaxRevision,    \* bound on the publications of one month
    InvoiceOf,      \* calculate_bills: grand total by figures, data and cohort
    Chargeable      \* the <<data, cohort>> pairs with opted-in student-days

ASSUME BoundAssumption == MaxRevision \in Nat

ASSUME InvoiceAssumption ==
    InvoiceOf \in [Figure \X Input \X SUBSET Student -> [Student -> Nat]]

VARIABLES
    period,     \* billing_periods: revision and published flag of each month
    snapshots,  \* student_bill_snapshots: one row per issued invoice
    payments,   \* payment_submissions, by (period, student, revision)
    ended,      \* months whose last day is in the past (IST)
    input,      \* selections, holidays, fines, ledger and stock of each month
    cohort,     \* students the mess bills: not PENDING and not OUTMESS
    shown,      \* the preview each administrator's browser displays
    tx          \* the request each session is in the middle of

book == <<period, snapshots, payments>>
vars == <<period, snapshots, payments, ended, input, cohort, shown, tx>>

Revision == 1..MaxRevision

NoPayment == [status |-> "NONE"]

Payment == [status : {"PENDING", "VERIFIED", "REJECTED"}, utr : Utr, amount : Nat]

Snapshot == [period : Period, revision : Revision, student : Student, total : Nat]

(***************************************************************************)
(* The result of preview: its hash is the preview_token, so two previews   *)
(* have the same token exactly when they are equal.                        *)
(***************************************************************************)
GrandTotals(f, i, c) == [s \in Student |-> IF s \in c THEN InvoiceOf[<<f, i, c>>][s] ELSE 0]

Preview == [period : Period, revision : Nat, figures : Figure,
            billed : SUBSET Student, totals : [Student -> Nat]]

\* A preview whose revision is within the bound of the model.
Quote == {q \in Preview : q.revision \in Revision}

NoPreview == [period |-> "NONE"]

\* Slip: a correction is published again under the old revision number.
NextRevisionReused(p) == IF period[p].revision = 0 THEN 1 ELSE period[p].revision

NextRevision(p) == period[p].revision + 1

Recompute(p, f) ==
    [period |-> p, revision |-> NextRevision(p), figures |-> f,
     billed |-> cohort, totals |-> GrandTotals(f, input[p], cohort)]

\* Slip: the rows are inserted before the revision is advanced.
InvoiceRowsEarly(q) ==
    {[period |-> q.period, revision |-> q.revision - 1, student |-> s,
      total |-> q.totals[s]] : s \in q.billed}

InvoiceRows(q) ==
    {[period |-> q.period, revision |-> q.revision, student |-> s,
      total |-> q.totals[s]] : s \in q.billed}

------------------------------------------------------------------------------
(***************************************************************************)
(* Requests in progress, and the locks each of them holds.                 *)
(***************************************************************************)
Idle == [op |-> "idle"]

Publishing == [op : {"publish"}, period : Period, quote : Quote, token : Quote]
Unpublishing == [op : {"unpublish"}, period : Period]
Editing == [op : {"edit"}, period : Period, exclusive : BOOLEAN]
Submitting == [op : {"submit"}, period : Period, revision : Revision,
               student : Student, utr : Utr, amount : Nat]
Reviewing == [op : {"review"}, period : Period, revision : Revision,
              student : Student, decision : {"VERIFIED", "REJECTED"}]

Request == {Idle} \cup Publishing \cup Unpublishing \cup Editing
                  \cup Submitting \cup Reviewing

\* pg_advisory_xact_lock(734201, month), and its shared form.
HoldsExclusive(w, p) ==
    \/ tx[w].op \in {"publish", "unpublish"} /\ tx[w].period = p
    \/ tx[w].op = "edit" /\ tx[w].period = p /\ tx[w].exclusive

HoldsShared(w, p) ==
    tx[w].op = "edit" /\ tx[w].period = p /\ ~tx[w].exclusive

ExclusiveFree(p) == \A w \in Session : ~HoldsExclusive(w, p) /\ ~HoldsShared(w, p)

\* Slip: a student's write does not take the month's advisory lock.
SharedFreeUnlocked(p) == p \in Period

SharedFree(p) == \A w \in Session : ~HoldsExclusive(w, p)

\* SELECT ... FOR UPDATE on the billing_periods row of p.
PeriodRowFree(p) ==
    \A w \in Session : ~(tx[w].op = "submit" /\ tx[w].period = p)

PaymentKey(t) == <<t.period, t.student, t.revision>>

\* SELECT ... FOR UPDATE on the payment_submissions row with key k.
PaymentRowFree(k) ==
    \A w \in Session : ~(tx[w].op = "review" /\ PaymentKey(tx[w]) = k)

Begin(w, request) == tx[w] = Idle /\ tx' = [tx EXCEPT ![w] = request]

End(w) == tx' = [tx EXCEPT ![w] = Idle]

\* Slip: a verified payment can be replaced.
ActivePending(k) == payments[k].status = "PENDING"

Active(k) == payments[k].status \in {"PENDING", "VERIFIED"}
------------------------------------------------------------------------------
Init ==
    /\ period = [p \in Period |-> [revision |-> 0, published |-> FALSE]]
    /\ snapshots = {}
    /\ payments = [k \in Period \X Student \X Revision |-> NoPayment]
    /\ ended = {}
    /\ input \in [Period -> Input]
    /\ cohort \in SUBSET Student
    /\ shown = [a \in Admin |-> NoPreview]
    /\ tx = [w \in Session |-> Idle]

MonthEnds(p) ==
    /\ p \notin ended
    /\ ended' = ended \cup {p}
    /\ UNCHANGED <<book, input, cohort, shown, tx>>

(***************************************************************************)
(* Writers that call lock_open_period (selections, holidays, attendance,   *)
(* fines, ledger) or record_stock_count: the advisory lock is taken, the   *)
(* published flag is read, and the write commits in a later statement.     *)
(***************************************************************************)
EditLock(w, p, exclusive) ==
    /\ IF exclusive THEN ExclusiveFree(p) ELSE SharedFree(p)
    /\ ~period[p].published
    /\ Begin(w, [op |-> "edit", period |-> p, exclusive |-> exclusive])
    /\ UNCHANGED <<book, ended, input, cohort, shown>>

EditCommit(w, i) ==
    /\ tx[w].op = "edit"
    /\ input' = [input EXCEPT ![tx[w].period] = i]
    /\ End(w)
    /\ UNCHANGED <<book, ended, cohort, shown>>

(***************************************************************************)
(* update_membership, update_student_status and account activation change  *)
(* who is billed, and take no billing lock.                                *)
(***************************************************************************)
CohortChange(s) ==
    /\ cohort' = IF s \in cohort THEN cohort \ {s} ELSE cohort \cup {s}
    /\ UNCHANGED <<book, ended, input, shown, tx>>

\* The preview endpoint, which takes the exclusive lock and writes nothing.
PreviewBills(a, p, f) ==
    /\ ExclusiveFree(p)
    /\ shown' = [shown EXCEPT ![a] = Recompute(p, f)]
    /\ UNCHANGED <<book, ended, input, cohort, tx>>

(***************************************************************************)
(* publish: under the exclusive lock the month must be open, the preview   *)
(* is recomputed from the data of now, and must be the one the             *)
(* administrator reviewed.                                                 *)
(***************************************************************************)
\* Slip: only the revision of the reviewed preview is compared.
TokenMatchesRevision(quote, token) ==
    /\ token # NoPreview
    /\ quote.period = token.period /\ quote.revision = token.revision

TokenMatches(quote, token) == quote = token

PublishRecheck(w, a, p, f) ==
    LET quote == Recompute(p, f)
    IN  /\ p \in ended
        /\ ExclusiveFree(p)
        /\ ~period[p].published
        /\ quote.revision \in Revision
        /\ <<input[p], cohort>> \in Chargeable
        /\ TokenMatches(quote, shown[a])
        /\ Begin(w, [op |-> "publish", period |-> p, quote |-> quote, token |-> shown[a]])
        /\ UNCHANGED <<book, ended, input, cohort, shown>>

PublishCommit(w) ==
    /\ tx[w].op = "publish"
    /\ PeriodRowFree(tx[w].period)
    /\ period' = [period EXCEPT ![tx[w].period] =
                     [revision |-> tx[w].quote.revision, published |-> TRUE]]
    /\ snapshots' = snapshots \cup InvoiceRows(tx[w].quote)
    /\ End(w)
    /\ UNCHANGED <<payments, ended, input, cohort, shown>>

(***************************************************************************)
(* unpublish: the payments of the revision in force are read under the     *)
(* advisory lock only, and the row is updated in a later statement.        *)
(***************************************************************************)
UnpublishCheck(w, p) ==
    /\ ExclusiveFree(p)
    /\ period[p].published
    /\ \A s \in Student : ~Active(<<p, s, period[p].revision>>)
    /\ Begin(w, [op |-> "unpublish", period |-> p])
    /\ UNCHANGED <<book, ended, input, cohort, shown>>

UnpublishCommit(w) ==
    /\ tx[w].op = "unpublish"
    /\ PeriodRowFree(tx[w].period)
    /\ period' = [period EXCEPT ![tx[w].period].published = FALSE]
    /\ End(w)
    /\ UNCHANGED <<snapshots, payments, ended, input, cohort, shown>>

(***************************************************************************)
(* submit_payment: locks the published period row, then its own payment    *)
(* row.  A rejected row is used again; the unique index refuses a UTR that *)
(* any other row carries.                                                  *)
(***************************************************************************)
\* Slip: an invoice of any revision is accepted.
InvoiceIssuedAnyRevision(p, s, amount) ==
    \E bill \in snapshots :
        bill.period = p /\ bill.student = s /\ bill.total = amount

InvoiceIssued(p, s, amount) ==
    \E bill \in snapshots :
        /\ bill.period = p /\ bill.revision = period[p].revision
        /\ bill.student = s /\ bill.total = amount

SubmitLock(w, p, s, u, amount) ==
    /\ PeriodRowFree(p)
    /\ period[p].published
    /\ amount > 0
    /\ InvoiceIssued(p, s, amount)
    /\ Begin(w, [op |-> "submit", period |-> p, revision |-> period[p].revision,
                 student |-> s, utr |-> u, amount |-> amount])
    /\ UNCHANGED <<book, ended, input, cohort, shown>>

\* Slip: a reference on a rejected row is taken to be free.
UtrTakenByActive(u, k) ==
    \E j \in DOMAIN payments \ {k} : Active(j) /\ payments[j].utr = u

UtrTaken(u, k) ==
    \E j \in DOMAIN payments \ {k} :
        payments[j].status # "NONE" /\ payments[j].utr = u

SubmitCommit(w) ==
    LET k == PaymentKey(tx[w])
    IN  /\ tx[w].op = "submit"
        /\ PaymentRowFree(k)
        /\ ~Active(k) /\ ~UtrTaken(tx[w].utr, k)
        /\ payments' = [payments EXCEPT ![k] =
              [status |-> "PENDING", utr |-> tx[w].utr, amount |-> tx[w].amount]]
        /\ End(w)
        /\ UNCHANGED <<period, snapshots, ended, input, cohort, shown>>

\* Slip: a second submission is not refused and keeps its lock.
SubmitRefuseUtrOnly(w) ==
    /\ tx[w].op = "submit"
    /\ PaymentRowFree(PaymentKey(tx[w]))
    /\ UtrTaken(tx[w].utr, PaymentKey(tx[w]))
    /\ End(w)
    /\ UNCHANGED <<book, ended, input, cohort, shown>>

SubmitRefuse(w) ==
    LET k == PaymentKey(tx[w])
    IN  /\ tx[w].op = "submit"
        /\ PaymentRowFree(k)
        /\ Active(k) \/ UtrTaken(tx[w].utr, k)
        /\ End(w)
        /\ UNCHANGED <<book, ended, input, cohort, shown>>

(***************************************************************************)
(* review_payment: locks the payment row, then the period row, which is    *)
(* the opposite order to submit_payment.                                   *)
(***************************************************************************)
ReviewLock(w, p, s, r, decision) ==
    /\ PaymentRowFree(<<p, s, r>>)
    /\ payments[<<p, s, r>>].status = "PENDING"
    /\ Begin(w, [op |-> "review", period |-> p, revision |-> r, student |-> s,
                 decision |-> decision])
    /\ UNCHANGED <<book, ended, input, cohort, shown>>

\* Slip: the bill is not looked at again when the payment is reviewed.
InForceUnchecked(p, r) == p \in Period /\ r \in Revision

InForce(p, r) == period[p].published /\ period[p].revision = r

ReviewCommit(w) ==
    LET k == PaymentKey(tx[w])
    IN  /\ tx[w].op = "review"
        /\ PeriodRowFree(tx[w].period)
        /\ InForce(tx[w].period, tx[w].revision)
        /\ payments' = [payments EXCEPT ![k] =
              [status |-> tx[w].decision, utr |-> payments[k].utr,
               amount |-> payments[k].amount]]
        /\ End(w)
        /\ UNCHANGED <<period, snapshots, ended, input, cohort, shown>>

ReviewRefuse(w) ==
    /\ tx[w].op = "review"
    /\ PeriodRowFree(tx[w].period)
    /\ ~InForce(tx[w].period, tx[w].revision)
    /\ End(w)
    /\ UNCHANGED <<book, ended, input, cohort, shown>>

(***************************************************************************)
(* Any failure in the middle of a request (the client goes away, the       *)
(* command times out, the process stops) rolls its transaction back.       *)
(***************************************************************************)
Rollback(w) ==
    /\ tx[w] # Idle
    /\ End(w)
    /\ UNCHANGED <<book, ended, input, cohort, shown>>

(***************************************************************************)
(* A submission holds its period row and waits for its payment row, and a  *)
(* review of that payment holds the payment row and waits for the period   *)
(* row: PostgreSQL breaks the cycle by cancelling one of the two.          *)
(***************************************************************************)
WaitCycle(w, v) ==
    /\ tx[w].op = "submit" /\ tx[v].op = "review"
    /\ PaymentKey(tx[w]) = PaymentKey(tx[v])

DeadlockCancel(w) ==
    /\ \E v \in Session : WaitCycle(w, v) \/ WaitCycle(v, w)
    /\ End(w)
    /\ UNCHANGED <<book, ended, input, cohort, shown>>

Finish(w) ==
    \/ \E i \in Input : EditCommit(w, i)
    \/ PublishCommit(w)
    \/ UnpublishCommit(w)
    \/ SubmitCommit(w)
    \/ SubmitRefuse(w)
    \/ ReviewCommit(w)
    \/ ReviewRefuse(w)

Totals == {bill.total : bill \in snapshots}

Start(w) ==
    \E p \in Period :
        \/ \E exclusive \in BOOLEAN : EditLock(w, p, exclusive)
        \/ \E a \in Admin, f \in Figure : PublishRecheck(w, a, p, f)
        \/ UnpublishCheck(w, p)
        \/ \E s \in Student, u \in Utr, amount \in Totals : SubmitLock(w, p, s, u, amount)
        \/ \E s \in Student, r \in Revision, d \in {"VERIFIED", "REJECTED"} :
              ReviewLock(w, p, s, r, d)

Next ==
    \/ \E w \in Session : Start(w) \/ Finish(w) \/ Rollback(w) \/ DeadlockCancel(w)
    \/ \E p \in Period : MonthEnds(p)
    \/ \E s \in Student : CohortChange(s)
    \/ \E a \in Admin, p \in Period, f \in Figure : PreviewBills(a, p, f)

Spec == Init /\ [][Next]_vars

(***************************************************************************)
(* A statement blocked on a lock is queued by PostgreSQL and gets it when  *)
(* the holders end (strong fairness); uvicorn keeps running the coroutine  *)
(* of a request and the deadlock detector runs after deadlock_timeout.     *)
(***************************************************************************)
Fairness == \A w \in Session : SF_vars(Finish(w)) /\ WF_vars(DeadlockCancel(w))

FairSpec == Spec /\ Fairness
------------------------------------------------------------------------------
TypeOK ==
    /\ period \in [Period -> [revision : 0..MaxRevision, published : BOOLEAN]]
    /\ snapshots \subseteq Snapshot
    /\ payments \in [Period \X Student \X Revision -> Payment \cup {NoPayment}]
    /\ ended \subseteq Period
    /\ input \in [Period -> Input]
    /\ cohort \subseteq Student
    /\ shown \in [Admin -> Preview \cup {NoPreview}]
    /\ tx \in [Session -> Request]

(***************************************************************************)
(* Every payment, whatever its status, is for exactly the total of the     *)
(* invoice issued to that student in that revision of the month, however   *)
(* often the month was reopened and published again since.                 *)
(***************************************************************************)
PaymentMatchesInvoice ==
    \A k \in DOMAIN payments :
        payments[k].status # "NONE" =>
            [period |-> k[1], revision |-> k[3], student |-> k[2],
             total |-> payments[k].amount] \in snapshots

(***************************************************************************)
(* A bank transfer reference is on at most one payment row, although rows  *)
(* of rejected payments are reused with another reference.                 *)
(***************************************************************************)
UtrOnOnePayment ==
    \A j, k \in DOMAIN payments :
        /\ payments[j].status # "NONE"
        /\ payments[k].status # "NONE"
        /\ payments[j].utr = payments[k].utr
        => j = k

InvoicesOf(p, r) == {bill \in snapshots : bill.period = p /\ bill.revision = r}

(***************************************************************************)
(* While a month is published its invoices are what the month's stored     *)
(* selections, holidays, fines and stock give: no writer that takes the    *)
(* billing lock can slip a change in between the calculation and the       *)
(* publication, or after it.                                               *)
(***************************************************************************)
PublishedReflectsInputs ==
    \A p \in Period :
        period[p].published =>
            \E f \in Figure, c \in SUBSET Student :
                InvoicesOf(p, period[p].revision) =
                    InvoiceRows([period |-> p, revision |-> period[p].revision, billed |-> c,
                                 totals |-> GrandTotals(f, input[p], c)])

(***************************************************************************)
(* The invoices a publication issues are the ones in the preview the       *)
(* publishing administrator sent back, even when data or cohort changed    *)
(* between the preview and the publication.                                *)
(***************************************************************************)
PublishedAsReviewed ==
    [][\A w \in Session :
          tx[w].op = "publish" /\ period'[tx[w].period] # period[tx[w].period] =>
              snapshots' \ snapshots = InvoiceRows(tx[w].token)]_vars

(***************************************************************************)
(* Invoices of a revision that has been published never change again, and  *)
(* none is added to it: a correction is a new revision.                    *)
(***************************************************************************)
IssuedInvoicesFixed ==
    [][\A p \in Period : \A r \in 1..period[p].revision :
          InvoicesOf(p, r)' = InvoicesOf(p, r)]_vars

\* A verified payment keeps its status, reference and amount for ever.
VerifiedIsFinal ==
    [][\A k \in DOMAIN payments :
          payments[k].status = "VERIFIED" => payments'[k] = payments[k]]_vars

Book == INSTANCE InvoiceBook

\* Sessions and locks hidden, billing is the atomic book of invoices.
ImplementsInvoiceBook == Book!Spec

(***************************************************************************)
(* What unpublish says when it refuses, "Resolve pending payments before   *)
(* reopening": a payment that is pending or verified is for the revision   *)
(* in force.                                                               *)
(***************************************************************************)
ReopenedHasNoActivePayment ==
    \A k \in DOMAIN payments : Active(k) => InForce(k[1], k[3])

(***************************************************************************)
(* Every request ends: no set of requests waits for each other's locks for *)
(* ever, and none is left holding a lock.                                  *)
(***************************************************************************)
RequestsFinish == \A w \in Session : tx[w] # Idle ~> tx[w] = Idle
==============================================================================
