----------------------------- MODULE InvoiceBook -----------------------------
(***************************************************************************)
(* What billing promises to students, with every handler a single atomic   *)
(* step: a month is open or published at a revision, publishing appends    *)
(* one invoice per billed student under a fresh revision, and a payment is *)
(* submitted against, and reviewed under, the revision in force.  Module   *)
(* Billing, with its database sessions and locks, implements this.         *)
(***************************************************************************)
EXTENDS Naturals

CONSTANTS Student, Period, Utr, MaxRevision

VARIABLES
    period,     \* the billing_periods rows
    snapshots,  \* the student_bill_snapshots rows
    payments    \* the payment_submissions rows, by their unique key

bookVars == <<period, snapshots, payments>>

Revision == 1..MaxRevision

NoPayment == [status |-> "NONE"]

Payment == [status : {"PENDING", "VERIFIED", "REJECTED"}, utr : Utr, amount : Nat]

Init ==
    /\ period = [p \in Period |-> [revision |-> 0, published |-> FALSE]]
    /\ snapshots = {}
    /\ payments = [k \in Period \X Student \X Revision |-> NoPayment]

(***************************************************************************)
(* An open month becomes published at the next revision, with one invoice  *)
(* each for some set of billed students.                                   *)
(***************************************************************************)
Publish(p) ==
    LET r == period[p].revision + 1
    IN  /\ ~period[p].published
        /\ r \in Revision
        /\ period' = [period EXCEPT ![p] = [revision |-> r, published |-> TRUE]]
        /\ snapshots \subseteq snapshots'
        /\ \A bill \in snapshots' \ snapshots :
              bill \in [period : {p}, revision : {r}, student : Student, total : Nat]
        /\ \A a, b \in snapshots' \ snapshots : a.student = b.student => a = b
        /\ UNCHANGED payments

Unpublish(p) ==
    /\ period[p].published
    /\ period' = [period EXCEPT ![p].published = FALSE]
    /\ UNCHANGED <<snapshots, payments>>

(***************************************************************************)
(* A student reports a bank transfer for the invoice in force, in full and *)
(* under a reference nobody else has used.                                 *)
(***************************************************************************)
Submit(p, s, u) ==
    LET r == period[p].revision
        k == <<p, s, r>>
    IN  /\ period[p].published
        /\ payments[k].status \in {"NONE", "REJECTED"}
        /\ \A j \in DOMAIN payments \ {k} :
              payments[j].status # "NONE" => payments[j].utr # u
        /\ \E bill \in snapshots :
              /\ bill.period = p /\ bill.revision = r /\ bill.student = s
              /\ payments' = [payments EXCEPT ![k] =
                    [status |-> "PENDING", utr |-> u, amount |-> bill.total]]
        /\ UNCHANGED <<period, snapshots>>

Review(p, s, decision) ==
    LET k == <<p, s, period[p].revision>>
    IN  /\ period[p].published
        /\ payments[k].status = "PENDING"
        /\ payments' = [payments EXCEPT ![k] =
              [status |-> decision, utr |-> payments[k].utr, amount |-> payments[k].amount]]
        /\ UNCHANGED <<period, snapshots>>

Next ==
    \E p \in Period :
        \/ Publish(p)
        \/ Unpublish(p)
        \/ \E s \in Student, u \in Utr : Submit(p, s, u)
        \/ \E s \in Student, d \in {"VERIFIED", "REJECTED"} : Review(p, s, d)

Spec == Init /\ [][Next]_bookVars
==============================================================================
