---------------------------- MODULE BillingProofs ----------------------------
(***************************************************************************)
(* Proofs about Billing for every number of students, months, sessions and *)
(* revisions, and every way of computing a bill.                           *)
(***************************************************************************)
EXTENDS Billing, TLAPS

\* The kind of a request in progress is told by its op.
LEMMA RequestKinds ==
    ASSUME NEW t \in Request
    PROVE  /\ t.op = "publish" => t \in Publishing
           /\ t.op = "unpublish" => t \in Unpublishing
           /\ t.op = "edit" => t \in Editing
           /\ t.op = "submit" => t \in Submitting
           /\ t.op = "review" => t \in Reviewing
  BY DEF Request, Idle, Publishing, Unpublishing, Editing, Submitting, Reviewing

LEMMA TotalsType ==
    ASSUME NEW f \in Figure, NEW i \in Input, NEW c \in SUBSET Student
    PROVE  GrandTotals(f, i, c) \in [Student -> Nat]
  BY InvoiceAssumption DEF GrandTotals

LEMMA RecomputeType ==
    ASSUME TypeOK, NEW p \in Period, NEW f \in Figure
    PROVE  Recompute(p, f) \in Preview
  BY TotalsType DEF TypeOK, Recompute, NextRevision, Preview

------------------------------------------------------------------------------
(***************************************************************************)
(* The inductive invariant.  LockInv: locks exclude each other.  RequestOK: *)
(* what a session read before its first lock was granted still holds while *)
(* it is in progress, because the locks it holds keep others from changing *)
(* it.  SnapshotsBounded: no invoice carries a revision not yet reached.   *)
(***************************************************************************)
LockInv ==
    \A w, v \in Session :
        w # v =>
            /\ \A p \in Period :
                  HoldsExclusive(w, p) => ~HoldsExclusive(v, p) /\ ~HoldsShared(v, p)
            /\ tx[w].op = "submit" /\ tx[v].op = "submit" => tx[w].period # tx[v].period
            /\ tx[w].op = "review" /\ tx[v].op = "review" =>
                  PaymentKey(tx[w]) # PaymentKey(tx[v])

QuoteOK(q, p) ==
    /\ q.period = p
    /\ q.revision = period[p].revision + 1
    /\ q.totals = GrandTotals(q.figures, input[p], q.billed)

RequestOK(w) ==
    /\ tx[w].op = "edit" => ~period[tx[w].period].published
    /\ tx[w].op = "publish" =>
          /\ ~period[tx[w].period].published
          /\ QuoteOK(tx[w].quote, tx[w].period)
          /\ tx[w].token = tx[w].quote
    /\ tx[w].op = "unpublish" => period[tx[w].period].published
    /\ tx[w].op = "submit" =>
          /\ InForce(tx[w].period, tx[w].revision)
          /\ [period |-> tx[w].period, revision |-> tx[w].revision,
              student |-> tx[w].student, total |-> tx[w].amount] \in snapshots
    /\ tx[w].op = "review" => payments[PaymentKey(tx[w])].status = "PENDING"

RequestInv == \A w \in Session : RequestOK(w)

SnapshotsBounded ==
    \A bill \in snapshots : bill.revision <= period[bill.period].revision

BookInv ==
    /\ SnapshotsBounded
    /\ PaymentMatchesInvoice
    /\ UtrOnOnePayment
    /\ PublishedReflectsInputs

IInv == TypeOK /\ LockInv /\ RequestInv /\ BookInv

LEMMA InvInit == Init => IInv
<1> SUFFICES ASSUME Init PROVE IInv
  OBVIOUS
<1>1. TypeOK
  BY BoundAssumption DEF Init, TypeOK, Request
<1>2. LockInv
  BY DEF Init, LockInv, Idle, HoldsExclusive, HoldsShared
<1>3. RequestInv
  BY DEF Init, RequestInv, RequestOK, Idle
<1>4. BookInv
  BY DEF Init, BookInv, SnapshotsBounded, PaymentMatchesInvoice, UtrOnOnePayment,
         PublishedReflectsInputs, NoPayment
<1>5. QED
  BY <1>1, <1>2, <1>3, <1>4 DEF IInv

(***************************************************************************)
(* Every step preserves the types; a review rewrites only a row that is    *)
(* still a payment, which is what RequestInv is needed for.                *)
(***************************************************************************)
LEMMA TypeStep ==
    ASSUME TypeOK, RequestInv, [Next]_vars
    PROVE  TypeOK'
<1> USE DEF TypeOK
<1>e. ASSUME NEW w \in Session, End(w)
      PROVE  tx' \in [Session -> Request]
  BY <1>e DEF End, Request
<1>1. ASSUME NEW w \in Session, NEW p \in Period, NEW x \in BOOLEAN, EditLock(w, p, x)
      PROVE  TypeOK'
  <2>1. tx' \in [Session -> Request]
    BY <1>1 DEF EditLock, Begin, Request, Editing
  <2>2. QED
    BY <1>1, <2>1 DEF EditLock, book
<1>2. ASSUME NEW w \in Session, NEW a \in Admin, NEW p \in Period, NEW f \in Figure,
             PublishRecheck(w, a, p, f)
      PROVE  TypeOK'
  <2>1. Recompute(p, f) \in Quote
    BY <1>2, RecomputeType DEF PublishRecheck, Quote
  <2>2. tx' \in [Session -> Request]
    BY <1>2, <2>1 DEF PublishRecheck, TokenMatches, Begin, Request, Publishing
  <2>3. QED
    BY <1>2, <2>2 DEF PublishRecheck, book
<1>3. ASSUME NEW w \in Session, NEW p \in Period, UnpublishCheck(w, p)
      PROVE  TypeOK'
  <2>1. tx' \in [Session -> Request]
    BY <1>3 DEF UnpublishCheck, Begin, Request, Unpublishing
  <2>2. QED
    BY <1>3, <2>1 DEF UnpublishCheck, book
<1>4. ASSUME NEW w \in Session, NEW p \in Period, NEW s \in Student, NEW u \in Utr,
             NEW amount \in Totals, SubmitLock(w, p, s, u, amount)
      PROVE  TypeOK'
  <2>1. /\ amount \in Nat
        /\ period[p].revision \in Revision
    BY <1>4 DEF SubmitLock, InvoiceIssued, Snapshot
  <2>2. tx' \in [Session -> Request]
    BY <1>4, <2>1 DEF SubmitLock, Begin, Request, Submitting
  <2>3. QED
    BY <1>4, <2>2 DEF SubmitLock, book
<1>5. ASSUME NEW w \in Session, NEW p \in Period, NEW s \in Student, NEW r \in Revision,
             NEW d \in {"VERIFIED", "REJECTED"}, ReviewLock(w, p, s, r, d)
      PROVE  TypeOK'
  <2>1. tx' \in [Session -> Request]
    BY <1>5 DEF ReviewLock, Begin, Request, Reviewing
  <2>2. QED
    BY <1>5, <2>1 DEF ReviewLock, book
<1>6. ASSUME NEW w \in Session, NEW i \in Input, EditCommit(w, i)
      PROVE  TypeOK'
  BY <1>6, <1>e DEF EditCommit, book
<1>7. ASSUME NEW w \in Session, PublishCommit(w)
      PROVE  TypeOK'
  <2>1. tx[w] \in Publishing
    BY <1>7, RequestKinds DEF PublishCommit
  <2>2. PICK q \in Quote : q = tx[w].quote
    BY <2>1 DEF Publishing
  <2>3. q.revision \in Revision /\ q.period \in Period
    BY <2>2 DEF Quote, Preview
  <2>4. InvoiceRows(q) \subseteq Snapshot
    BY <2>3 DEF InvoiceRows, Snapshot, Quote, Preview
  <2>5. QED
    BY <1>7, <1>e, <2>1, <2>2, <2>3, <2>4, BoundAssumption
       DEF PublishCommit, Publishing, Revision
<1>8. ASSUME NEW w \in Session, UnpublishCommit(w)
      PROVE  TypeOK'
  <2>1. tx[w].period \in Period
    BY <1>8, RequestKinds DEF UnpublishCommit, Unpublishing
  <2>2. QED
    BY <1>8, <1>e, <2>1 DEF UnpublishCommit
<1>9. ASSUME NEW w \in Session, SubmitCommit(w)
      PROVE  TypeOK'
  <2>1. tx[w] \in Submitting
    BY <1>9, RequestKinds DEF SubmitCommit
  <2>2. [status |-> "PENDING", utr |-> tx[w].utr, amount |-> tx[w].amount] \in Payment
    BY <2>1 DEF Submitting, Payment
  <2>3. payments' \in [Period \X Student \X Revision -> Payment \cup {NoPayment}]
    BY <1>9, <2>2 DEF SubmitCommit
  <2>4. QED
    BY <1>9, <1>e, <2>3 DEF SubmitCommit
<1>10. ASSUME NEW w \in Session, ReviewCommit(w)
       PROVE  TypeOK'
  <2>1. tx[w] \in Reviewing
    BY <1>10, RequestKinds DEF ReviewCommit
  <2>2. PICK k \in Period \X Student \X Revision : k = PaymentKey(tx[w])
    BY <2>1 DEF Reviewing, PaymentKey
  <2>3. payments[k].status = "PENDING"
    BY <1>10, <2>2 DEF ReviewCommit, RequestInv, RequestOK
  <2>4. payments[k] \in Payment
    BY <2>3 DEF NoPayment
  <2>5. [status |-> tx[w].decision, utr |-> payments[k].utr, amount |-> payments[k].amount]
            \in Payment
    BY <2>1, <2>4 DEF Reviewing, Payment
  <2>6. payments' \in [Period \X Student \X Revision -> Payment \cup {NoPayment}]
    BY <1>10, <2>2, <2>5 DEF ReviewCommit
  <2>7. QED
    BY <1>10, <1>e, <2>6 DEF ReviewCommit
<1>11. ASSUME NEW w \in Session,
              SubmitRefuse(w) \/ ReviewRefuse(w) \/ Rollback(w) \/ DeadlockCancel(w)
       PROVE  TypeOK'
  BY <1>11, <1>e DEF SubmitRefuse, ReviewRefuse, Rollback, DeadlockCancel, book
<1>12. ASSUME NEW p \in Period, MonthEnds(p)
       PROVE  TypeOK'
  BY <1>12 DEF MonthEnds, book
<1>13. ASSUME NEW s \in Student, CohortChange(s)
       PROVE  TypeOK'
  BY <1>13 DEF CohortChange, book
<1>14. ASSUME NEW a \in Admin, NEW p \in Period, NEW f \in Figure, PreviewBills(a, p, f)
       PROVE  TypeOK'
  BY <1>14, RecomputeType DEF PreviewBills, book
<1>15. CASE UNCHANGED vars
  BY <1>15 DEF vars, book
<1> HIDE DEF TypeOK
<1>16. QED
  BY <1>1, <1>2, <1>3, <1>4, <1>5, <1>6, <1>7, <1>8, <1>9, <1>10, <1>11, <1>12, <1>13,
     <1>14, <1>15 DEF Next, Start, Finish

(***************************************************************************)
(* A request that starts gets each lock only when nobody else holds a      *)
(* conflicting one, and the other steps only release locks.                *)
(***************************************************************************)
LEMMA LockStep ==
    ASSUME TypeOK, LockInv, [Next]_vars
    PROVE  LockInv'
<1> USE DEF LockInv, HoldsExclusive, HoldsShared, Idle
<1>t. tx \in [Session -> Request]
  BY DEF TypeOK
<1>e. ASSUME NEW w \in Session, End(w)
      PROVE  LockInv'
  BY <1>e, <1>t DEF End
<1>u. ASSUME UNCHANGED tx
      PROVE  LockInv'
  BY <1>u DEF PaymentKey
<1>1. ASSUME NEW w \in Session, NEW p \in Period, NEW x \in BOOLEAN, EditLock(w, p, x)
      PROVE  LockInv'
  BY <1>1, <1>t DEF EditLock, Begin, ExclusiveFree, SharedFree
<1>2. ASSUME NEW w \in Session, NEW a \in Admin, NEW p \in Period, NEW f \in Figure,
             PublishRecheck(w, a, p, f)
      PROVE  LockInv'
  BY <1>2, <1>t DEF PublishRecheck, Begin, ExclusiveFree
<1>3. ASSUME NEW w \in Session, NEW p \in Period, UnpublishCheck(w, p)
      PROVE  LockInv'
  BY <1>3, <1>t DEF UnpublishCheck, Begin, ExclusiveFree
<1>4. ASSUME NEW w \in Session, NEW p \in Period, NEW s \in Student, NEW u \in Utr,
             NEW amount \in Totals, SubmitLock(w, p, s, u, amount)
      PROVE  LockInv'
  BY <1>4, <1>t DEF SubmitLock, Begin, PeriodRowFree
<1>5. ASSUME NEW w \in Session, NEW p \in Period, NEW s \in Student, NEW r \in Revision,
             NEW d \in {"VERIFIED", "REJECTED"}, ReviewLock(w, p, s, r, d)
      PROVE  LockInv'
  BY <1>5, <1>t DEF ReviewLock, Begin, PaymentRowFree, PaymentKey
<1>6. ASSUME NEW w \in Session, Finish(w) \/ Rollback(w) \/ DeadlockCancel(w)
      PROVE  LockInv'
  BY <1>6, <1>e DEF Finish, EditCommit, PublishCommit, UnpublishCommit, SubmitCommit,
     SubmitRefuse, ReviewCommit, ReviewRefuse, Rollback, DeadlockCancel
<1>7. ASSUME \/ \E p \in Period : MonthEnds(p)
             \/ \E s \in Student : CohortChange(s)
             \/ \E a \in Admin, p \in Period, f \in Figure : PreviewBills(a, p, f)
             \/ UNCHANGED vars
      PROVE  LockInv'
  BY <1>7, <1>u DEF MonthEnds, CohortChange, PreviewBills, vars
<1> HIDE DEF LockInv
<1>8. QED
  BY <1>1, <1>2, <1>3, <1>4, <1>5, <1>6, <1>7 DEF Next, Start

(***************************************************************************)
(* Nobody changes the row, the month's data or the payment that a request  *)
(* in progress has locked.                                                 *)
(***************************************************************************)
LEMMA RequestStep ==
    ASSUME TypeOK, LockInv, RequestInv, [Next]_vars, NEW v \in Session
    PROVE  RequestOK(v)'
<1>t. /\ tx \in [Session -> Request]
      /\ tx[v] \in Request
      /\ RequestOK(v)
  BY DEF TypeOK, RequestInv
<1>i. ASSUME tx'[v] = Idle
      PROVE  RequestOK(v)'
  BY <1>i DEF RequestOK, Idle
<1>k. ASSUME tx'[v] = tx[v], UNCHANGED <<book, input>>
      PROVE  RequestOK(v)'
  BY <1>k, <1>t DEF RequestOK, QuoteOK, InForce, PaymentKey, book
<1>1. ASSUME NEW w \in Session, NEW p \in Period, NEW x \in BOOLEAN, EditLock(w, p, x)
      PROVE  RequestOK(v)'
  <2>1. CASE v = w
    BY <1>1, <1>t, <2>1 DEF EditLock, Begin, RequestOK, book
  <2>2. CASE v # w
    BY <1>1, <1>t, <1>k, <2>2 DEF EditLock, Begin, book
  <2>3. QED
    BY <2>1, <2>2
<1>2. ASSUME NEW w \in Session, NEW a \in Admin, NEW p \in Period, NEW f \in Figure,
             PublishRecheck(w, a, p, f)
      PROVE  RequestOK(v)'
  <2>1. CASE v = w
    <3>1. QuoteOK(Recompute(p, f), p)
      BY DEF QuoteOK, Recompute, NextRevision
    <3>2. /\ tx'[v] = [op |-> "publish", period |-> p, quote |-> Recompute(p, f),
                       token |-> Recompute(p, f)]
          /\ ~period[p].published
          /\ UNCHANGED <<period, input>>
      BY <1>2, <1>t, <2>1 DEF PublishRecheck, Begin, TokenMatches, book
    <3>3. QED
      BY <3>1, <3>2 DEF RequestOK, QuoteOK
  <2>2. CASE v # w
    BY <1>2, <1>t, <1>k, <2>2 DEF PublishRecheck, Begin, book
  <2>3. QED
    BY <2>1, <2>2
<1>3. ASSUME NEW w \in Session, NEW p \in Period, UnpublishCheck(w, p)
      PROVE  RequestOK(v)'
  <2>1. CASE v = w
    BY <1>3, <1>t, <2>1 DEF UnpublishCheck, Begin, RequestOK, book
  <2>2. CASE v # w
    BY <1>3, <1>t, <1>k, <2>2 DEF UnpublishCheck, Begin, book
  <2>3. QED
    BY <2>1, <2>2
<1>4. ASSUME NEW w \in Session, NEW p \in Period, NEW s \in Student, NEW u \in Utr,
             NEW amount \in Totals, SubmitLock(w, p, s, u, amount)
      PROVE  RequestOK(v)'
  <2>1. CASE v = w
    <3>1. PICK bill \in snapshots :
             bill = [period |-> p, revision |-> period[p].revision, student |-> s,
                     total |-> amount]
      BY <1>4 DEF SubmitLock, InvoiceIssued, TypeOK, Snapshot
    <3>2. QED
      BY <1>4, <1>t, <2>1, <3>1 DEF SubmitLock, Begin, RequestOK, InForce, book
  <2>2. CASE v # w
    BY <1>4, <1>t, <1>k, <2>2 DEF SubmitLock, Begin, book
  <2>3. QED
    BY <2>1, <2>2
<1>5. ASSUME NEW w \in Session, NEW p \in Period, NEW s \in Student, NEW r \in Revision,
             NEW d \in {"VERIFIED", "REJECTED"}, ReviewLock(w, p, s, r, d)
      PROVE  RequestOK(v)'
  <2>1. CASE v = w
    BY <1>5, <1>t, <2>1 DEF ReviewLock, Begin, RequestOK, PaymentKey, book
  <2>2. CASE v # w
    BY <1>5, <1>t, <1>k, <2>2 DEF ReviewLock, Begin, book
  <2>3. QED
    BY <2>1, <2>2
<1>6. ASSUME NEW w \in Session, NEW i \in Input, EditCommit(w, i), v # w
      PROVE  RequestOK(v)'
  <2>1. tx[w] \in Editing /\ tx[w].period \in Period
    BY <1>6, RequestKinds DEF EditCommit, TypeOK, Editing
  <2>2. ~HoldsExclusive(v, tx[w].period) \/ tx[v].op = "edit"
    BY <1>6, <2>1 DEF LockInv, HoldsExclusive, HoldsShared, EditCommit, Editing
  <2>3. tx[v].op = "publish" => tx[v].period # tx[w].period /\ tx[v].period \in Period
    BY <2>2, <1>t, RequestKinds DEF HoldsExclusive, Publishing
  <2>4. QED
    BY <1>6, <1>t, <2>3 DEF EditCommit, End, RequestOK, QuoteOK, InForce, PaymentKey, book, TypeOK
<1>7. ASSUME NEW w \in Session, PublishCommit(w) \/ UnpublishCommit(w), v # w
      PROVE  RequestOK(v)'
  <2>1. tx[w].period \in Period /\ HoldsExclusive(w, tx[w].period)
    BY <1>7, RequestKinds DEF PublishCommit, UnpublishCommit, TypeOK, Publishing,
       Unpublishing, HoldsExclusive
  <2>2. ~HoldsExclusive(v, tx[w].period) /\ ~HoldsShared(v, tx[w].period)
    BY <1>7, <2>1 DEF LockInv
  <2>3. tx[v].op \in {"publish", "unpublish", "edit", "submit"} => tx[v].period # tx[w].period
    BY <1>7, <2>2 DEF HoldsExclusive, HoldsShared, PublishCommit, UnpublishCommit, PeriodRowFree
  <2>4. \A p \in Period : p # tx[w].period => period'[p] = period[p]
    BY <1>7 DEF PublishCommit, UnpublishCommit, TypeOK
  <2>5. tx[v].op \in {"publish", "unpublish", "edit", "submit"} => tx[v].period \in Period
    BY <1>t, RequestKinds DEF Publishing, Unpublishing, Editing, Submitting
  <2>6. tx'[v] = tx[v] /\ snapshots \subseteq snapshots' /\ UNCHANGED <<payments, input>>
    BY <1>7, <1>t DEF PublishCommit, UnpublishCommit, End
  <2>7. tx[v].op \in {"publish", "unpublish", "edit", "submit"} =>
            period'[tx[v].period] = period[tx[v].period]
    BY <2>3, <2>4, <2>5
  <2>8. QED
    BY <1>t, <2>6, <2>7 DEF RequestOK, QuoteOK, InForce, PaymentKey
<1>8. ASSUME NEW w \in Session, SubmitCommit(w) \/ ReviewCommit(w), v # w
      PROVE  RequestOK(v)'
  <2>1. tx[v].op = "review" => PaymentKey(tx[v]) # PaymentKey(tx[w])
    BY <1>8 DEF SubmitCommit, ReviewCommit, PaymentRowFree, LockInv
  <2>2. tx[v].op = "review" => PaymentKey(tx[v]) \in Period \X Student \X Revision
    BY <1>t, RequestKinds DEF Reviewing, PaymentKey
  <2>3. tx'[v] = tx[v] /\ UNCHANGED <<period, snapshots, input>>
    BY <1>8, <1>t DEF SubmitCommit, ReviewCommit, End
  <2>4. tx[v].op = "review" => payments'[PaymentKey(tx[v])] = payments[PaymentKey(tx[v])]
    BY <1>8, <2>1, <2>2 DEF SubmitCommit, ReviewCommit, TypeOK
  <2>5. QED
    BY <1>t, <2>3, <2>4 DEF RequestOK, QuoteOK, InForce, PaymentKey
<1>9. ASSUME NEW w \in Session,
             Finish(w) \/ Rollback(w) \/ DeadlockCancel(w), v = w
      PROVE  RequestOK(v)'
  BY <1>9, <1>t, <1>i DEF Finish, EditCommit, PublishCommit, UnpublishCommit, SubmitCommit,
     SubmitRefuse, ReviewCommit, ReviewRefuse, Rollback, DeadlockCancel, End
<1>10. ASSUME NEW w \in Session,
              SubmitRefuse(w) \/ ReviewRefuse(w) \/ Rollback(w) \/ DeadlockCancel(w), v # w
       PROVE  RequestOK(v)'
  BY <1>10, <1>t, <1>k DEF SubmitRefuse, ReviewRefuse, Rollback, DeadlockCancel, End
<1>11. ASSUME \/ \E p \in Period : MonthEnds(p)
              \/ \E s \in Student : CohortChange(s)
              \/ \E a \in Admin, p \in Period, f \in Figure : PreviewBills(a, p, f)
              \/ UNCHANGED vars
       PROVE  RequestOK(v)'
  BY <1>11, <1>k DEF MonthEnds, CohortChange, PreviewBills, vars, book
<1>12. QED
  BY <1>1, <1>2, <1>3, <1>4, <1>5, <1>6, <1>7, <1>8, <1>9, <1>10, <1>11 DEF Next, Start, Finish

(***************************************************************************)
(* What the steps do to the book and the billing data: only an edit that   *)
(* commits changes the data, and every step but a commit of publish,       *)
(* unpublish, submit or review leaves the book alone.                      *)
(***************************************************************************)
BookCommit(w) ==
    PublishCommit(w) \/ UnpublishCommit(w) \/ SubmitCommit(w) \/ ReviewCommit(w)

LEMMA StepEffect ==
    ASSUME [Next]_vars
    PROVE  \/ UNCHANGED <<book, input>>
           \/ \E w \in Session, i \in Input : EditCommit(w, i) /\ UNCHANGED book
           \/ \E w \in Session : BookCommit(w) /\ UNCHANGED input
<1>1. ASSUME NEW w \in Session, Start(w)
      PROVE  UNCHANGED <<book, input>>
  BY <1>1 DEF Start, EditLock, PublishRecheck, UnpublishCheck, SubmitLock, ReviewLock
<1>2. ASSUME NEW w \in Session,
             SubmitRefuse(w) \/ ReviewRefuse(w) \/ Rollback(w) \/ DeadlockCancel(w)
      PROVE  UNCHANGED <<book, input>>
  BY <1>2 DEF SubmitRefuse, ReviewRefuse, Rollback, DeadlockCancel
<1>3. ASSUME \/ \E p \in Period : MonthEnds(p)
             \/ \E s \in Student : CohortChange(s)
             \/ \E a \in Admin, p \in Period, f \in Figure : PreviewBills(a, p, f)
             \/ UNCHANGED vars
      PROVE  UNCHANGED <<book, input>>
  BY <1>3 DEF MonthEnds, CohortChange, PreviewBills, vars, book
<1>4. ASSUME NEW w \in Session, NEW i \in Input, EditCommit(w, i)
      PROVE  UNCHANGED book
  BY <1>4 DEF EditCommit
<1>5. ASSUME NEW w \in Session, BookCommit(w)
      PROVE  UNCHANGED input
  BY <1>5 DEF BookCommit, PublishCommit, UnpublishCommit, SubmitCommit, ReviewCommit
<1>6. QED
  BY <1>1, <1>2, <1>3, <1>4, <1>5 DEF Next, Finish, BookCommit

\* A commit of publish, in terms of the month and the quote it publishes.
Publishes(w, p, q) ==
    /\ p = tx[w].period /\ q = tx[w].quote /\ q = tx[w].token
    /\ ~period[p].published
    /\ QuoteOK(q, p)
    /\ q.revision \in Revision
    /\ q.billed \in SUBSET Student
    /\ q.figures \in Figure
    /\ q.totals \in [Student -> Nat]
    /\ period' = [period EXCEPT ![p] = [revision |-> q.revision, published |-> TRUE]]
    /\ snapshots' = snapshots \cup InvoiceRows(q)
    /\ UNCHANGED <<payments, input>>

LEMMA PublishEffect ==
    ASSUME TypeOK, RequestInv, NEW w \in Session, PublishCommit(w)
    PROVE  \E p \in Period, q \in Quote : Publishes(w, p, q)
<1>1. tx[w] \in Publishing
  BY RequestKinds DEF TypeOK, PublishCommit
<1>2. RequestOK(w)
  BY DEF RequestInv
<1>3. tx[w].period \in Period /\ tx[w].quote \in Quote
  BY <1>1 DEF Publishing
<1>4. PICK p \in Period, q \in Quote : p = tx[w].period /\ q = tx[w].quote
  BY <1>3
<1>5. q \in Preview /\ q.revision \in Revision
  BY DEF Quote
<1>6. q = tx[w].token /\ ~period[p].published /\ QuoteOK(q, p)
  BY <1>2, <1>4 DEF PublishCommit, RequestOK
<1>7. q.billed \in SUBSET Student /\ q.figures \in Figure /\ q.totals \in [Student -> Nat]
  BY <1>5 DEF Preview
<1>8. /\ period' = [period EXCEPT ![p] = [revision |-> q.revision, published |-> TRUE]]
      /\ snapshots' = snapshots \cup InvoiceRows(q)
      /\ UNCHANGED <<payments, input>>
  BY <1>4 DEF PublishCommit
<1>9. QED
  BY <1>4, <1>5, <1>6, <1>7, <1>8 DEF Publishes

\* The same for submit: the row it writes matches an invoice already issued.
LEMMA SubmitEffect ==
    ASSUME TypeOK, RequestInv, NEW w \in Session, SubmitCommit(w)
    PROVE  \E p \in Period, s \in Student, r \in Revision, u \in Utr, amount \in Nat :
              /\ period[p].published /\ period[p].revision = r
              /\ [period |-> p, revision |-> r, student |-> s, total |-> amount] \in snapshots
              /\ ~Active(<<p, s, r>>) /\ ~UtrTaken(u, <<p, s, r>>)
              /\ payments' = [payments EXCEPT ![<<p, s, r>>] =
                    [status |-> "PENDING", utr |-> u, amount |-> amount]]
              /\ UNCHANGED <<period, snapshots, input>>
<1>1. tx[w] \in Submitting
  BY RequestKinds DEF TypeOK, SubmitCommit
<1>2. RequestOK(w)
  BY DEF RequestInv
<1>3. QED
  BY <1>1, <1>2 DEF SubmitCommit, Submitting, RequestOK, InForce, PaymentKey

\* The same for review: the row was pending, and only its status changes.
LEMMA ReviewEffect ==
    ASSUME TypeOK, RequestInv, NEW w \in Session, ReviewCommit(w)
    PROVE  \E p \in Period, s \in Student, r \in Revision, d \in {"VERIFIED", "REJECTED"} :
              /\ period[p].published /\ period[p].revision = r
              /\ payments[<<p, s, r>>].status = "PENDING"
              /\ payments' = [payments EXCEPT ![<<p, s, r>>] =
                    [status |-> d, utr |-> payments[<<p, s, r>>].utr,
                     amount |-> payments[<<p, s, r>>].amount]]
              /\ UNCHANGED <<period, snapshots, input>>
<1>1. tx[w] \in Reviewing
  BY RequestKinds DEF TypeOK, ReviewCommit
<1>2. RequestOK(w)
  BY DEF RequestInv
<1>3. QED
  BY <1>1, <1>2 DEF ReviewCommit, Reviewing, RequestOK, InForce, PaymentKey

\* The same for unpublish, of a month that is published.
LEMMA UnpublishEffect ==
    ASSUME TypeOK, RequestInv, NEW w \in Session, UnpublishCommit(w)
    PROVE  \E p \in Period :
              /\ period[p].published
              /\ period' = [period EXCEPT ![p].published = FALSE]
              /\ UNCHANGED <<snapshots, payments, input>>
<1>1. tx[w] \in Unpublishing
  BY RequestKinds DEF TypeOK, UnpublishCommit
<1>2. QED
  BY <1>1 DEF UnpublishCommit, Unpublishing, RequestInv, RequestOK

\* An edit in progress is for a month that is not published.
LEMMA EditEffect ==
    ASSUME TypeOK, RequestInv, NEW w \in Session, NEW i \in Input, EditCommit(w, i)
    PROVE  \E p \in Period :
              /\ ~period[p].published
              /\ input' = [input EXCEPT ![p] = i]
              /\ UNCHANGED book
<1>1. tx[w] \in Editing
  BY RequestKinds DEF TypeOK, EditCommit
<1>2. QED
  BY <1>1 DEF EditCommit, Editing, RequestInv, RequestOK

LEMMA BoundedStep ==
    ASSUME TypeOK, RequestInv, SnapshotsBounded, [Next]_vars
    PROVE  SnapshotsBounded'
<1>1. CASE UNCHANGED book
  BY <1>1 DEF SnapshotsBounded, book
<1>2. ASSUME NEW w \in Session, PublishCommit(w)
      PROVE  SnapshotsBounded'
  <2>1. PICK p \in Period, q \in Quote : Publishes(w, p, q)
    BY <1>2, PublishEffect
  <2> USE DEF Publishes
  <2>2. \A bill \in InvoiceRows(q) : bill.period = p /\ bill.revision = q.revision
    BY <2>1 DEF InvoiceRows, QuoteOK
  <2>3. \A r \in Period : period'[r].revision \in Nat /\ period[r].revision <= period'[r].revision
    BY <2>1, BoundAssumption DEF TypeOK, QuoteOK, Revision
  <2>4. \A bill \in snapshots : bill.period \in Period /\ bill.revision \in Nat
    BY DEF TypeOK, Snapshot, Revision
  <2>5. \A bill \in snapshots : bill.revision <= period'[bill.period].revision
    BY <2>3, <2>4, BoundAssumption DEF SnapshotsBounded, TypeOK
  <2>6. \A bill \in InvoiceRows(q) : bill.revision <= period'[bill.period].revision
    BY <2>1, <2>2, BoundAssumption DEF TypeOK, Revision
  <2>7. QED
    BY <2>1, <2>5, <2>6 DEF SnapshotsBounded
<1>3. ASSUME NEW w \in Session, UnpublishCommit(w)
      PROVE  SnapshotsBounded'
  <2>1. PICK p \in Period : /\ period' = [period EXCEPT ![p].published = FALSE]
                            /\ UNCHANGED snapshots
    BY <1>3, UnpublishEffect
  <2>2. \A r \in Period : period'[r].revision = period[r].revision
    BY <2>1 DEF TypeOK
  <2>3. QED
    BY <2>1, <2>2 DEF SnapshotsBounded, TypeOK, Snapshot
<1>4. ASSUME NEW w \in Session, SubmitCommit(w) \/ ReviewCommit(w)
      PROVE  SnapshotsBounded'
  BY <1>4 DEF SubmitCommit, ReviewCommit, SnapshotsBounded
<1>5. QED
  BY <1>1, <1>2, <1>3, <1>4, StepEffect DEF BookCommit

LEMMA PaymentStep ==
    ASSUME TypeOK, RequestInv, PaymentMatchesInvoice, [Next]_vars
    PROVE  PaymentMatchesInvoice'
<1> USE DEF PaymentMatchesInvoice
<1>t. DOMAIN payments = Period \X Student \X Revision
  BY DEF TypeOK
<1>1. CASE UNCHANGED payments /\ snapshots \subseteq snapshots'
  BY <1>1
<1>2. ASSUME NEW w \in Session, PublishCommit(w) \/ UnpublishCommit(w)
      PROVE  PaymentMatchesInvoice'
  BY <1>1, <1>2 DEF PublishCommit, UnpublishCommit
<1>3. ASSUME NEW w \in Session, SubmitCommit(w)
      PROVE  PaymentMatchesInvoice'
  <2>1. PICK p \in Period, s \in Student, r \in Revision, u \in Utr, amount \in Nat :
           /\ [period |-> p, revision |-> r, student |-> s, total |-> amount] \in snapshots
           /\ payments' = [payments EXCEPT ![<<p, s, r>>] =
                 [status |-> "PENDING", utr |-> u, amount |-> amount]]
           /\ UNCHANGED snapshots
    BY <1>3, SubmitEffect
  <2>2. QED
    BY <1>t, <2>1
<1>4. ASSUME NEW w \in Session, ReviewCommit(w)
      PROVE  PaymentMatchesInvoice'
  <2>1. PICK p \in Period, s \in Student, r \in Revision, d \in {"VERIFIED", "REJECTED"} :
           /\ payments[<<p, s, r>>].status = "PENDING"
           /\ payments' = [payments EXCEPT ![<<p, s, r>>] =
                 [status |-> d, utr |-> payments[<<p, s, r>>].utr,
                  amount |-> payments[<<p, s, r>>].amount]]
           /\ UNCHANGED snapshots
    BY <1>4, ReviewEffect
  <2>2. \A k \in DOMAIN payments : k # <<p, s, r>> => payments'[k] = payments[k]
    BY <1>t, <2>1
  <2>3. payments'[<<p, s, r>>].amount = payments[<<p, s, r>>].amount
    BY <1>t, <2>1
  <2>4. DOMAIN payments' = DOMAIN payments
    BY <1>t, <2>1
  <2>5. QED
    BY <1>t, <2>1, <2>2, <2>3, <2>4
<1>5. QED
  BY <1>1, <1>2, <1>3, <1>4, StepEffect DEF BookCommit, book

LEMMA UtrStep ==
    ASSUME TypeOK, RequestInv, UtrOnOnePayment, [Next]_vars
    PROVE  UtrOnOnePayment'
<1>t. DOMAIN payments = Period \X Student \X Revision
  BY DEF TypeOK
<1>1. CASE UNCHANGED payments
  BY <1>1 DEF UtrOnOnePayment
<1>2. ASSUME NEW w \in Session, PublishCommit(w) \/ UnpublishCommit(w)
      PROVE  UtrOnOnePayment'
  BY <1>1, <1>2 DEF PublishCommit, UnpublishCommit
<1>3. ASSUME NEW w \in Session, SubmitCommit(w)
      PROVE  UtrOnOnePayment'
  <2>1. PICK p \in Period, s \in Student, r \in Revision, u \in Utr, amount \in Nat :
           /\ ~UtrTaken(u, <<p, s, r>>)
           /\ payments' = [payments EXCEPT ![<<p, s, r>>] =
                 [status |-> "PENDING", utr |-> u, amount |-> amount]]
    BY <1>3, SubmitEffect
  <2>2. \A j \in DOMAIN payments : j # <<p, s, r>> =>
           /\ payments'[j] = payments[j]
           /\ payments[j].status # "NONE" => payments[j].utr # u
    BY <1>t, <2>1 DEF UtrTaken
  <2>3. payments'[<<p, s, r>>].utr = u /\ DOMAIN payments' = DOMAIN payments
    BY <1>t, <2>1
  <2>4. ASSUME NEW j \in DOMAIN payments', NEW k \in DOMAIN payments',
               payments'[j].status # "NONE", payments'[k].status # "NONE",
               payments'[j].utr = payments'[k].utr
        PROVE  j = k
    <3>1. CASE j = <<p, s, r>> \/ k = <<p, s, r>>
      BY <2>2, <2>3, <2>4, <3>1 DEF UtrOnOnePayment
    <3>2. CASE j # <<p, s, r>> /\ k # <<p, s, r>>
      BY <2>2, <2>3, <2>4, <3>2 DEF UtrOnOnePayment
    <3>3. QED
      BY <3>1, <3>2
  <2>5. QED
    BY <2>4 DEF UtrOnOnePayment
<1>4. ASSUME NEW w \in Session, ReviewCommit(w)
      PROVE  UtrOnOnePayment'
  <2>1. PICK p \in Period, s \in Student, r \in Revision, d \in {"VERIFIED", "REJECTED"} :
           /\ payments[<<p, s, r>>].status = "PENDING"
           /\ payments' = [payments EXCEPT ![<<p, s, r>>] =
                 [status |-> d, utr |-> payments[<<p, s, r>>].utr,
                  amount |-> payments[<<p, s, r>>].amount]]
           /\ UNCHANGED snapshots
    BY <1>4, ReviewEffect
  <2>2. \A k \in DOMAIN payments : payments'[k].status # "NONE" =>
           payments[k].status # "NONE" /\ payments'[k].utr = payments[k].utr
    BY <1>t, <2>1
  <2>3. DOMAIN payments' = DOMAIN payments
    BY <1>t, <2>1
  <2>4. QED
    BY <2>2, <2>3 DEF UtrOnOnePayment
<1>5. QED
  BY <1>1, <1>2, <1>3, <1>4, StepEffect DEF BookCommit, book

(***************************************************************************)
(* Publish adds invoices under the revision it moves the month to, which   *)
(* no invoice carried before; the invoices of every other month and of     *)
(* every earlier revision stay as they are.                                *)
(***************************************************************************)
LEMMA PublishInvoices ==
    ASSUME TypeOK, SnapshotsBounded, NEW p \in Period, NEW q \in Quote, QuoteOK(q, p),
           snapshots' = snapshots \cup InvoiceRows(q)
    PROVE  /\ InvoicesOf(p, q.revision)' = InvoiceRows(q)
           /\ \A o \in Period, r \in Nat :
                 o # p \/ r <= period[o].revision => InvoicesOf(o, r)' = InvoicesOf(o, r)
<1>1. \A bill \in InvoiceRows(q) : bill.period = p /\ bill.revision = q.revision
  BY DEF InvoiceRows, QuoteOK
<1>2. period[p].revision \in Nat /\ q.revision = period[p].revision + 1
  BY BoundAssumption DEF TypeOK, QuoteOK
<1>3. \A bill \in snapshots : bill.revision \in Nat
  BY DEF TypeOK, Snapshot, Revision
<1>4. \A bill \in snapshots : bill.period = p => bill.revision # q.revision
  BY <1>2, <1>3 DEF SnapshotsBounded
<1>5. InvoicesOf(p, q.revision)' = InvoiceRows(q)
  BY <1>1, <1>4 DEF InvoicesOf
<1>6. ASSUME NEW o \in Period, NEW r \in Nat, o # p \/ r <= period[o].revision
      PROVE  InvoicesOf(o, r)' = InvoicesOf(o, r)
  <2>1. \A bill \in InvoiceRows(q) : ~(bill.period = o /\ bill.revision = r)
    BY <1>1, <1>2, <1>6
  <2>2. QED
    BY <2>1 DEF InvoicesOf
<1>7. QED
  BY <1>5, <1>6

\* The invoices that set of rows S holds for revision r of p are computed from i.
Computed(S, p, r, i) ==
    \E f \in Figure, c \in SUBSET Student :
        {bill \in S : bill.period = p /\ bill.revision = r} =
            InvoiceRows([period |-> p, revision |-> r, billed |-> c,
                         totals |-> GrandTotals(f, i, c)])

LEMMA ReflectStep ==
    ASSUME TypeOK, RequestInv, SnapshotsBounded, PublishedReflectsInputs, [Next]_vars
    PROVE  PublishedReflectsInputs'
<1>r. \A p \in Period :
          period[p].published => Computed(snapshots, p, period[p].revision, input[p])
  BY DEF PublishedReflectsInputs, Computed, InvoicesOf
<1> SUFFICES ASSUME NEW p \in Period, period'[p].published
             PROVE  Computed(snapshots', p, period'[p].revision, input'[p])
  BY DEF PublishedReflectsInputs, Computed, InvoicesOf
<1>1. CASE UNCHANGED <<book, input>>
  BY <1>1, <1>r DEF book
<1>2. ASSUME NEW w \in Session, NEW i \in Input, EditCommit(w, i)
      PROVE  Computed(snapshots', p, period'[p].revision, input'[p])
  <2>1. PICK o \in Period : /\ ~period[o].published
                            /\ input' = [input EXCEPT ![o] = i]
                            /\ UNCHANGED book
    BY <1>2, EditEffect
  <2>2. p # o
    BY <2>1 DEF book
  <2>3. input'[p] = input[p]
    BY <2>1, <2>2 DEF TypeOK
  <2>4. QED
    BY <2>1, <2>3, <1>r DEF book
<1>3. ASSUME NEW w \in Session, PublishCommit(w)
      PROVE  Computed(snapshots', p, period'[p].revision, input'[p])
  <2>1. PICK o \in Period, q \in Quote : Publishes(w, o, q)
    BY <1>3, PublishEffect
  <2> USE DEF Publishes
  <2>2. /\ InvoicesOf(o, q.revision)' = InvoiceRows(q)
        /\ \A x \in Period, r \in Nat :
              x # o \/ r <= period[x].revision => InvoicesOf(x, r)' = InvoicesOf(x, r)
    BY <2>1, PublishInvoices
  <2>3. CASE p = o
    <3>1. period'[p].revision = q.revision
      BY <2>1, <2>3 DEF TypeOK
    <3>2. InvoiceRows(q) = InvoiceRows([period |-> p, revision |-> q.revision,
              billed |-> q.billed, totals |-> GrandTotals(q.figures, input[p], q.billed)])
      BY <2>1, <2>3 DEF InvoiceRows, QuoteOK
    <3>3. Computed(snapshots', p, q.revision, input[p])
      BY <2>1, <2>2, <2>3, <3>2 DEF Computed, InvoicesOf
    <3>4. QED
      BY <2>1, <3>1, <3>3
  <2>4. CASE p # o
    <3>1. period'[p] = period[p] /\ input'[p] = input[p]
      BY <2>1, <2>4 DEF TypeOK
    <3>2. period[p].revision \in Nat
      BY BoundAssumption DEF TypeOK
    <3>3. {bill \in snapshots' : bill.period = p /\ bill.revision = period[p].revision} =
          {bill \in snapshots : bill.period = p /\ bill.revision = period[p].revision}
      BY <2>2, <2>4, <3>2 DEF InvoicesOf
    <3>4. QED
      BY <1>r, <3>1, <3>3 DEF Computed
  <2>5. QED
    BY <2>3, <2>4
<1>4. ASSUME NEW w \in Session, UnpublishCommit(w)
      PROVE  Computed(snapshots', p, period'[p].revision, input'[p])
  <2>1. PICK o \in Period :
           /\ period[o].published
           /\ period' = [period EXCEPT ![o].published = FALSE]
           /\ UNCHANGED <<snapshots, payments, input>>
    BY <1>4, UnpublishEffect
  <2>2. period'[p] = period[p]
    BY <2>1 DEF TypeOK
  <2>3. QED
    BY <1>r, <2>1, <2>2
<1>5. ASSUME NEW w \in Session, SubmitCommit(w) \/ ReviewCommit(w)
      PROVE  Computed(snapshots', p, period'[p].revision, input'[p])
  BY <1>5, <1>1, <1>r, StepEffect DEF SubmitCommit, ReviewCommit
<1>6. QED
  BY <1>1, <1>2, <1>3, <1>4, <1>5, StepEffect DEF BookCommit

LEMMA Invariance == Spec => []IInv
<1>1. IInv /\ [Next]_vars => IInv'
  BY TypeStep, LockStep, RequestStep, BoundedStep, PaymentStep, UtrStep, ReflectStep
     DEF IInv, BookInv, RequestInv
<1>2. QED
  BY InvInit, <1>1, PTL DEF Spec

------------------------------------------------------------------------------
\* Every variable keeps its type, and requests in progress stay well-formed.
THEOREM TypeCorrect == Spec => []TypeOK
<1>1. IInv => TypeOK
  BY DEF IInv
<1>2. QED
  BY Invariance, <1>1, PTL

(***************************************************************************)
(* submit_payment accepts only the exact total of an issued invoice, and   *)
(* neither a reopening nor a later revision changes what a payment is for. *)
(***************************************************************************)
THEOREM PaymentsAreForInvoices == Spec => []PaymentMatchesInvoice
<1>1. IInv => PaymentMatchesInvoice
  BY DEF IInv, BookInv
<1>2. QED
  BY Invariance, <1>1, PTL

\* No two payment rows ever carry the same bank reference.
THEOREM UtrsAreUnique == Spec => []UtrOnOnePayment
<1>1. IInv => UtrOnOnePayment
  BY DEF IInv, BookInv
<1>2. QED
  BY Invariance, <1>1, PTL

(***************************************************************************)
(* The advisory lock makes publication atomic with respect to the writers  *)
(* that take it: a published month's invoices agree with its stored data.  *)
(***************************************************************************)
THEOREM PublishedDataIsFrozen == Spec => []PublishedReflectsInputs
<1>1. IInv => PublishedReflectsInputs
  BY DEF IInv, BookInv
<1>2. QED
  BY Invariance, <1>1, PTL

\* publish issues exactly the invoices of the preview whose token came back.
THEOREM PublishesWhatWasReviewed == Spec => PublishedAsReviewed
<1>1. ASSUME IInv, [Next]_vars, NEW w \in Session,
             tx[w].op = "publish", period'[tx[w].period] # period[tx[w].period]
      PROVE  snapshots' \ snapshots = InvoiceRows(tx[w].token)
  <2>1. tx[w].period \in Period /\ HoldsExclusive(w, tx[w].period)
    BY <1>1, RequestKinds DEF IInv, TypeOK, Publishing, HoldsExclusive
  <2>2. PICK v \in Session : PublishCommit(v) \/ UnpublishCommit(v)
    BY <1>1, StepEffect DEF BookCommit, book, SubmitCommit, ReviewCommit
  <2>3. tx[v].period = tx[w].period
    BY <1>1, <2>1, <2>2 DEF PublishCommit, UnpublishCommit, IInv, TypeOK
  <2>4. HoldsExclusive(v, tx[w].period)
    BY <2>2, <2>3 DEF PublishCommit, UnpublishCommit, HoldsExclusive
  <2>5. v = w
    BY <1>1, <2>1, <2>4 DEF IInv, LockInv
  <2>6. PublishCommit(w)
    BY <1>1, <2>2, <2>5 DEF UnpublishCommit
  <2>7. PICK p \in Period, q \in Quote : Publishes(w, p, q)
    BY <1>1, <2>6, PublishEffect DEF IInv
  <2> USE DEF Publishes
  <2>8. \A bill \in InvoiceRows(q) : bill.period = p /\ bill.revision = q.revision
    BY <2>7 DEF InvoiceRows, QuoteOK
  <2>9. \A bill \in snapshots : bill.period = p => bill.revision # q.revision
    BY <1>1, <2>7, BoundAssumption
       DEF IInv, BookInv, SnapshotsBounded, TypeOK, Snapshot, Revision, QuoteOK
  <2>10. QED
    BY <2>7, <2>8, <2>9
<1>2. IInv /\ [Next]_vars =>
        [\A w \in Session :
            tx[w].op = "publish" /\ period'[tx[w].period] # period[tx[w].period] =>
                snapshots' \ snapshots = InvoiceRows(tx[w].token)]_vars
  BY <1>1
<1>3. QED
  BY Invariance, <1>2, PTL DEF Spec, PublishedAsReviewed

\* The invoices of a revision are never altered, removed or added to.
THEOREM InvoicesAreImmutable == Spec => IssuedInvoicesFixed
<1>1. ASSUME IInv, [Next]_vars, NEW p \in Period, NEW r \in 1..period[p].revision
      PROVE  InvoicesOf(p, r)' = InvoicesOf(p, r)
  <2>1. CASE UNCHANGED snapshots
    BY <2>1 DEF InvoicesOf
  <2>2. ASSUME NEW w \in Session, PublishCommit(w)
        PROVE  InvoicesOf(p, r)' = InvoicesOf(p, r)
    <3>1. PICK o \in Period, q \in Quote : Publishes(w, o, q)
      BY <1>1, <2>2, PublishEffect DEF IInv
    <3> USE DEF Publishes
    <3>2. r \in Nat /\ r <= period[p].revision
      BY <1>1, BoundAssumption DEF IInv, TypeOK
    <3>3. \A x \in Period, n \in Nat :
              x # o \/ n <= period[x].revision => InvoicesOf(x, n)' = InvoicesOf(x, n)
      BY <1>1, <3>1, PublishInvoices DEF IInv, BookInv
    <3>4. QED
      BY <3>2, <3>3
  <2>3. QED
    BY <1>1, <2>1, <2>2, StepEffect
       DEF BookCommit, book, UnpublishCommit, SubmitCommit, ReviewCommit
<1>2. IInv /\ [Next]_vars =>
        [\A p \in Period : \A r \in 1..period[p].revision :
            InvoicesOf(p, r)' = InvoicesOf(p, r)]_vars
  BY <1>1
<1>3. QED
  BY Invariance, <1>2, PTL DEF Spec, IssuedInvoicesFixed

\* submit_payment and review_payment never touch a verified payment.
THEOREM VerifiedPaymentsAreFinal == Spec => VerifiedIsFinal
<1>1. ASSUME IInv, [Next]_vars, NEW k \in DOMAIN payments, payments[k].status = "VERIFIED"
      PROVE  payments'[k] = payments[k]
  <2>1. ASSUME NEW w \in Session, SubmitCommit(w)
        PROVE  payments'[k] = payments[k]
    BY <1>1, <2>1 DEF SubmitCommit, Active, IInv, TypeOK
  <2>2. ASSUME NEW w \in Session, ReviewCommit(w)
        PROVE  payments'[k] = payments[k]
    BY <1>1, <2>2 DEF ReviewCommit, IInv, TypeOK, RequestInv, RequestOK
  <2>3. QED
    BY <1>1, <2>1, <2>2, StepEffect DEF BookCommit, book, PublishCommit, UnpublishCommit
<1>2. IInv /\ [Next]_vars =>
        [\A k \in DOMAIN payments :
            payments[k].status = "VERIFIED" => payments'[k] = payments[k]]_vars
  BY <1>1
<1>3. QED
  BY Invariance, <1>2, PTL DEF Spec, VerifiedIsFinal

(***************************************************************************)
(* With sessions and locks hidden, every step of billing is a step of the  *)
(* book of invoices or changes nothing in it.                              *)
(***************************************************************************)
THEOREM RefinesInvoiceBook == Spec => ImplementsInvoiceBook
<1> USE DEF Book!Revision, Revision
<1>1. Init => Book!Init
  BY DEF Init, Book!Init, NoPayment, Book!NoPayment
<1>2. ASSUME IInv, [Next]_vars
      PROVE  [Book!Next]_(Book!bookVars)
  <2>1. CASE UNCHANGED book
    BY <2>1 DEF book, Book!bookVars
  <2>2. ASSUME NEW w \in Session, PublishCommit(w)
        PROVE  Book!Next
    <3>1. PICK p \in Period, q \in Quote : Publishes(w, p, q)
      BY <1>2, <2>2, PublishEffect DEF IInv
    <3> USE DEF Publishes
    <3>2. q.revision = period[p].revision + 1
      BY <3>1 DEF QuoteOK
    <3>3. \A bill \in snapshots' \ snapshots : bill \in InvoiceRows(q)
      BY <3>1
    <3>4. \A bill \in InvoiceRows(q) :
              bill \in [period : {p}, revision : {q.revision}, student : Student, total : Nat]
      BY <3>1 DEF InvoiceRows, QuoteOK
    <3>5. \A a, b \in InvoiceRows(q) : a.student = b.student => a = b
      BY <3>1 DEF InvoiceRows
    <3>6. Book!Publish(p)
      BY <3>1, <3>2, <3>3, <3>4, <3>5 DEF Book!Publish
    <3>7. QED
      BY <3>6 DEF Book!Next
  <2>3. ASSUME NEW w \in Session, UnpublishCommit(w)
        PROVE  Book!Next
    <3>1. PICK p \in Period :
             /\ period[p].published
             /\ period' = [period EXCEPT ![p].published = FALSE]
             /\ UNCHANGED <<snapshots, payments, input>>
      BY <1>2, <2>3, UnpublishEffect DEF IInv
    <3>2. QED
      BY <3>1 DEF Book!Next, Book!Unpublish
  <2>4. ASSUME NEW w \in Session, SubmitCommit(w)
        PROVE  Book!Next
    <3>1. tx[w] \in Submitting /\ RequestOK(w)
      BY <1>2, <2>4, RequestKinds DEF IInv, TypeOK, RequestInv, SubmitCommit
    <3>2. PICK k \in Period \X Student \X Revision : k = PaymentKey(tx[w])
      BY <3>1 DEF Submitting, PaymentKey
    <3>3. payments[k].status \in {"NONE", "REJECTED"}
      BY <1>2, <2>4, <3>2 DEF SubmitCommit, Active, IInv, TypeOK, Payment, NoPayment
    <3>4. \A j \in DOMAIN payments \ {k} :
              payments[j].status # "NONE" => payments[j].utr # tx[w].utr
      BY <2>4, <3>2 DEF SubmitCommit, UtrTaken
    <3>5. payments' = [payments EXCEPT ![k] =
              [status |-> "PENDING", utr |-> tx[w].utr, amount |-> tx[w].amount]]
      BY <2>4, <3>2 DEF SubmitCommit
    <3>6. /\ InForce(tx[w].period, tx[w].revision)
          /\ [period |-> tx[w].period, revision |-> tx[w].revision,
              student |-> tx[w].student, total |-> tx[w].amount] \in snapshots
          /\ UNCHANGED <<period, snapshots>>
      BY <2>4, <3>1 DEF SubmitCommit, RequestOK
    <3>7. k = <<tx[w].period, tx[w].student, period[tx[w].period].revision>>
      BY <3>2, <3>6 DEF PaymentKey, InForce
    <3>8. period[tx[w].period].published
          /\ period[tx[w].period].revision = tx[w].revision
      BY <3>6 DEF InForce
    <3>9. Book!Submit(tx[w].period, tx[w].student, tx[w].utr)
      BY <3>3, <3>4, <3>5, <3>6, <3>7, <3>8 DEF Book!Submit
    <3>10. QED
      BY <3>1, <3>9 DEF Book!Next, Submitting
  <2>5. ASSUME NEW w \in Session, ReviewCommit(w)
        PROVE  Book!Next
    <3>1. tx[w] \in Reviewing /\ RequestOK(w)
      BY <1>2, <2>5, RequestKinds DEF IInv, TypeOK, RequestInv, ReviewCommit
    <3>2. Book!Review(tx[w].period, tx[w].student, tx[w].decision)
      BY <2>5, <3>1 DEF Book!Review, ReviewCommit, RequestOK, InForce, PaymentKey
    <3>3. QED
      BY <3>1, <3>2 DEF Book!Next, Reviewing
  <2>6. QED
    BY <1>2, <2>1, <2>2, <2>3, <2>4, <2>5, StepEffect DEF BookCommit
<1>3. QED
  BY Invariance, <1>1, <1>2, PTL DEF Spec, Book!Spec, ImplementsInvoiceBook

==============================================================================
