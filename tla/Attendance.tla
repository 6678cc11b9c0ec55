------------------------------ MODULE Attendance ------------------------------
(***************************************************************************)
(* Attendance and fines on top of Meals: students show a QR pass in the    *)
(* serving window, scanners confirm it, administrators enter attendance by *)
(* hand, in bulk, or take it away, and after the window the reconciliation *)
(* fines whoever chose the meal and has no attendance.  All of them share  *)
(* the month lock, the users row locks and the sessions of module Meals.   *)
(***************************************************************************)
EXTENDS Meals

VARIABLES
    begun,      \* dates that are not in the future
    active,     \* accounts with status ACTIVE
    attendance, \* attendance rows
    fines       \* fines rows

diningVars == <<begun, active, attendance, fines>>

allVars == <<vars, diningVars>>

Sitting == Student \X Date \X Meal

Requested(op, lock) ==
    [op : {op}, lock : {lock}, users : SUBSET Student, sittings : SUBSET Sitting]

\* Requests of this module; sittings are the rows to write, in a reset the rows read.
DiningRequest ==
    Requested("confirm", "shared") \cup Requested("manual", "shared") \cup
    Requested("bulk", "shared") \cup Requested("reconcile", "exclusive") \cup
    [op : {"reset"}, lock : {"none"}, users : {{}}, sittings : SUBSET Sitting,
     scope : SUBSET Sitting]

Attended(d, m) == {k \in Sitting : k[2] = d /\ k[3] = m /\ attendance[k] # "NONE"}

DiningInit ==
    /\ Init
    /\ begun = {}
    /\ active \in SUBSET Student
    /\ attendance = [k \in Sitting |-> "NONE"]
    /\ fines = [k \in Sitting |-> "NONE"]

------------------------------------------------------------------------------
(***************************************************************************)
(* Where a request may find the serving window of a meal of d: the window  *)
(* lies within its date, and an administrator may change its hours at any  *)
(* time, with no lock and whatever the selection cutoff is.                *)
(***************************************************************************)
WindowMayBe(d) ==
    IF d \in past THEN {"over"}
    ELSE IF d \in begun THEN {"before", "open", "over"} ELSE {"before"}

(***************************************************************************)
(* QR attendance.  generate_qr_token and verify_qr_token write nothing but *)
(* hand out a signed pass, under conditions that confirm_attendance checks *)
(* again, under the shared month lock and the student's row lock, before   *)
(* it inserts: whoever is eligible there may be holding a pass.            *)
(***************************************************************************)
\* Slip: the selection was checked when the pass was issued.
EligibleClosureOnly(s, d, m) ==
    s \in active /\ ~Closed(d, {m}) /\ "open" \in WindowMayBe(d)

\* _check_eligibility.
Eligible(s, d, m) ==
    /\ s \in active
    /\ ~Closed(d, {m})
    /\ "open" \in WindowMayBe(d)
    /\ selections[<<s, d, m>>].status \notin {"SKIPPED", "NO_SERVICE"}

\* Slip: the scanned student's row is not locked.
ScanRowFreeUnlocked(s) == s \in Student

ScanRowFree(s) == UserRowFree(s)

ConfirmCheck(w, s, d, m) ==
    /\ SharedFree /\ ~published
    /\ ScanRowFree(s)
    /\ Eligible(s, d, m)
    /\ attendance[<<s, d, m>>] = "NONE"
    /\ Begin(w, [op |-> "confirm", lock |-> "shared", users |-> {s},
                 sittings |-> {<<s, d, m>>}])
    /\ UNCHANGED <<selections, holidays, issued, month, diningVars>>

(***************************************************************************)
(* Attendance entered by hand for an active student, in or out of the      *)
(* window: one meal, or many students at once.  Only the former looks at   *)
(* holidays, only the latter refuses a date in the future.                 *)
(***************************************************************************)
ManualCheck(w, s, d, m) ==
    /\ SharedFree /\ ~published
    /\ UserRowFree(s)
    /\ s \in active
    /\ ~Closed(d, {m})
    /\ attendance[<<s, d, m>>] = "NONE"
    /\ Begin(w, [op |-> "manual", lock |-> "shared", users |-> {s},
                 sittings |-> {<<s, d, m>>}])
    /\ UNCHANGED <<selections, holidays, issued, month, diningVars>>

BulkCheck(w, students, d, m) ==
    /\ SharedFree /\ ~published
    /\ \A s \in students : UserRowFree(s)
    /\ students \subseteq active
    /\ d \in begun
    /\ \A s \in students : attendance[<<s, d, m>>] = "NONE"
    /\ Begin(w, [op |-> "bulk", lock |-> "shared", users |-> students,
                 sittings |-> {<<s, d, m>> : s \in students}])
    /\ UNCHANGED <<selections, holidays, issued, month, diningVars>>

AttendanceWrite(w) ==
    LET kind == IF tx[w].op = "confirm" THEN "QR" ELSE "HAND"
    IN  /\ tx[w].op \in {"confirm", "manual", "bulk"}
        /\ attendance' = [k \in Sitting |-> IF k \in tx[w].sittings THEN kind ELSE attendance[k]]
        /\ End(w)
        /\ UNCHANGED <<selections, holidays, issued, month>>
        /\ UNCHANGED <<begun, active, fines>>

(***************************************************************************)
(* reset_attendance, for one meal or a whole day of a student, without any *)
(* lock: rows are read for the audit entry and then deleted by condition.  *)
(***************************************************************************)
ResetRead(w, s, d, meals) ==
    LET scope == {<<s, d, m>> : m \in meals}
    IN  /\ Begin(w, [op |-> "reset", lock |-> "none", users |-> {}, scope |-> scope,
                     sittings |-> {k \in scope : attendance[k] # "NONE"}])
        /\ UNCHANGED <<selections, holidays, issued, month, diningVars>>

ResetDelete(w) ==
    /\ tx[w].op = "reset"
    /\ attendance' = [k \in Sitting |-> IF k \in tx[w].scope THEN "NONE" ELSE attendance[k]]
    /\ End(w)
    /\ UNCHANGED <<selections, holidays, issued, month>>
    /\ UNCHANGED <<begun, active, fines>>

------------------------------------------------------------------------------
(***************************************************************************)
(* reconcile_missed_meals, from the nightly job for all meals of a day or  *)
(* by an administrator for some, in one transaction: under the exclusive   *)
(* month lock, fines for the absent students of every meal that was served *)
(* and scanned.  Whose membership and account it finds billable (neither   *)
(* PENDING nor OUTMESS) changes without any of these locks: any students.  *)
(***************************************************************************)
\* Slip: only chargeable fines count as existing.
FinedAlreadyPending(k) == fines[k] = "PENDING"

FinedAlready(k) == fines[k] # "NONE"

\* Slip: absentees are those without a row; the selection is not looked at.
AbsenteeUnselected(k) ==
    /\ attendance[k] = "NONE"
    /\ ~FinedAlready(k)

Absentee(k) ==
    /\ attendance[k] = "NONE"
    /\ ~FinedAlready(k)
    /\ selections[k].status \in {"ABSENT", "CONFIRMED"}

\* Slip: the job takes the month's lock in its shared form.
ReconcileLockShared == SharedFree

ReconcileLock == ExclusiveFree

ReconcileCheck(w, d, meals, billable) ==
    LET Due(m) == ~Closed(d, {m}) /\ Attended(d, m) # {}
    IN  /\ "over" \in WindowMayBe(d)
        /\ ReconcileLock /\ ~published
        /\ Begin(w, [op |-> "reconcile", lock |-> "exclusive", users |-> {},
                     sittings |-> {k \in billable \X {d} \X meals :
                                       Due(k[3]) /\ Absentee(k)}])
        /\ UNCHANGED <<selections, holidays, issued, month, diningVars>>

ReconcileWrite(w) ==
    /\ tx[w].op = "reconcile"
    /\ fines' = [k \in Sitting |-> IF k \in tx[w].sittings THEN "PENDING" ELSE fines[k]]
    /\ End(w)
    /\ UNCHANGED <<selections, holidays, issued, month>>
    /\ UNCHANGED <<begun, active, attendance>>

\* Slip: the month of the fine is not asked to be open.
WaivableAnyMonth(k) == SharedFree /\ fines[k] = "PENDING"

Waivable(k) == SharedFree /\ ~published /\ fines[k] = "PENDING"

\* waive_fine reads the fine again under the month lock and its row lock.
WaiveFine(k) ==
    /\ Waivable(k)
    /\ fines' = [fines EXCEPT ![k] = "WAIVED"]
    /\ UNCHANGED <<vars, begun, active, attendance>>

------------------------------------------------------------------------------
\* update_student_status: suspends or reinstates under the users row lock.
SetStatus(s) ==
    /\ UserRowFree(s)
    /\ active' = IF s \in active THEN active \ {s} ELSE active \cup {s}
    /\ UNCHANGED <<vars, begun, attendance, fines>>

\* Midnight at the beginning of d.
DayBegins(d) ==
    /\ d \notin begun
    /\ begun' = begun \cup {d}
    /\ UNCHANGED <<vars, active, attendance, fines>>

\* A day ends that has begun.
ServedDayEnds(d) == d \in begun /\ DayEnds(d) /\ UNCHANGED diningVars

SelectionsNext ==
    /\ \/ \E w \in Session : SelectionRequest(w) \/ HolidayRequest(w) \/ Rollback(w)
       \/ \E d \in Date : CutoffPasses(d)
       \/ \E dates \in SUBSET Date : UpdateCutoff(dates)
       \/ PublishMonth
       \/ ReopenMonth
    /\ UNCHANGED diningVars

AttendanceRequest(w) ==
    \/ \E s \in Student, d \in Date, m \in Meal :
          ConfirmCheck(w, s, d, m) \/ ManualCheck(w, s, d, m)
    \/ \E students \in SUBSET Student \ {{}}, d \in Date, m \in Meal :
          BulkCheck(w, students, d, m)
    \/ AttendanceWrite(w)
    \/ \E s \in Student, d \in Date, meals \in Scope : ResetRead(w, s, d, meals)
    \/ ResetDelete(w)
    \/ \E d \in Date, meals \in Scope, billable \in SUBSET Student :
          ReconcileCheck(w, d, meals, billable)
    \/ ReconcileWrite(w)

DiningNext ==
    \/ SelectionsNext
    \/ \E w \in Session : AttendanceRequest(w)
    \/ \E k \in Sitting : WaiveFine(k)
    \/ \E s \in Student : SetStatus(s)
    \/ \E d \in Date : DayBegins(d) \/ ServedDayEnds(d)

DiningSpec == DiningInit /\ [][DiningNext]_allVars
------------------------------------------------------------------------------
DiningTypeOK ==
    /\ selections \in [Sitting -> Row \cup {NoRow}]
    /\ holidays \subseteq Holiday
    /\ issued \subseteq HolidayId
    /\ past \subseteq begun \cap locked /\ begun \cup locked \subseteq Date
    /\ published \in BOOLEAN
    /\ tx \in [Session -> Request \cup DiningRequest]
    /\ active \subseteq Student
    /\ attendance \in [Sitting -> {"NONE", "QR", "HAND"}]
    /\ fines \in [Sitting -> {"NONE", "PENDING", "WAIVED"}]

Fined(k) == fines[k] = "NONE" /\ fines'[k] # "NONE"

(***************************************************************************)
(* A fine is charged only to a student without attendance, and while no    *)
(* scan or entry of it is under way: one that was admitted at the end of   *)
(* the window and commits after it is not overtaken by the reconciliation. *)
(***************************************************************************)
AbsentWhenFined ==
    [][\A k \in Sitting : Fined(k) =>
          /\ attendance[k] = "NONE"
          /\ \A w \in Session :
                tx[w].op \in {"confirm", "manual", "bulk"} => k \notin tx[w].sittings]_allVars

(***************************************************************************)
(* When a fine is charged the student's choice is to eat and no update of  *)
(* it is under way, whatever came between the cutoff, the end of the       *)
(* window and the fine: updates admitted late, holidays declared and       *)
(* deleted, a cutoff that was moved.                                       *)
(***************************************************************************)
FinedChoseToEat ==
    [][\A k \in Sitting : Fined(k) =>
          Choice(k) = "CONFIRMED" /\ ~Choosing(k[1], k[2])]_allVars

(***************************************************************************)
(* A scan is recorded only for a student whose choice is then to eat, with *)
(* no update of it under way, also if the cutoff is after the window.      *)
(***************************************************************************)
ScannedChoseToEat ==
    [][\A k \in Sitting : attendance[k] # "QR" /\ attendance'[k] = "QR" =>
          Choice(k) = "CONFIRMED" /\ ~Choosing(k[1], k[2])]_allVars

(***************************************************************************)
(* When attendance by scan or by hand is committed, the meal is not closed *)
(* and the student's account is active, although both were checked in an   *)
(* earlier statement.                                                      *)
(***************************************************************************)
RecordedWhileOpen ==
    [][\A w \in Session :
          tx[w].op \in {"confirm", "manual"} /\ attendance' # attendance /\ tx'[w] # tx[w] =>
              \A k \in tx[w].sittings : ~Closed(k[2], {k[3]}) /\ k[1] \in active]_allVars

\* Running the reconciliation again never renews a fine that was waived.
WaivedStaysWaived ==
    [][\A k \in Sitting : fines[k] = "WAIVED" => fines'[k] = "WAIVED"]_allVars

(***************************************************************************)
(* The fines of a published month are on its bills and stay what they are: *)
(* no reconciliation or waiver that began earlier changes them.            *)
(***************************************************************************)
FinesFrozenWhilePublished ==
    [][published /\ published' => UNCHANGED fines]_allVars

Table == INSTANCE DiningBook WITH
    choice <- BookChoice, closed <- BookClosed, orders <- BookOrders

(***************************************************************************)
(* With rows, sessions and locks hidden, attendance and fines are the      *)
(* atomic book of who ate, who missed and who was let off.                 *)
(***************************************************************************)
ImplementsDiningBook == Table!TableSpec

------------------------------------------------------------------------------
(***************************************************************************)
(* reset_attendance: "Read the rows before deleting so the audit entry     *)
(* records what was actually removed".                                     *)
(***************************************************************************)
ResetRecordsWhatItRemoves ==
    [][\A w \in Session :
          tx[w].op = "reset" /\ attendance' # attendance /\ tx'[w] # tx[w] =>
              {k \in Sitting : attendance'[k] # attendance[k]} = tx[w].sittings]_allVars
==============================================================================
