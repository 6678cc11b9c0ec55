--------------------------- MODULE AttendanceProofs ---------------------------
(***************************************************************************)
(* Attendance keeps what Meals promises, and what it promises itself, for  *)
(* any number of students, dates, meals, holidays and sessions.  With the  *)
(* requests of Attendance hidden from its sessions it implements Meals, so *)
(* every theorem of MealsProofs holds of it, and the facts proved there    *)
(* about single steps are used here for the steps both have in common.     *)
(***************************************************************************)
EXTENDS Attendance, TLAPS

MealsOps == {"idle", "select", "declare", "delete"}

\* The sessions as Meals sees them: one that serves attendance is idle.
MealsTx == [w \in Session |-> IF tx[w].op \in MealsOps THEN tx[w] ELSE Idle]

M == INSTANCE MealsProofs WITH tx <- MealsTx

\* The operation of a request tells its kind, and with it its locks.
LEMMA DiningKinds ==
    ASSUME NEW t \in Request \cup DiningRequest
    PROVE  /\ t.op \in MealsOps => t \in Request
           /\ t.op \in {"confirm", "manual", "bulk", "reconcile", "reset"} =>
                 t \in DiningRequest /\ t.sittings \subseteq Sitting
           /\ t.op \in {"confirm", "manual", "bulk"} => t.lock = "shared"
           /\ t.op \in {"reconcile", "declare"} => t.lock = "exclusive"
           /\ t.op = "select" => t.lock = "shared"
           /\ t.op = "idle" => t = Idle
           /\ t.op \in MealsOps \cup {"confirm", "manual", "bulk", "reconcile", "reset"}
  BY DEF Request, DiningRequest, Requested, MealsOps, Idle, Selecting, Declaring, Deleting

TxOK == tx \in [Session -> Request \cup DiningRequest]

------------------------------------------------------------------------------
(***************************************************************************)
(* The refinement of Meals.  What does not read tx is the same on both     *)
(* sides; what does reads fewer locks on the side of Meals.                *)
(***************************************************************************)
LEMMA SameRows ==
    /\ M!Choices = Choices /\ M!Row = Row /\ M!NoRow = NoRow
    /\ M!Scope = Scope /\ M!Holiday = Holiday /\ M!Idle = Idle
  BY DEF M!Choices, Choices, M!Row, Row, M!NoRow, NoRow, M!Scope, Scope, M!Holiday, Holiday,
         M!Idle, Idle

\* So are the requests of Meals.
LEMMA SameRequests == M!Request = Request
  BY SameRows DEF M!Request, Request, M!Selecting, Selecting, M!Declaring, Declaring,
                  M!Deleting, Deleting

\* So is what the checks of Meals ask of the database.
LEMMA SameChecks ==
    /\ \A d, meals : M!Closed(d, meals) <=> Closed(d, meals)
    /\ \A d, meals : M!BeforeCutoff(d, meals) <=> BeforeCutoff(d, meals)
    /\ \A s, d, meals, t : M!Projected(s, d, meals, t) = Projected(s, d, meals, t)
    /\ \A s, d, meals : M!LimitAllows(s, d, meals) <=> LimitAllows(s, d, meals)
    /\ \A d, meals, k : M!Stops(d, meals, k) <=> Stops(d, meals, k)
    /\ \A h, k : M!Reverts(h, k) <=> Reverts(h, k)
    /\ \A row : M!Reverted(row) = Reverted(row)
    /\ \A k : M!Choice(k) = Choice(k)
<1>1. \A d, meals : M!Closed(d, meals) <=> Closed(d, meals)
  BY DEF M!Closed, Closed
<1>2. \A s, d, m : M!Status(s, d, m) = Status(s, d, m)
  BY <1>1, SameRows DEF M!Status, Status
<1>3. \A s, d, meals, t : M!Projected(s, d, meals, t) = Projected(s, d, meals, t)
  BY <1>2 DEF M!Projected, Projected
<1>4. \A s : M!CutDays(s) = CutDays(s)
  BY DEF M!CutDays, CutDays, M!Skipped, Skipped
<1>5. \A S : M!Cardinality(S) = Cardinality(S)
  BY DEF M!Cardinality, Cardinality
<1>6. \A s, d, meals : M!LimitAllows(s, d, meals) <=> LimitAllows(s, d, meals)
  BY <1>4, <1>5 DEF M!LimitAllows, LimitAllows
<1>7. QED
  BY <1>1, <1>3, <1>6, SameRows
     DEF M!BeforeCutoff, BeforeCutoff, M!Stops, Stops, M!Reverts, Reverts, M!Reverted, Reverted,
         M!Choice, Choice

\* What is free here is free to Meals, which sees fewer requests.
LEMMA FewerLocks ==
    ASSUME TxOK
    PROVE  /\ SharedFree => M!SharedFree
           /\ ExclusiveFree => M!ExclusiveFree
           /\ \A s : UserRowFree(s) => M!UserRowFree(s)
  BY DEF TxOK, MealsTx, Idle, SharedFree, M!SharedFree, ExclusiveFree, M!ExclusiveFree,
         UserRowFree, M!UserRowFree

\* A request of Meals begins and ends on both sides, any other on this one only.
LEMMA SameSessions ==
    ASSUME TxOK, NEW w \in Session
    PROVE  /\ \A r : Begin(w, r) /\ r.op \in MealsOps => M!Begin(w, r)
           /\ \A r : Begin(w, r) /\ r.op \notin MealsOps => UNCHANGED MealsTx
           /\ End(w) /\ tx[w].op \in MealsOps => M!End(w)
           /\ End(w) /\ tx[w].op \notin MealsOps => UNCHANGED MealsTx
           /\ tx[w].op \in MealsOps => MealsTx[w] = tx[w]
<1>1. \A v \in Session : MealsTx[v] = IF tx[v].op \in MealsOps THEN tx[v] ELSE Idle
  BY DEF MealsTx
<1>2. Idle.op \in MealsOps
  BY DEF Idle, MealsOps
<1>3. ASSUME NEW r, Begin(w, r), r.op \in MealsOps
      PROVE  M!Begin(w, r)
  BY <1>2, <1>3, SameRows DEF TxOK, Begin, M!Begin, MealsTx
<1>4. ASSUME NEW r, Begin(w, r), r.op \notin MealsOps
      PROVE  UNCHANGED MealsTx
  BY <1>2, <1>4 DEF TxOK, Begin, MealsTx
<1>5. ASSUME End(w), tx[w].op \in MealsOps
      PROVE  M!End(w)
  BY <1>2, <1>5, SameRows DEF TxOK, End, M!End, MealsTx
<1>6. ASSUME End(w), tx[w].op \notin MealsOps
      PROVE  UNCHANGED MealsTx
  BY <1>2, <1>6 DEF TxOK, End, MealsTx
<1>7. QED
  BY <1>1, <1>3, <1>4, <1>5, <1>6

\* Every step of the selections and holidays is the same step of Meals.
LEMMA SelectionSteps ==
    ASSUME TxOK, SelectionsNext
    PROVE  [M!Next]_(M!vars)
<1> USE DEF month, M!month
<1>1. ASSUME NEW w \in Session, NEW s \in Student, NEW d \in Date, NEW meals \in Scope,
             NEW t \in Choices, SelectCheck(w, s, d, meals, t)
      PROVE  M!SelectCheck(w, s, d, meals, t)
  <2> DEFINE r == [op |-> "select", lock |-> "shared", users |-> {s},
                   student |-> s, date |-> d, meals |-> meals, target |-> t]
  <2>1. M!Begin(w, r)
    BY <1>1, SameSessions DEF SelectCheck, MealsOps
  <2>2. QED
    BY <1>1, <2>1, FewerLocks, SameChecks DEF SelectCheck, M!SelectCheck
<1>2. ASSUME NEW w \in Session, SelectWrite(w)
      PROVE  M!SelectWrite(w)
  <2>1. MealsTx[w] = tx[w] /\ M!End(w)
    BY <1>2, SameSessions DEF SelectWrite, MealsOps
  <2>2. QED
    BY <1>2, <2>1 DEF SelectWrite, M!SelectWrite
<1>3. ASSUME NEW w \in Session, NEW d \in Date, NEW meals \in Scope, DeclareCheck(w, d, meals)
      PROVE  M!DeclareCheck(w, d, meals)
  <2> DEFINE r == [op |-> "declare", lock |-> "exclusive", users |-> {},
                   date |-> d, meals |-> meals]
  <2>1. M!Begin(w, r)
    BY <1>3, SameSessions DEF DeclareCheck, MealsOps
  <2>2. QED
    BY <1>3, <2>1, FewerLocks, SameChecks DEF DeclareCheck, M!DeclareCheck
<1>4. ASSUME NEW w \in Session, NEW id \in HolidayId, DeclareWrite(w, id)
      PROVE  M!DeclareWrite(w, id)
  <2>1. MealsTx[w] = tx[w] /\ M!End(w)
    BY <1>4, SameSessions DEF DeclareWrite, MealsOps
  <2>2. QED
    BY <1>4, <2>1, SameChecks DEF DeclareWrite, M!DeclareWrite
<1>5. ASSUME NEW w \in Session, NEW h \in holidays, DeleteRead(w, h)
      PROVE  M!DeleteRead(w, h)
  <2> DEFINE r == [op |-> "delete", lock |-> "none", users |-> {}, holiday |-> h]
  <2>1. M!Begin(w, r)
    BY <1>5, SameSessions DEF DeleteRead, MealsOps
  <2>2. QED
    BY <1>5, <2>1 DEF DeleteRead, M!DeleteRead
<1>6. ASSUME NEW w \in Session, DeleteCommit(w)
      PROVE  M!DeleteCommit(w)
  <2>1. MealsTx[w] = tx[w] /\ M!End(w)
    BY <1>6, SameSessions DEF DeleteCommit, MealsOps
  <2>2. QED
    BY <1>6, <2>1, FewerLocks, SameChecks DEF DeleteCommit, M!DeleteCommit
<1>7. ASSUME NEW w \in Session, Rollback(w)
      PROVE  M!Rollback(w) \/ UNCHANGED M!vars
  <2>1. CASE tx[w].op \in MealsOps
    <3>1. MealsTx[w] = tx[w] /\ M!End(w)
      BY <1>7, <2>1, SameSessions DEF Rollback
    <3>2. QED
      BY <1>7, <3>1, SameRows DEF Rollback, M!Rollback
  <2>2. CASE tx[w].op \notin MealsOps
    <3>1. UNCHANGED MealsTx
      BY <1>7, <2>2, SameSessions DEF Rollback
    <3>2. QED
      BY <1>7, <3>1 DEF Rollback, M!vars
  <2>3. QED
    BY <2>1, <2>2
<1>8. ASSUME NEW d \in Date, CutoffPasses(d)
      PROVE  M!CutoffPasses(d)
  BY <1>8 DEF CutoffPasses, M!CutoffPasses, MealsTx
<1>9. ASSUME NEW dates \in SUBSET Date, UpdateCutoff(dates)
      PROVE  M!UpdateCutoff(dates)
  BY <1>9 DEF UpdateCutoff, M!UpdateCutoff, MealsTx
<1>10. ASSUME PublishMonth \/ ReopenMonth
       PROVE  M!PublishMonth \/ M!ReopenMonth
  BY <1>10, FewerLocks DEF PublishMonth, M!PublishMonth, ReopenMonth, M!ReopenMonth, MealsTx
<1>11. QED
  BY <1>1, <1>2, <1>3, <1>4, <1>5, <1>6, <1>7, <1>8, <1>9, <1>10, SameRows
     DEF SelectionsNext, SelectionRequest, HolidayRequest, M!Next, M!SelectionRequest,
         M!HolidayRequest

\* A request begins with the locks it takes free.
Granted(r) ==
    /\ r.lock = "shared" => SharedFree
    /\ r.lock = "exclusive" => ExclusiveFree
    /\ \A s \in r.users : UserRowFree(s)

\* What the requests of Attendance do to their session.
LEMMA AttendanceSessions ==
    ASSUME NEW w \in Session, AttendanceRequest(w)
    PROVE  /\ UNCHANGED <<selections, holidays, issued, past, locked, published>>
           /\ \/ \E r \in DiningRequest : r.op \notin MealsOps /\ Granted(r) /\ Begin(w, r)
              \/ End(w) /\ tx[w].op \notin MealsOps
<1> USE DEF DiningRequest, Requested, Granted, MealsOps
<1>1. UNCHANGED <<selections, holidays, issued, past, locked, published>>
  BY DEF AttendanceRequest, ConfirmCheck, ManualCheck, BulkCheck, AttendanceWrite,
         ResetRead, ResetDelete, ReconcileCheck, ReconcileWrite, month
<1>2. CASE AttendanceWrite(w) \/ ResetDelete(w) \/ ReconcileWrite(w)
  BY <1>1, <1>2 DEF AttendanceWrite, ResetDelete, ReconcileWrite
<1>3. ASSUME NEW s \in Student, NEW d \in Date, NEW m \in Meal, ConfirmCheck(w, s, d, m)
      PROVE  \E r \in DiningRequest : r.op \notin MealsOps /\ Granted(r) /\ Begin(w, r)
  <2> DEFINE r == [op |-> "confirm", lock |-> "shared", users |-> {s},
                   sittings |-> {<<s, d, m>>}]
  <2>1. r \in DiningRequest
    BY DEF Sitting
  <2>2. r.op \notin MealsOps /\ Granted(r) /\ Begin(w, r)
    BY <1>3 DEF ConfirmCheck, ScanRowFree
  <2>3. QED
    BY <2>1, <2>2
<1>4. ASSUME NEW s \in Student, NEW d \in Date, NEW m \in Meal, ManualCheck(w, s, d, m)
      PROVE  \E r \in DiningRequest : r.op \notin MealsOps /\ Granted(r) /\ Begin(w, r)
  <2> DEFINE r == [op |-> "manual", lock |-> "shared", users |-> {s},
                   sittings |-> {<<s, d, m>>}]
  <2>1. r \in DiningRequest
    BY DEF Sitting
  <2>2. r.op \notin MealsOps /\ Granted(r) /\ Begin(w, r)
    BY <1>4 DEF ManualCheck
  <2>3. QED
    BY <2>1, <2>2
<1>5. ASSUME NEW students \in SUBSET Student \ {{}}, NEW d \in Date, NEW m \in Meal,
             BulkCheck(w, students, d, m)
      PROVE  \E r \in DiningRequest : r.op \notin MealsOps /\ Granted(r) /\ Begin(w, r)
  <2> DEFINE r == [op |-> "bulk", lock |-> "shared", users |-> students,
                   sittings |-> {<<s, d, m>> : s \in students}]
  <2>1. r \in DiningRequest
    BY DEF Sitting
  <2>2. r.op \notin MealsOps /\ Granted(r) /\ Begin(w, r)
    BY <1>5 DEF BulkCheck
  <2>3. QED
    BY <2>1, <2>2
<1>6. ASSUME NEW s \in Student, NEW d \in Date, NEW meals \in Scope, ResetRead(w, s, d, meals)
      PROVE  \E r \in DiningRequest : r.op \notin MealsOps /\ Granted(r) /\ Begin(w, r)
  <2> DEFINE scope == {<<s, d, m>> : m \in meals}
             r == [op |-> "reset", lock |-> "none", users |-> {}, scope |-> scope,
                   sittings |-> {k \in scope : attendance[k] # "NONE"}]
  <2>1. scope \subseteq Sitting
    BY DEF Sitting, Scope
  <2>2. r \in DiningRequest
    BY <2>1
  <2>3. r.op \notin MealsOps /\ Granted(r) /\ Begin(w, r)
    BY <1>6 DEF ResetRead
  <2>4. QED
    BY <2>2, <2>3
<1>7. ASSUME NEW d \in Date, NEW meals \in Scope, NEW billable \in SUBSET Student,
             ReconcileCheck(w, d, meals, billable)
      PROVE  \E r \in DiningRequest : r.op \notin MealsOps /\ Granted(r) /\ Begin(w, r)
  <2>1. PICK S \in SUBSET Sitting :
           Begin(w, [op |-> "reconcile", lock |-> "exclusive", users |-> {}, sittings |-> S])
    BY <1>7 DEF ReconcileCheck, Scope, Sitting
  <2>2. QED
    BY <1>7, <2>1 DEF ReconcileCheck, ReconcileLock
<1>8. QED
  BY <1>1, <1>2, <1>3, <1>4, <1>5, <1>6, <1>7 DEF AttendanceRequest

\* Steps that are no request's leave selections and sessions alone.
LEMMA OtherSteps ==
    ASSUME \/ \E k \in Sitting : WaiveFine(k)
           \/ \E s \in Student : SetStatus(s)
           \/ \E d \in Date : DayBegins(d)
           \/ UNCHANGED allVars
    PROVE  UNCHANGED vars
  BY DEF WaiveFine, SetStatus, DayBegins, allVars

\* A step of Attendance is a step of Meals or, to Meals, none at all.
LEMMA MealsStep ==
    ASSUME TxOK, [DiningNext]_allVars
    PROVE  [M!Next]_(M!vars)
<1>1. CASE SelectionsNext
  BY <1>1, SelectionSteps
<1>2. ASSUME NEW d \in Date, ServedDayEnds(d)
      PROVE  M!Next
  <2>1. M!DayEnds(d)
    BY <1>2 DEF ServedDayEnds, DayEnds, M!DayEnds, MealsTx
  <2>2. QED
    BY <2>1 DEF M!Next
<1>3. ASSUME NEW w \in Session, AttendanceRequest(w)
      PROVE  UNCHANGED M!vars
  <2>1. UNCHANGED MealsTx
    BY <1>3, AttendanceSessions, SameSessions
  <2>2. QED
    BY <1>3, <2>1, AttendanceSessions DEF M!vars
<1>4. ASSUME UNCHANGED vars
      PROVE  UNCHANGED M!vars
  BY <1>4 DEF vars, M!vars, MealsTx
<1>5. QED
  BY <1>1, <1>2, <1>3, <1>4, OtherSteps DEF DiningNext

------------------------------------------------------------------------------
(***************************************************************************)
(* Types and locks.                                                        *)
(***************************************************************************)
LEMMA SessionStep ==
    ASSUME DiningTypeOK, [DiningNext]_allVars
    PROVE  \/ UNCHANGED tx
           \/ \E w \in Session : End(w)
           \/ \E w \in Session, r \in Request \cup DiningRequest : Granted(r) /\ Begin(w, r)
<1> USE DEF Granted
<1>1. ASSUME NEW w \in Session, AttendanceRequest(w)
      PROVE  \/ End(w)
             \/ \E r \in DiningRequest : Granted(r) /\ Begin(w, r)
  BY <1>1, AttendanceSessions
<1>2. ASSUME NEW w \in Session, NEW s \in Student, NEW d \in Date, NEW meals \in Scope,
             NEW t \in Choices, SelectCheck(w, s, d, meals, t)
      PROVE  \E r \in Request : Granted(r) /\ Begin(w, r)
  BY <1>2 DEF SelectCheck, Request, Selecting
<1>3. ASSUME NEW w \in Session, NEW d \in Date, NEW meals \in Scope, DeclareCheck(w, d, meals)
      PROVE  \E r \in Request : Granted(r) /\ Begin(w, r)
  BY <1>3 DEF DeclareCheck, Request, Declaring
<1>4. ASSUME NEW w \in Session, NEW h \in holidays, DeleteRead(w, h)
      PROVE  \E r \in Request : Granted(r) /\ Begin(w, r)
  BY <1>4 DEF DeleteRead, Request, Deleting, DiningTypeOK
<1>5. CASE SelectionsNext
  BY <1>2, <1>3, <1>4, <1>5
     DEF SelectionsNext, SelectionRequest, HolidayRequest, SelectWrite, DeclareWrite,
         DeleteCommit, Rollback, CutoffPasses, UpdateCutoff, PublishMonth, ReopenMonth
<1>6. ASSUME NEW d \in Date, ServedDayEnds(d)
      PROVE  UNCHANGED tx
  BY <1>6 DEF ServedDayEnds, DayEnds
<1>7. QED
  BY <1>1, <1>5, <1>6, OtherSteps DEF DiningNext, vars

\* Locks exclude each other, between requests of either module.
LocksExclude ==
    \A w, v \in Session :
        w # v =>
            /\ tx[w].lock = "exclusive" => tx[v].lock = "none"
            /\ tx[w].users \cap tx[v].users = {}

\* Requests begin with their locks free, so the locks keep excluding each other.
LEMMA LocksStep ==
    ASSUME DiningTypeOK, LocksExclude, [DiningNext]_allVars
    PROVE  LocksExclude'
<1>1. ASSUME NEW w \in Session, End(w)
      PROVE  LocksExclude'
  BY <1>1 DEF LocksExclude, End, Idle, DiningTypeOK
<1>2. ASSUME NEW w \in Session, NEW r \in Request \cup DiningRequest, Granted(r), Begin(w, r)
      PROVE  LocksExclude'
  <2>1. \A v \in Session : tx'[v] = IF v = w THEN r ELSE tx[v]
    BY <1>2 DEF Begin, DiningTypeOK
  <2>2. r.lock \in {"none", "shared", "exclusive"}
    BY DEF Request, Idle, Selecting, Declaring, Deleting, DiningRequest, Requested
  <2>3. \A v \in Session : tx[v].lock \in {"none", "shared", "exclusive"}
    BY DEF DiningTypeOK, Request, Idle, Selecting, Declaring, Deleting, DiningRequest, Requested
  <2>4. QED
    BY <1>2, <2>1, <2>2, <2>3 DEF LocksExclude, Granted, SharedFree, ExclusiveFree, UserRowFree
<1>3. CASE UNCHANGED tx
  BY <1>3 DEF LocksExclude
<1>4. QED
  BY <1>1, <1>2, <1>3, SessionStep

------------------------------------------------------------------------------
(***************************************************************************)
(* The inductive invariant.  A scan under way holds the shared month lock  *)
(* and the student's row, a reconciliation the exclusive lock, and what    *)
(* they checked stays true until they write: that the meal is settled (the *)
(* choice is to eat and no update of it is under way), open, on a day that *)
(* has begun and without attendance.  Where the cutoff and the windows are *)
(* set does not matter to it.                                              *)
(***************************************************************************)
Settled(k) == ~Choosing(k[1], k[2]) /\ Choice(k) = "CONFIRMED"

SittingHolds(t, k) ==
    /\ t.op \in {"confirm", "manual", "bulk"} => k[1] \in t.users /\ k[1] \in active
    /\ t.op \in {"confirm", "manual", "reconcile"} => ~Closed(k[2], {k[3]})
    /\ t.op \in {"confirm", "reconcile"} => Settled(k)
    /\ t.op \in {"confirm", "bulk", "reconcile"} => k[2] \in begun
    /\ t.op = "reconcile" => fines[k] = "NONE"
    /\ attendance[k] = "NONE"

RequestHolds(v) ==
    /\ ~published
    /\ tx[v].op = "confirm" => \E k \in Sitting : tx[v].sittings = {k}
    /\ \A k \in tx[v].sittings : SittingHolds(tx[v], k)

RequestsHold ==
    \A v \in Session :
        tx[v].op \in {"confirm", "manual", "bulk", "reconcile"} => RequestHolds(v)

DInv ==
    /\ M!IInv
    /\ DiningTypeOK
    /\ LocksExclude
    /\ RequestsHold

\* The type of the sessions alone.
LEMMA DiningTx == ASSUME DiningTypeOK PROVE TxOK
  BY DEF DiningTypeOK, TxOK

\* The initial states are initial states of Meals.
LEMMA MealsInit == ASSUME DiningInit PROVE M!Init
<1>1. MealsTx = [w \in Session |-> Idle]
  BY DEF DiningInit, Init, MealsTx, MealsOps, Idle
<1>2. QED
  BY <1>1, SameRows DEF DiningInit, Init, M!Init

\* What is invariant in Meals is invariant here.
LEMMA MealsInvStep == ASSUME M!IInv, DiningTypeOK, [DiningNext]_allVars PROVE M!IInv'
  BY MealsStep, DiningTx, M!InvStep, MaxCutsAssumption, DateAssumption
     DEF M!IsFiniteSet, IsFiniteSet

\* The invariant holds initially.
LEMMA DInvInit == ASSUME DiningInit PROVE DInv
<1>1. M!IInv
  BY MealsInit, M!InvInit, MaxCutsAssumption, DateAssumption DEF M!IsFiniteSet, IsFiniteSet
<1>2. DiningTypeOK
  BY DEF DiningInit, Init, DiningTypeOK, Sitting, Request
<1>3. LocksExclude /\ RequestsHold
  BY DEF DiningInit, Init, Idle, LocksExclude, RequestsHold
<1>4. QED
  BY <1>1, <1>2, <1>3 DEF DInv

(***************************************************************************)
(* Who changes what, and who begins what.                                  *)
(***************************************************************************)
ByWhom ==
    /\ attendance' # attendance =>
          \E w \in Session : AttendanceWrite(w) \/ ResetDelete(w)
    /\ fines' # fines =>
          \/ \E w \in Session : ReconcileWrite(w)
          \/ \E k \in Sitting : WaiveFine(k)
    /\ active' # active => \E s \in Student : SetStatus(s)
    /\ begun' # begun => \E d \in Date : DayBegins(d)
    /\ past' # past => \E d \in Date : ServedDayEnds(d)
    /\ published' # published => PublishMonth \/ ReopenMonth
    /\ holidays' # holidays =>
          \E w \in Session : (\E id \in HolidayId : DeclareWrite(w, id)) \/ DeleteCommit(w)

\* A variable changes only by the actions that write it.
LEMMA Changes == ASSUME [DiningNext]_allVars PROVE ByWhom
<1> USE DEF month
<1>1. CASE SelectionsNext
  <2>1. ASSUME \/ \E w \in Session : SelectionRequest(w) \/ Rollback(w)
               \/ \E w \in Session, d \in Date, meals \in Scope : DeclareCheck(w, d, meals)
               \/ \E w \in Session, h \in holidays : DeleteRead(w, h)
               \/ \E d \in Date : CutoffPasses(d)
               \/ \E dates \in SUBSET Date : UpdateCutoff(dates)
        PROVE  UNCHANGED <<holidays, past, published>>
    BY <2>1 DEF SelectionRequest, SelectCheck, SelectWrite, Rollback, DeclareCheck, DeleteRead,
                CutoffPasses, UpdateCutoff
  <2>2. ASSUME NEW w \in Session, NEW id \in HolidayId, DeclareWrite(w, id)
        PROVE  UNCHANGED <<past, published>>
    BY <2>2 DEF DeclareWrite
  <2>3. ASSUME NEW w \in Session, DeleteCommit(w)
        PROVE  UNCHANGED <<past, published>>
    BY <2>3 DEF DeleteCommit
  <2>4. ASSUME PublishMonth \/ ReopenMonth
        PROVE  UNCHANGED <<holidays, past>>
    BY <2>4 DEF PublishMonth, ReopenMonth
  <2>5. UNCHANGED diningVars
    BY <1>1 DEF SelectionsNext
  <2>6. QED
    BY <1>1, <2>1, <2>2, <2>3, <2>4, <2>5
       DEF ByWhom, diningVars, SelectionsNext, HolidayRequest
<1>2. ASSUME NEW d \in Date, ServedDayEnds(d)
      PROVE  ByWhom
  BY <1>2 DEF ByWhom, diningVars, ServedDayEnds, DayEnds
<1>3. ASSUME NEW w \in Session, AttendanceRequest(w)
      PROVE  ByWhom
  BY <1>3 DEF ByWhom, diningVars, AttendanceRequest, ConfirmCheck, ManualCheck, BulkCheck, AttendanceWrite,
              ResetRead, ResetDelete, ReconcileCheck, ReconcileWrite
<1>4. ASSUME UNCHANGED allVars
      PROVE  ByWhom
  BY <1>4 DEF ByWhom, diningVars, allVars, vars
<1>5. ASSUME NEW k \in Sitting, WaiveFine(k)
      PROVE  ByWhom
  BY <1>5 DEF ByWhom, diningVars, WaiveFine, vars
<1>6. ASSUME NEW s \in Student, SetStatus(s)
      PROVE  ByWhom
  BY <1>6 DEF ByWhom, diningVars, SetStatus, vars
<1>7. ASSUME NEW d \in Date, DayBegins(d)
      PROVE  ByWhom
  BY <1>7 DEF ByWhom, diningVars, DayBegins, vars
<1>8. QED
  BY <1>1, <1>2, <1>3, <1>4, <1>5, <1>6, <1>7 DEF DiningNext

\* A session is in a request only after the check of that request.
LEMMA Beginnings ==
    ASSUME DiningTypeOK, [DiningNext]_allVars, NEW v \in Session, tx'[v] # tx[v]
    PROVE  /\ tx'[v].op = "confirm" =>
                 \E s \in Student, d \in Date, m \in Meal : ConfirmCheck(v, s, d, m)
           /\ tx'[v].op = "manual" =>
                 \E s \in Student, d \in Date, m \in Meal : ManualCheck(v, s, d, m)
           /\ tx'[v].op = "bulk" =>
                 \E S \in SUBSET Student, d \in Date, m \in Meal : BulkCheck(v, S, d, m)
           /\ tx'[v].op = "reconcile" =>
                 \E d \in Date, meals \in Scope, billable \in SUBSET Student :
                    ReconcileCheck(v, d, meals, billable)
           /\ tx'[v].op = "select" =>
                 \E s \in Student, d \in Date, meals \in Scope, t \in Choices :
                    SelectCheck(v, s, d, meals, t)
<1>t. tx \in [Session -> Request \cup DiningRequest]
  BY DEF DiningTypeOK
<1>e. ASSUME NEW w \in Session, End(w)
      PROVE  tx'[v].op = "idle"
  BY <1>e, <1>t DEF End, Idle
<1>b. ASSUME NEW w \in Session, NEW r, Begin(w, r)
      PROVE  v = w /\ tx'[v] = r
  BY <1>b, <1>t DEF Begin
<1>1. ASSUME NEW w \in Session, NEW s \in Student, NEW d \in Date, NEW meals \in Scope,
             NEW t \in Choices, SelectCheck(w, s, d, meals, t)
      PROVE  v = w /\ tx'[v].op = "select"
  BY <1>1, <1>b DEF SelectCheck
<1>2. ASSUME NEW w \in Session, NEW d \in Date, NEW meals \in Scope, DeclareCheck(w, d, meals)
      PROVE  tx'[v].op = "declare"
  BY <1>2, <1>b DEF DeclareCheck
<1>3. ASSUME NEW w \in Session, NEW h \in holidays, DeleteRead(w, h)
      PROVE  tx'[v].op = "delete"
  BY <1>3, <1>b DEF DeleteRead
<1>4. ASSUME SelectionsNext
      PROVE  \/ \E s \in Student, d \in Date, meals \in Scope, t \in Choices :
                   SelectCheck(v, s, d, meals, t) /\ tx'[v].op = "select"
             \/ tx'[v].op \in {"declare", "delete", "idle"}
  BY <1>e, <1>1, <1>2, <1>3, <1>4
     DEF SelectionsNext, SelectionRequest, HolidayRequest, SelectWrite, DeclareWrite,
         DeleteCommit, Rollback, CutoffPasses, UpdateCutoff, PublishMonth, ReopenMonth
<1>5. ASSUME NEW w \in Session, NEW s \in Student, NEW d \in Date, NEW m \in Meal,
             ConfirmCheck(w, s, d, m)
      PROVE  v = w /\ tx'[v].op = "confirm"
  BY <1>5, <1>b DEF ConfirmCheck
<1>6. ASSUME NEW w \in Session, NEW s \in Student, NEW d \in Date, NEW m \in Meal,
             ManualCheck(w, s, d, m)
      PROVE  v = w /\ tx'[v].op = "manual"
  BY <1>6, <1>b DEF ManualCheck
<1>7. ASSUME NEW w \in Session, NEW S \in SUBSET Student, NEW d \in Date, NEW m \in Meal,
             BulkCheck(w, S, d, m)
      PROVE  v = w /\ tx'[v].op = "bulk"
  BY <1>7, <1>b DEF BulkCheck
<1>8. ASSUME NEW w \in Session, NEW s \in Student, NEW d \in Date, NEW meals \in Scope,
             ResetRead(w, s, d, meals)
      PROVE  tx'[v].op = "reset"
  BY <1>8, <1>b DEF ResetRead
<1>9. ASSUME NEW w \in Session, NEW d \in Date, NEW meals \in Scope, NEW billable \in SUBSET Student,
             ReconcileCheck(w, d, meals, billable)
      PROVE  v = w /\ tx'[v].op = "reconcile"
  BY <1>9, <1>b DEF ReconcileCheck
<1>10. ASSUME NEW w \in Session, AttendanceWrite(w) \/ ResetDelete(w) \/ ReconcileWrite(w)
       PROVE  tx'[v].op = "idle"
  BY <1>10, <1>e DEF AttendanceWrite, ResetDelete, ReconcileWrite
<1>11. ASSUME NEW d \in Date, ServedDayEnds(d)
       PROVE  FALSE
  BY <1>11 DEF ServedDayEnds, DayEnds
<1>12. ASSUME NEW w \in Session, AttendanceRequest(w)
       PROVE  \/ \E s \in Student, d \in Date, m \in Meal : ConfirmCheck(v, s, d, m) \/ ManualCheck(v, s, d, m)
              \/ \E S \in SUBSET Student, d \in Date, m \in Meal : BulkCheck(v, S, d, m)
              \/ \E d \in Date, meals \in Scope, billable \in SUBSET Student :
                    ReconcileCheck(v, d, meals, billable)
              \/ tx'[v].op \in {"reset", "idle"}
  BY <1>12, <1>5, <1>6, <1>7, <1>8, <1>9, <1>10 DEF AttendanceRequest
<1>13. QED
  BY <1>4, <1>5, <1>6, <1>7, <1>9, <1>11, <1>12, OtherSteps DEF DiningNext, vars

\* Type correctness of one step.
LEMMA DiningTypeStep ==
    ASSUME DInv, [DiningNext]_allVars
    PROVE  DiningTypeOK'
<1> USE DEF DInv
<1>1. /\ selections' \in [Sitting -> Row \cup {NoRow}]
      /\ holidays' \subseteq Holiday
      /\ issued' \subseteq HolidayId
      /\ locked' \subseteq Date /\ past' \subseteq locked'
      /\ published' \in BOOLEAN
  BY MealsInvStep, SameRows DEF M!IInv, M!TypeOK, Sitting
<1>2. tx' \in [Session -> Request \cup DiningRequest]
  BY SessionStep DEF DiningTypeOK, End, Begin, Request
<1>3. begun' \subseteq Date /\ past' \subseteq begun'
  BY Changes DEF ByWhom, DiningTypeOK, DayBegins, ServedDayEnds, DayEnds, diningVars, vars
<1>4. active' \subseteq Student
  BY Changes DEF ByWhom, DiningTypeOK, SetStatus
<1>5. attendance' \in [Sitting -> {"NONE", "QR", "HAND"}]
  BY Changes DEF ByWhom, DiningTypeOK, AttendanceWrite, ResetDelete
<1>6. fines' \in [Sitting -> {"NONE", "PENDING", "WAIVED"}]
  BY Changes DEF ByWhom, DiningTypeOK, ReconcileWrite, WaiveFine
<1>7. QED
  BY <1>1, <1>2, <1>3, <1>4, <1>5, <1>6 DEF DiningTypeOK

\* Updates of a choice are the same on both sides.
LEMMA SameChoosing == ASSUME TxOK PROVE \A s, d : M!Choosing(s, d) <=> Choosing(s, d)
  BY DEF TxOK, M!Choosing, Choosing, MealsTx, MealsOps, Idle

\* A settled meal stays settled while the student's row, or the month, is locked.
LEMMA SettledKept ==
    ASSUME DInv, [DiningNext]_allVars, NEW v \in Session,
           NEW k \in Sitting, Settled(k),
           k[1] \in tx[v].users \/ tx[v].lock = "exclusive"
    PROVE  Settled(k)'
<1>1. M!IInv /\ [M!Next]_(M!vars) /\ TxOK
  BY MealsStep, DiningTx DEF DInv
<1>2. k \in DOMAIN selections
  BY DEF DInv, DiningTypeOK, Sitting
<1>3. ~Choosing(k[1], k[2])'
  <2> SUFFICES ASSUME NEW w \in Session, tx'[w].op = "select",
                      tx'[w].student = k[1], tx'[w].date = k[2]
               PROVE  FALSE
    BY DEF Choosing
  <2>1. tx'[w] # tx[w]
    BY DEF Settled, Choosing
  <2>2. PICK s \in Student, d \in Date, meals \in Scope, t \in Choices :
           SelectCheck(w, s, d, meals, t)
    BY <2>1, Beginnings DEF DInv
  <2>3. s = k[1]
    BY <2>2 DEF SelectCheck, Begin, DInv, DiningTypeOK
  <2>4. SharedFree /\ UserRowFree(k[1])
    BY <2>2, <2>3 DEF SelectCheck
  <2>5. QED
    BY <2>4 DEF SharedFree, UserRowFree
<1>4. M!Choice(k)' = M!Choice(k)
  <2>1. ASSUME M!Choice(k)' # M!Choice(k)
        PROVE  FALSE
    <3>1. PICK w \in Session :
             M!SelectWrite(w) /\ MealsTx[w].student = k[1] /\ MealsTx[w].date = k[2]
      BY <1>1, <1>2, <2>1, M!ChoiceStep, MaxCutsAssumption, DateAssumption
         DEF M!IsFiniteSet, IsFiniteSet
    <3>2. M!Choosing(k[1], k[2])
      BY <3>1 DEF M!SelectWrite, M!Choosing
    <3>3. QED
      BY <1>1, <3>2, SameChoosing DEF Settled
  <2>2. QED
    BY <2>1
<1>5. Choice(k)' = Choice(k)
  BY <1>4, SameRows DEF M!Choice, Choice
<1>6. QED
  BY <1>3, <1>5 DEF Settled

\* A date that is not in the future stays so.
LEMMA BegunStep == ASSUME [DiningNext]_allVars PROVE begun \subseteq begun'
  BY Changes DEF ByWhom, DayBegins

------------------------------------------------------------------------------
(***************************************************************************)
(* What the three kinds of check establish.                                *)
(***************************************************************************)
\* A student whose users row is free has no update of the choice under way.
LEMMA RowFreeNotChoosing ==
    ASSUME M!IInv, TxOK, NEW s \in Student, NEW d \in Date, UserRowFree(s)
    PROVE  ~Choosing(s, d)
<1> SUFFICES ASSUME NEW w \in Session, tx[w].op = "select", tx[w].student = s
             PROVE  FALSE
  BY DEF Choosing
<1>1. MealsTx[w] = tx[w]
  BY DEF MealsTx, MealsOps
<1>2. tx[w].users = {s}
  BY <1>1 DEF M!IInv, M!RequestInv, M!RequestOK, M!SelectOK
<1>3. QED
  BY <1>2 DEF UserRowFree

\* Nor has anyone once nobody holds the month lock.
LEMMA LockFreeNotChoosing ==
    ASSUME TxOK, ExclusiveFree, NEW s, NEW d
    PROVE  ~Choosing(s, d)
  BY DiningKinds DEF TxOK, ExclusiveFree, Choosing

\* A window that may be open or over is that of a date not in the future.
LEMMA WindowOfBegun ==
    ASSUME DiningTypeOK, NEW d, "open" \in WindowMayBe(d) \/ "over" \in WindowMayBe(d)
    PROVE  d \in begun
  BY DEF WindowMayBe, DiningTypeOK

\* A check of one request leaves the updates of choices alone.
LEMMA CheckChoosing ==
    ASSUME DiningTypeOK, NEW v \in Session, NEW r, Begin(v, r), r.op # "select",
           NEW s, NEW d, ~Choosing(s, d)
    PROVE  ~Choosing(s, d)'
  BY DEF DiningTypeOK, Begin, Choosing

\* A scan is admitted for a settled meal of a day that has begun.
LEMMA ConfirmHolds ==
    ASSUME DInv, NEW v \in Session,
           NEW s \in Student, NEW d \in Date, NEW m \in Meal, ConfirmCheck(v, s, d, m)
    PROVE  RequestHolds(v)'
<1> DEFINE k == <<s, d, m>>
           r == [op |-> "confirm", lock |-> "shared", users |-> {s}, sittings |-> {k}]
<1>1. k \in Sitting /\ k[1] = s /\ k[2] = d /\ k[3] = m
  BY DEF Sitting
<1>2. /\ Begin(v, r)
      /\ tx'[v] = r
      /\ UNCHANGED <<selections, holidays, published, diningVars>>
  BY DEF ConfirmCheck, Begin, DInv, DiningTypeOK, month
<1>3. d \in begun
  BY WindowOfBegun DEF ConfirmCheck, Eligible, DInv
<1>4. ~Choosing(s, d)
  BY DiningTx, RowFreeNotChoosing DEF ConfirmCheck, ScanRowFree, DInv
<1>5. Choice(k) = "CONFIRMED"
  BY <1>1 DEF ConfirmCheck, Eligible, Choice, DInv, DiningTypeOK, Row, Choices
<1>6. ~Choosing(s, d)'
  BY <1>2, <1>4, CheckChoosing DEF DInv
<1>7. Settled(k)'
  BY <1>1, <1>2, <1>5, <1>6 DEF Settled, Choice
<1>8. s \in active /\ ~Closed(d, {m}) /\ ~published /\ attendance[k] = "NONE"
  BY DEF ConfirmCheck, Eligible
<1>9. (d \in begun /\ s \in active /\ ~Closed(d, {m}) /\ ~published /\ attendance[k] = "NONE")'
  BY <1>2, <1>3, <1>8 DEF Closed, diningVars
<1> HIDE DEF k
<1>10. tx[v]'.op = "confirm" /\ tx[v]'.users = {s} /\ tx[v]'.sittings = {k}
  BY <1>2
<1>11. SittingHolds(tx[v], k)'
  BY <1>1, <1>7, <1>9, <1>10 DEF SittingHolds
<1>12. QED
  <2>1. (\E j \in Sitting : tx[v].sittings = {j})'
    BY <1>1, <1>10
  <2>2. (\A j \in tx[v].sittings : SittingHolds(tx[v], j))'
    BY <1>10, <1>11
  <2>3. QED
    BY <1>9, <2>1, <2>2 DEF RequestHolds

\* Attendance by hand is admitted for an active student and an open meal.
LEMMA ManualHolds ==
    ASSUME DInv, NEW v \in Session,
           NEW s \in Student, NEW d \in Date, NEW m \in Meal, ManualCheck(v, s, d, m)
    PROVE  RequestHolds(v)'
<1> DEFINE k == <<s, d, m>>
<1>1. /\ tx'[v] = [op |-> "manual", lock |-> "shared", users |-> {s}, sittings |-> {k}]
      /\ UNCHANGED <<holidays, active, published, attendance>>
  BY DEF ManualCheck, Begin, DInv, DiningTypeOK, diningVars, month
<1>2. s \in active /\ ~Closed(d, {m}) /\ ~published /\ attendance[k] = "NONE"
  BY DEF ManualCheck
<1>3. QED
  BY <1>1, <1>2 DEF RequestHolds, SittingHolds, Closed

\* A batch is admitted for active students with no attendance, not for the future.
LEMMA BulkHolds ==
    ASSUME DInv, NEW v \in Session,
           NEW S \in SUBSET Student, NEW d \in Date, NEW m \in Meal, BulkCheck(v, S, d, m)
    PROVE  RequestHolds(v)'
<1>1. /\ tx'[v] = [op |-> "bulk", lock |-> "shared", users |-> S,
                   sittings |-> {<<s, d, m>> : s \in S}]
      /\ UNCHANGED <<begun, active, published, attendance>>
  BY DEF BulkCheck, Begin, DInv, DiningTypeOK, diningVars, month
<1>2. d \in begun /\ ~published /\ \A s \in S : s \in active /\ attendance[<<s, d, m>>] = "NONE"
  BY DEF BulkCheck
<1>3. ASSUME NEW k \in tx'[v].sittings
      PROVE  k[1] \in S /\ k[2] = d /\ k[1] \in active /\ attendance[k] = "NONE"
  <2>1. PICK s \in S : k = <<s, d, m>>
    BY <1>1
  <2>2. QED
    BY <1>2, <2>1
<1>4. QED
  BY <1>1, <1>2, <1>3 DEF RequestHolds, SittingHolds

\* A reconciliation picks settled, unrecorded, unfined meals of a day that has begun.
LEMMA ReconcileHolds ==
    ASSUME DInv, NEW v \in Session, NEW d \in Date, NEW meals \in Scope,
           NEW billable \in SUBSET Student, ReconcileCheck(v, d, meals, billable)
    PROVE  RequestHolds(v)'
<1>1. PICK S \in SUBSET Sitting :
         /\ Begin(v, [op |-> "reconcile", lock |-> "exclusive", users |-> {}, sittings |-> S])
         /\ \A k \in S : k[2] = d /\ ~Closed(d, {k[3]}) /\ Absentee(k)
  <2> DEFINE Due(m) == ~Closed(d, {m}) /\ Attended(d, m) # {}
             S == {k \in billable \X {d} \X meals : Due(k[3]) /\ Absentee(k)}
             r == [op |-> "reconcile", lock |-> "exclusive", users |-> {}, sittings |-> S]
  <2>1. Begin(v, r)
    BY DEF ReconcileCheck
  <2>2. /\ S \in SUBSET Sitting
        /\ \A k \in S : k[2] = d /\ ~Closed(d, {k[3]}) /\ Absentee(k)
    BY DEF Sitting, Scope
  <2> HIDE DEF S
  <2>3. QED
    BY <2>1, <2>2
<1>2. /\ ~published /\ ExclusiveFree /\ d \in begun
      /\ UNCHANGED <<selections, published, holidays, begun, fines, attendance>>
  BY WindowOfBegun DEF ReconcileCheck, ReconcileLock, diningVars, DInv, month
<1>3. tx'[v] = [op |-> "reconcile", lock |-> "exclusive", users |-> {}, sittings |-> S]
  BY <1>1 DEF Begin, DInv, DiningTypeOK
<1>4. ASSUME NEW k \in S
      PROVE  /\ Settled(k)'
             /\ k[2] \in begun /\ ~Closed(k[2], {k[3]})
             /\ fines[k] = "NONE" /\ attendance[k] = "NONE"
  <2>1. ~Choosing(k[1], k[2])
    BY <1>2, DiningTx, LockFreeNotChoosing DEF DInv
  <2>2. ~Choosing(k[1], k[2])'
    BY <1>1, <2>1, CheckChoosing DEF DInv
  <2>3. Choice(k) = "CONFIRMED"
    <3>1. selections[k].status \in {"ABSENT", "CONFIRMED"}
      BY <1>1 DEF Absentee
    <3>2. selections[k] \in Row \cup {NoRow}
      BY DEF DInv, DiningTypeOK
    <3>3. QED
      BY <3>1, <3>2 DEF Choice, NoRow, Row, Choices
  <2>4. Settled(k)'
    BY <1>2, <2>2, <2>3 DEF Settled, Choice
  <2>5. QED
    BY <1>1, <1>2, <2>4 DEF Absentee, FinedAlready
<1>5. \A k \in S : (Settled(k) /\ k[2] \in begun /\ ~Closed(k[2], {k[3]})
                       /\ fines[k] = "NONE" /\ attendance[k] = "NONE")'
  BY <1>2, <1>4 DEF Closed
<1>6. QED
  BY <1>2, <1>3, <1>5 DEF RequestHolds, SittingHolds

------------------------------------------------------------------------------
(***************************************************************************)
(* What was checked holds until it is used.                                *)
(***************************************************************************)
\* With a lock of the month in hand, nobody else holds the exclusive one.
LEMMA NoOtherExclusive ==
    ASSUME DInv, NEW v \in Session, NEW w \in Session, tx[v].lock # "none",
           tx[w].op \in {"declare", "reconcile"}
    PROVE  v = w
  BY DiningKinds DEF DInv, DiningTypeOK, LocksExclude

\* What nobody has recorded stays so while its students' rows, or the month, are locked.
LEMMA UnrecordedKept ==
    ASSUME DInv, [DiningNext]_allVars, NEW v \in Session, tx'[v] = tx[v],
           NEW k \in Sitting, attendance[k] = "NONE",
           k[1] \in tx[v].users \/ tx[v].lock = "exclusive"
    PROVE  attendance'[k] = "NONE"
<1>t. tx \in [Session -> Request \cup DiningRequest]
  BY DEF DInv, DiningTypeOK
<1>1. ASSUME NEW w \in Session, AttendanceWrite(w), k \in tx[w].sittings
      PROVE  FALSE
  <2>1. tx[w].lock = "shared" /\ tx'[w].op = "idle"
    BY <1>t, <1>1, DiningKinds DEF AttendanceWrite, End, Idle
  <2>2. k[1] \in tx[w].users /\ w # v
    BY <1>1, <2>1 DEF AttendanceWrite, DInv, RequestsHold, RequestHolds, SittingHolds
  <2>3. QED
    BY <2>1, <2>2 DEF DInv, LocksExclude
<1>2. QED
  BY <1>1, Changes DEF ByWhom, AttendanceWrite, ResetDelete

\* A request that does not move keeps what it checked, whatever another one does.
LEMMA RequestKept ==
    ASSUME DInv, [DiningNext]_allVars, NEW v \in Session, tx'[v] = tx[v],
           tx[v].op \in {"confirm", "manual", "bulk", "reconcile"}
    PROVE  RequestHolds(v)'
<1>t. tx \in [Session -> Request \cup DiningRequest] /\ tx[v] \in Request \cup DiningRequest
  BY DEF DInv, DiningTypeOK
<1>l. /\ tx[v].lock # "none"
      /\ tx[v].op = "reconcile" => tx[v].lock = "exclusive"
  BY <1>t, DiningKinds
<1>h. RequestHolds(v)
  BY DEF DInv, RequestsHold
<1>1. ~published'
  BY <1>h, <1>l, Changes DEF RequestHolds, ByWhom, PublishMonth, ReopenMonth, ExclusiveFree
<1>2. UNCHANGED holidays
  <2>1. ASSUME NEW w \in Session, NEW id \in HolidayId, DeclareWrite(w, id)
        PROVE  FALSE
    BY <1>l, <2>1, NoOtherExclusive DEF DeclareWrite
  <2>2. ASSUME NEW w \in Session, DeleteCommit(w)
        PROVE  FALSE
    BY <1>l, <2>2 DEF DeleteCommit, ExclusiveFree
  <2>3. QED
    BY <2>1, <2>2, Changes DEF ByWhom
<1>3. ASSUME NEW k \in tx[v].sittings
      PROVE  SittingHolds(tx[v], k)'
  <2>k. k \in Sitting /\ SittingHolds(tx[v], k)
    BY <1>h, <1>t, DiningKinds DEF RequestHolds
  <2>1. ASSUME k[1] \in tx[v].users, k[1] \in active
        PROVE  k[1] \in active'
    <3>1. ASSUME NEW s \in Student, SetStatus(s)
          PROVE  k[1] \in active'
      BY <2>1, <3>1 DEF SetStatus, UserRowFree
    <3>2. QED
      BY <2>1, <3>1, Changes DEF ByWhom
  <2>2. ~Closed(k[2], {k[3]}) => ~Closed(k[2], {k[3]})'
    BY <1>2 DEF Closed
  <2>3. ASSUME fines[k] = "NONE"
        PROVE  fines'[k] = "NONE"
    <3>1. ASSUME NEW w \in Session, ReconcileWrite(w)
          PROVE  FALSE
      <4>1. v = w
        BY <1>l, <3>1, NoOtherExclusive DEF ReconcileWrite
      <4>2. tx'[v].op = "idle"
        BY <1>t, <3>1, <4>1 DEF ReconcileWrite, End, Idle
      <4>3. QED
        BY <4>2
    <3>2. ASSUME NEW j \in Sitting, WaiveFine(j)
          PROVE  fines'[k] = "NONE"
      BY <2>3, <3>2 DEF WaiveFine, Waivable, DInv, DiningTypeOK
    <3>3. QED
      BY <2>3, <3>1, <3>2, Changes DEF ByWhom
  <2>4. attendance'[k] = "NONE"
    BY <1>l, <2>k, UnrecordedKept DEF SittingHolds
  <2>5. k[2] \in begun => k[2] \in begun'
    BY BegunStep
  <2>6. tx[v].op \in {"confirm", "reconcile"} => Settled(k)'
    BY <1>l, <2>k, SettledKept DEF SittingHolds
  <2>7. QED
    BY <2>k, <2>1, <2>2, <2>3, <2>4, <2>5, <2>6 DEF SittingHolds
<1>4. QED
  BY <1>1, <1>3, <1>h DEF RequestHolds

\* So every request, old or new, has what it checked.
LEMMA RequestsStep == ASSUME DInv, [DiningNext]_allVars PROVE RequestsHold'
<1> SUFFICES ASSUME NEW v \in Session, tx'[v].op \in {"confirm", "manual", "bulk", "reconcile"}
             PROVE  RequestHolds(v)'
  BY DEF RequestsHold
<1>1. CASE tx'[v] = tx[v]
  BY <1>1, RequestKept
<1>2. CASE tx'[v] # tx[v]
  BY <1>2, Beginnings, ConfirmHolds, ManualHolds, BulkHolds, ReconcileHolds DEF DInv
<1>3. QED
  BY <1>1, <1>2

\* The invariant holds in every reachable state.
LEMMA DiningInvariance == DiningSpec => []DInv
<1>1. ASSUME DInv, [DiningNext]_allVars
      PROVE  DInv'
  BY <1>1, MealsInvStep, DiningTypeStep, LocksStep, RequestsStep DEF DInv
<1>2. DiningInit => DInv
  BY DInvInit
<1>3. QED
  BY <1>1, <1>2, PTL DEF DiningSpec

------------------------------------------------------------------------------
(***************************************************************************)
(* Hidden requests aside, every behaviour of Attendance is one of Meals:   *)
(* what MealsProofs proves of M!Spec holds with scans, manual entries and  *)
(* reconciliations running among the selections and the holidays.          *)
(***************************************************************************)
THEOREM ImplementsMeals == DiningSpec => M!Spec
<1>1. DInv /\ [DiningNext]_allVars => [M!Next]_(M!vars)
  BY MealsStep, DiningTx DEF DInv
<1>2. DiningInit => M!Init
  BY MealsInit
<1>3. QED
  BY <1>1, <1>2, DiningInvariance, PTL DEF DiningSpec, M!Spec

\* So with attendance and fines running, meal planning is still the atomic book of choices.
THEOREM DiningKeepsChoiceBook == DiningSpec => M!ImplementsChoiceBook
  BY ImplementsMeals, M!RefinesChoiceBook, MaxCutsAssumption, DateAssumption, PTL
     DEF M!IsFiniteSet, IsFiniteSet

\* Every variable of Attendance has its type.
THEOREM DiningTypeCorrect == DiningSpec => []DiningTypeOK
<1>1. DInv => DiningTypeOK
  BY DEF DInv
<1>2. QED
  BY <1>1, DiningInvariance, PTL

\* A fine is written by a reconciliation that checked for it, with the month to itself.
LEMMA FineWritten ==
    ASSUME DInv, [DiningNext]_allVars, NEW k \in Sitting, Fined(k)
    PROVE  /\ Settled(k) /\ attendance[k] = "NONE"
           /\ \A v \in Session :
                 tx[v].op \in {"confirm", "manual", "bulk"} => k \notin tx[v].sittings
<1>1. ASSUME NEW j \in Sitting, WaiveFine(j)
      PROVE  FALSE
  BY <1>1 DEF WaiveFine, Waivable, Fined, DInv, DiningTypeOK
<1>2. PICK w \in Session : ReconcileWrite(w)
  BY <1>1, Changes DEF ByWhom, Fined
<1>3. k \in tx[w].sittings
  BY <1>2 DEF ReconcileWrite, Fined
<1>4. Settled(k) /\ attendance[k] = "NONE"
  BY <1>2, <1>3 DEF ReconcileWrite, DInv, RequestsHold, RequestHolds, SittingHolds
<1>5. ASSUME NEW v \in Session, tx[v].op \in {"confirm", "manual", "bulk"}
      PROVE  FALSE
  BY <1>2, <1>5, DiningKinds DEF ReconcileWrite, DInv, DiningTypeOK, LocksExclude
<1>6. QED
  BY <1>4, <1>5

(***************************************************************************)
(* No student is fined who has attendance, or whose attendance is being    *)
(* recorded: the reconciliation has the month to itself from the count to  *)
(* the fine.                                                               *)
(***************************************************************************)
THEOREM FinedAreAbsent == DiningSpec => AbsentWhenFined
<1>1. DInv /\ [DiningNext]_allVars =>
         [\A k \in Sitting : Fined(k) =>
             /\ attendance[k] = "NONE"
             /\ \A w \in Session :
                   tx[w].op \in {"confirm", "manual", "bulk"} => k \notin tx[w].sittings]_allVars
  BY FineWritten
<1>2. QED
  BY <1>1, DiningInvariance, PTL DEF DiningSpec, AbsentWhenFined

(***************************************************************************)
(* A fine is charged for a meal the student has chosen, with no update of  *)
(* the choice under way, wherever the cutoff is or was.                    *)
(***************************************************************************)
THEOREM FinedChoseMeal == DiningSpec => FinedChoseToEat
<1>1. DInv /\ [DiningNext]_allVars =>
         [\A k \in Sitting : Fined(k) =>
             Choice(k) = "CONFIRMED" /\ ~Choosing(k[1], k[2])]_allVars
  BY FineWritten DEF Settled
<1>2. QED
  BY <1>1, DiningInvariance, PTL DEF DiningSpec, FinedChoseToEat

\* So is a scan recorded.
THEOREM ScannedChoseMeal == DiningSpec => ScannedChoseToEat
<1>1. ASSUME DInv, [DiningNext]_allVars, NEW k \in Sitting,
             attendance[k] # "QR", attendance'[k] = "QR"
      PROVE  Settled(k)
  <2>1. PICK w \in Session : AttendanceWrite(w)
    BY <1>1, Changes DEF ByWhom, ResetDelete
  <2>2. tx[w].op = "confirm" /\ k \in tx[w].sittings
    BY <1>1, <2>1 DEF AttendanceWrite
  <2>3. QED
    BY <1>1, <2>2 DEF DInv, RequestsHold, RequestHolds, SittingHolds
<1>2. DInv /\ [DiningNext]_allVars =>
         [\A k \in Sitting : attendance[k] # "QR" /\ attendance'[k] = "QR" =>
             Choice(k) = "CONFIRMED" /\ ~Choosing(k[1], k[2])]_allVars
  BY <1>1 DEF Settled
<1>3. QED
  BY <1>2, DiningInvariance, PTL DEF DiningSpec, ScannedChoseToEat

(***************************************************************************)
(* When attendance by scan or by hand is written the meal is still open    *)
(* and the account still active, as they were when the request checked.    *)
(***************************************************************************)
THEOREM AttendanceWhileOpen == DiningSpec => RecordedWhileOpen
<1>1. ASSUME DInv, NEW w \in Session, tx[w].op \in {"confirm", "manual"},
             NEW k \in tx[w].sittings
      PROVE  ~Closed(k[2], {k[3]}) /\ k[1] \in active
  BY <1>1 DEF DInv, RequestsHold, RequestHolds, SittingHolds
<1>2. DInv /\ [DiningNext]_allVars =>
         [\A w \in Session :
             tx[w].op \in {"confirm", "manual"} /\ attendance' # attendance /\ tx'[w] # tx[w] =>
                 \A k \in tx[w].sittings : ~Closed(k[2], {k[3]}) /\ k[1] \in active]_allVars
  BY <1>1
<1>3. QED
  BY <1>2, DiningInvariance, PTL DEF DiningSpec, RecordedWhileOpen

\* A reconciliation never charges a fine that was waived.
THEOREM WaiversLast == DiningSpec => WaivedStaysWaived
<1>1. ASSUME DInv, [DiningNext]_allVars, NEW k \in Sitting, fines[k] = "WAIVED"
      PROVE  fines'[k] = "WAIVED"
  <2>1. ASSUME NEW w \in Session, ReconcileWrite(w)
        PROVE  fines'[k] = "WAIVED"
    <3>1. k \notin tx[w].sittings
      BY <1>1, <2>1 DEF ReconcileWrite, DInv, RequestsHold, RequestHolds, SittingHolds
    <3>2. QED
      BY <1>1, <2>1, <3>1 DEF ReconcileWrite
  <2>2. ASSUME NEW j \in Sitting, WaiveFine(j)
        PROVE  fines'[k] = "WAIVED"
    BY <1>1, <2>2 DEF WaiveFine, DInv, DiningTypeOK
  <2>3. QED
    BY <1>1, <2>1, <2>2, Changes DEF ByWhom
<1>2. DInv /\ [DiningNext]_allVars =>
         [\A k \in Sitting : fines[k] = "WAIVED" => fines'[k] = "WAIVED"]_allVars
  BY <1>1
<1>3. QED
  BY <1>2, DiningInvariance, PTL DEF DiningSpec, WaivedStaysWaived

(***************************************************************************)
(* The fines a published bill was computed from do not change: neither by  *)
(* a reconciliation that began before the publication, nor by a waiver.    *)
(***************************************************************************)
THEOREM PublishedFinesAreFrozen == DiningSpec => FinesFrozenWhilePublished
<1>1. ASSUME DInv, [DiningNext]_allVars, published
      PROVE  UNCHANGED fines
  <2>1. ASSUME NEW w \in Session, ReconcileWrite(w)
        PROVE  UNCHANGED fines
    BY <1>1, <2>1 DEF ReconcileWrite, DInv, RequestsHold, RequestHolds
  <2>2. ASSUME NEW j \in Sitting, WaiveFine(j)
        PROVE  FALSE
    BY <1>1, <2>2 DEF WaiveFine, Waivable
  <2>3. QED
    BY <1>1, <2>1, <2>2, Changes DEF ByWhom
<1>2. DInv /\ [DiningNext]_allVars => [published /\ published' => UNCHANGED fines]_allVars
  BY <1>1
<1>3. QED
  BY <1>2, DiningInvariance, PTL DEF DiningSpec, FinesFrozenWhilePublished

------------------------------------------------------------------------------
(***************************************************************************)
(* Attendance implements the book of who ate, who missed and who was let   *)
(* off.  Its choices and closures are those of Meals, which the steps of   *)
(* the book of choices account for; what is new are the writes of the      *)
(* requests for attendance and fines, each with what it checked.           *)
(***************************************************************************)
\* What is chosen and closed does not depend on the sessions.
LEMMA SameChoices == M!BookChoice = BookChoice /\ M!BookClosed = BookClosed
  BY SameChecks DEF M!BookChoice, BookChoice, M!BookClosed, BookClosed

\* Requests for attendance are no orders.
LEMMA SameOrders == TxOK => M!BookOrders = BookOrders
<1> SUFFICES ASSUME TxOK PROVE M!BookOrders = BookOrders
  OBVIOUS
<1>1. \A w \in Session : /\ MealsTx[w].op = "select" <=> tx[w].op = "select"
                         /\ tx[w].op = "select" => MealsTx[w] = tx[w]
  BY DEF MealsTx, MealsOps, Idle
<1>2. \A t : M!OrderOf(t) = OrderOf(t)
  BY DEF M!OrderOf, OrderOf
<1>3. QED
  BY <1>1, <1>2 DEF M!BookOrders, BookOrders

\* Both books are about the same choices, closures and orders.
LEMMA SameBook ==
    TxOK => /\ M!BookChoice = BookChoice
            /\ M!BookClosed = BookClosed
            /\ M!BookOrders = BookOrders
            /\ \A d : M!Book!Served(d) = Table!Served(d)
            /\ \A s : M!Book!CutDays(s) = Table!CutDays(s)
<1> SUFFICES ASSUME TxOK
             PROVE  /\ \A d : M!Book!Served(d) = Table!Served(d)
                    /\ \A s : M!Book!CutDays(s) = Table!CutDays(s)
  BY SameChoices, SameOrders
<1>1. \A d : M!Book!Served(d) = Table!Served(d)
  BY SameChoices DEF M!Book!Served, Table!Served
<1>2. QED
  BY <1>1, SameChoices DEF M!Book!CutDays, Table!CutDays

\* The same after a step.
LEMMA SameBookAfter ==
    (TxOK => /\ M!BookChoice = BookChoice
             /\ M!BookClosed = BookClosed
             /\ M!BookOrders = BookOrders
             /\ \A d : M!Book!Served(d) = Table!Served(d)
             /\ \A s : M!Book!CutDays(s) = Table!CutDays(s))'
  BY SameBook, PTL

\* A step of the one book is the same step of the other.
LEMMA SameBookSteps ==
    ASSUME TxOK, TxOK', [M!Book!Next]_(M!Book!bookVars)
    PROVE  [Table!Next]_(Table!bookVars)
<1> USE SameBook, SameBookAfter DEF M!Book!month, Table!month
<1>s. M!Book!Scope = Table!Scope /\ M!Book!Order = Table!Order
  BY DEF M!Book!Scope, Table!Scope, M!Book!Order, Table!Order, M!Book!Choices, Table!Choices
<1>c. \A S : M!Book!Cardinality(S) = Table!Cardinality(S)
  BY DEF M!Book!Cardinality, Table!Cardinality
<1>1. ASSUME NEW o \in Table!Order, M!Book!Admit(o)
      PROVE  Table!Next
  BY <1>1 DEF M!Book!Admit, Table!Admit, Table!Next
<1>2. ASSUME NEW o \in BookOrders, M!Book!Withdraw(o)
      PROVE  Table!Next
  BY <1>2 DEF M!Book!Withdraw, Table!Withdraw, Table!Next
<1>3. ASSUME NEW o \in BookOrders, M!Book!Carry(o)
      PROVE  Table!Next
  <2>1. Table!Carry(o)
    BY <1>3, <1>c DEF M!Book!Carry, Table!Carry
  <2>2. QED
    BY <2>1 DEF Table!Next
<1>4. ASSUME NEW d \in Date, NEW meals \in Table!Scope, M!Book!Close(d, meals) \/ M!Book!Open(d, meals)
      PROVE  Table!Next
  BY <1>4 DEF M!Book!Close, Table!Close, M!Book!Open, Table!Open, Table!Next
<1>5. ASSUME \/ \E d \in Date : M!Book!CutoffPasses(d) \/ M!Book!DayEnds(d)
             \/ \E dates \in SUBSET Date : M!Book!MoveCutoff(dates)
      PROVE  Table!Next
  BY <1>5 DEF M!Book!CutoffPasses, Table!CutoffPasses, M!Book!DayEnds, Table!DayEnds,
              M!Book!MoveCutoff, Table!MoveCutoff, Table!Next
<1>6. ASSUME M!Book!Publish \/ M!Book!Reopen
      PROVE  Table!Next
  BY <1>6 DEF M!Book!Publish, Table!Publish, M!Book!Reopen, Table!Reopen, Table!Next
<1>7. ASSUME UNCHANGED M!Book!bookVars
      PROVE  UNCHANGED Table!bookVars
  BY <1>7 DEF M!Book!bookVars, Table!bookVars
<1>8. QED
  BY <1>s, <1>1, <1>2, <1>3, <1>4, <1>5, <1>6, <1>7 DEF M!Book!Next

\* What Attendance does on its own the book of choices does not see.
LEMMA BookUnchanged ==
    ASSUME TxOK, TxOK', UNCHANGED <<selections, holidays, past, locked, published, MealsTx>>
    PROVE  UNCHANGED Table!bookVars
<1>1. UNCHANGED <<BookChoice, BookClosed>>
  BY DEF BookChoice, Choice, BookClosed, Closed
<1>2. UNCHANGED M!BookOrders
  BY DEF M!BookOrders, M!OrderOf
<1>3. UNCHANGED BookOrders
  BY <1>2, SameBook, SameBookAfter
<1>4. QED
  BY <1>1, <1>3 DEF Table!bookVars

\* A meal that is settled, or open, is so in the book.
LEMMA BookSettled ==
    ASSUME DiningTypeOK, NEW k \in Sitting
    PROVE  /\ Settled(k) => Table!Settled(k)
           /\ Table!Closes(k) <=> Closed(k[2], {k[3]})
<1>1. k \in DOMAIN selections /\ k[2] \in Date /\ k[3] \in Meal
  BY DEF DiningTypeOK, Sitting
<1>2. ASSUME Settled(k)
      PROVE  Table!Settled(k)
  BY <1>1, <1>2 DEF Settled, Choosing, Table!Settled, BookChoice, BookOrders, OrderOf
<1>3. Table!Closes(k) <=> Closed(k[2], {k[3]})
  BY <1>1 DEF Table!Closes, BookClosed
<1>4. QED
  BY <1>2, <1>3

\* Attendance is written over nothing, all rows of a request at once.
LEMMA RecordStep ==
    ASSUME DInv, NEW w \in Session, AttendanceWrite(w), UNCHANGED Table!bookVars
    PROVE  Table!TableNext
<1> USE DEF Table!TableNext, Table!Record, Table!Sitting, Sitting
<1>1. RequestHolds(w) /\ tx[w].sittings \in SUBSET Sitting
  BY DiningKinds DEF AttendanceWrite, DInv, RequestsHold, DiningTypeOK
<1>2. UNCHANGED <<begun, active, fines>>
  BY DEF AttendanceWrite
<1>3. CASE tx[w].op = "confirm"
  <2>1. PICK k \in Sitting : tx[w].sittings = {k}
    BY <1>1, <1>3 DEF RequestHolds
  <2>2. SittingHolds(tx[w], k) /\ ~published
    BY <1>1, <2>1 DEF RequestHolds
  <2>3. Table!Settled(k) /\ ~Table!Closes(k) /\ k[2] \in begun
    BY <1>3, <2>2, BookSettled DEF SittingHolds, DInv
  <2>4. Table!Recordable(k)
    BY <1>3, <2>2 DEF SittingHolds, Table!Recordable
  <2>5. attendance' = [j \in Sitting |-> IF j \in {k} THEN "QR" ELSE attendance[j]]
    BY <1>3, <2>1 DEF AttendanceWrite
  <2>6. Table!Scan(k)
    BY <1>2, <2>3, <2>4, <2>5 DEF Table!Scan
  <2>7. QED
    BY <2>6
<1>4. CASE tx[w].op # "confirm"
  <2> DEFINE S == tx[w].sittings
  <2>1. ASSUME NEW k \in S
        PROVE  Table!Recordable(k) /\ (Table!Closes(k) => k[2] \in begun)
    <3>1. SittingHolds(tx[w], k) /\ ~published /\ k \in Sitting
      BY <1>1 DEF RequestHolds
    <3>2. QED
      BY <1>4, <3>1, BookSettled DEF SittingHolds, Table!Recordable, AttendanceWrite, DInv
  <2>2. attendance' = [j \in Sitting |-> IF j \in S THEN "HAND" ELSE attendance[j]]
    BY <1>4 DEF AttendanceWrite
  <2>3. Table!Enter(S)
    BY <1>2, <2>1, <2>2 DEF Table!Enter
  <2>4. QED
    BY <1>1, <2>3
<1>5. QED
  BY <1>3, <1>4

\* A reconciliation fines whoever chose a meal that was served and has no attendance.
LEMMA FineStep ==
    ASSUME DInv, NEW w \in Session, ReconcileWrite(w), UNCHANGED Table!bookVars
    PROVE  Table!TableNext
<1> DEFINE S == tx[w].sittings
<1>1. RequestHolds(w) /\ S \in SUBSET Sitting
  BY DiningKinds DEF ReconcileWrite, DInv, RequestsHold, DiningTypeOK
<1>2. ASSUME NEW k \in S
      PROVE  /\ Table!Settled(k) /\ ~Table!Closes(k)
             /\ k[2] \in begun
             /\ attendance[k] = "NONE" /\ fines[k] = "NONE"
  <2>1. SittingHolds(tx[w], k) /\ k \in Sitting
    BY <1>1 DEF RequestHolds
  <2>2. QED
    BY <2>1, BookSettled DEF SittingHolds, ReconcileWrite, DInv
<1>3. /\ fines' = [k \in Sitting |-> IF k \in S THEN "PENDING" ELSE fines[k]]
      /\ UNCHANGED <<begun, active, attendance>>
  BY DEF ReconcileWrite
<1>4. Table!Fine(S)
  BY <1>1, <1>2, <1>3 DEF Table!Fine, Table!Sitting, Sitting, RequestHolds
<1>5. QED
  BY <1>1, <1>4 DEF Table!TableNext, Table!Sitting, Sitting

\* A reset takes away what it finds when it deletes.
LEMMA TakeAwayStep ==
    ASSUME DInv, NEW w \in Session, ResetDelete(w), UNCHANGED Table!bookVars
    PROVE  Table!TableNext
<1>1. tx[w].scope \in SUBSET Sitting
  BY DEF ResetDelete, DInv, DiningTypeOK, Request, Idle, Selecting, Declaring, Deleting,
         DiningRequest, Requested
<1>2. Table!TakeAway(tx[w].scope)
  BY DEF ResetDelete, Table!TakeAway, Table!Record, Table!Sitting, Sitting
<1>3. QED
  BY <1>1, <1>2 DEF Table!TableNext, Table!Sitting, Sitting

\* The requests of Attendance write, or do nothing the book knows.
LEMMA TableRequest ==
    ASSUME DInv, DiningTypeOK', NEW w \in Session, AttendanceRequest(w)
    PROVE  [Table!TableNext]_<<Table!bookVars, Table!tableVars>>
<1>t. TxOK /\ TxOK'
  BY DEF DInv, DiningTypeOK, TxOK
<1>1. UNCHANGED Table!bookVars
  <2>1. UNCHANGED MealsTx
    BY <1>t, AttendanceSessions, SameSessions
  <2>2. QED
    BY <1>t, <2>1, AttendanceSessions, BookUnchanged
<1>2. \/ AttendanceWrite(w) \/ ResetDelete(w) \/ ReconcileWrite(w)
      \/ UNCHANGED diningVars
  BY DEF AttendanceRequest, ConfirmCheck, ManualCheck, BulkCheck, ResetRead, ReconcileCheck
<1>3. UNCHANGED diningVars => UNCHANGED Table!tableVars
  BY DEF diningVars, Table!tableVars
<1>4. QED
  BY <1>1, <1>2, <1>3, RecordStep, FineStep, TakeAwayStep

\* Choices, closures, the days and the publication move as in the book of choices.
LEMMA TableChoice ==
    ASSUME DInv, DiningTypeOK', SelectionsNext \/ \E d \in Date : ServedDayEnds(d)
    PROVE  [Table!TableNext]_<<Table!bookVars, Table!tableVars>>
<1>t. TxOK /\ TxOK' /\ [DiningNext]_allVars
  BY DEF DInv, DiningTypeOK, TxOK, DiningNext
<1>1. [M!Book!Next]_(M!Book!bookVars)
  <2>1. [M!Next]_(M!vars)
    BY <1>t, MealsStep
  <2>2. QED
    BY <2>1, M!BookStep, MaxCutsAssumption, DateAssumption DEF M!IsFiniteSet, IsFiniteSet, DInv
<1>2. [Table!Next]_(Table!bookVars)
  BY <1>t, <1>1, SameBookSteps
<1>3. UNCHANGED <<begun, active, attendance, fines>>
  BY DEF SelectionsNext, ServedDayEnds, diningVars
<1>4. past' \subseteq begun
  BY <1>3 DEF DiningTypeOK
<1>5. Table!Next => Table!ChoiceMoves
  BY <1>3, <1>4 DEF Table!ChoiceMoves, Table!tableVars
<1>6. QED
  BY <1>2, <1>3, <1>5 DEF Table!TableNext, Table!tableVars

\* So do the steps that are no request's.
LEMMA TableOther ==
    ASSUME DInv, DiningTypeOK',
           \/ \E k \in Sitting : WaiveFine(k)
           \/ \E s \in Student : SetStatus(s)
           \/ \E d \in Date : DayBegins(d)
           \/ UNCHANGED allVars
    PROVE  [Table!TableNext]_<<Table!bookVars, Table!tableVars>>
<1>t. TxOK /\ TxOK'
  BY DEF DInv, DiningTypeOK, TxOK
<1>1. UNCHANGED Table!bookVars
  BY <1>t, OtherSteps, BookUnchanged DEF vars, MealsTx
<1> USE DEF Table!TableNext, Table!Sitting, Sitting
<1>2. ASSUME NEW k \in Sitting, WaiveFine(k)
      PROVE  Table!TableNext
  <2>1. Table!Waive(k)
    BY <1>1, <1>2 DEF WaiveFine, Waivable, Table!Waive
  <2>2. QED
    BY <2>1
<1>3. ASSUME NEW s \in Student, SetStatus(s)
      PROVE  Table!TableNext
  <2>1. Table!SetStatus(s)
    BY <1>1, <1>3 DEF SetStatus, Table!SetStatus
  <2>2. QED
    BY <2>1
<1>4. ASSUME NEW d \in Date, DayBegins(d)
      PROVE  Table!TableNext
  <2>1. Table!DayBegins(d)
    BY <1>1, <1>4 DEF DayBegins, Table!DayBegins
  <2>2. QED
    BY <2>1
<1>5. ASSUME UNCHANGED allVars
      PROVE  UNCHANGED Table!tableVars
  BY <1>5 DEF allVars, diningVars, Table!tableVars
<1>6. QED
  BY <1>1, <1>2, <1>3, <1>4, <1>5

(***************************************************************************)
(* With rows, sessions and locks hidden, attendance and fines are  *)
(* the atomic book of who ate, who missed and who was let off.             *)
(***************************************************************************)
THEOREM RefinesDiningBook == DiningSpec => ImplementsDiningBook
<1>1. DiningInit => Table!TableInit
  <2> SUFFICES ASSUME DiningInit PROVE Table!TableInit
    OBVIOUS
  <2>1. BookChoice = [k \in Student \X Date \X Meal |-> "CONFIRMED"]
    BY DEF DiningInit, Init, BookChoice, Choice
  <2>2. BookClosed = {} /\ BookOrders = {}
    BY DEF DiningInit, Init, BookClosed, Closed, BookOrders, Idle
  <2>3. QED
    BY <2>1, <2>2 DEF DiningInit, Init, Table!TableInit, Table!Init, Table!Sitting, Sitting
<1>2. ASSUME DInv, [DiningNext]_allVars
      PROVE  [Table!TableNext]_<<Table!bookVars, Table!tableVars>>
  BY <1>2, DiningTypeStep, TableRequest, TableChoice, TableOther DEF DiningNext
<1>3. QED
  BY DiningInvariance, <1>1, <1>2, PTL DEF DiningSpec, Table!TableSpec, ImplementsDiningBook
===============================================================================
