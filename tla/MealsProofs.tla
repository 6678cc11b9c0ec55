----------------------------- MODULE MealsProofs -----------------------------
(***************************************************************************)
(* The safety properties of Meals for any number of students, dates,       *)
(* meals, holidays and sessions.                                           *)
(***************************************************************************)
EXTENDS Meals, TLAPS, FiniteSetTheorems

\* The operation of a request tells its kind, and with it its locks.
LEMMA RequestKinds ==
    ASSUME NEW t \in Request
    PROVE  /\ t.op = "select" => t \in Selecting
           /\ t.op = "declare" => t \in Declaring
           /\ t.op = "delete" => t \in Deleting
           /\ t.op = "idle" => t = Idle
           /\ t.op \in {"select", "declare", "delete", "idle"}
           /\ t.lock = "shared" <=> t.op = "select"
           /\ t.lock = "exclusive" <=> t.op = "declare"
  BY DEF Request, Idle, Selecting, Declaring, Deleting

\* A meal is always asked for as one of the scopes of the day.
LEMMA ScopeMeals == ASSUME NEW meals \in Scope PROVE meals \subseteq Meal
  BY DEF Scope

\* A reverted row is as it was before its holiday.
LEMMA RevertedRow ==
    ASSUME NEW row \in Row \cup {NoRow}, row.status = "NO_SERVICE", row.before # "NONE"
    PROVE  /\ Reverted(row) \in Row
           /\ Reverted(row).status = row.before
           /\ row.before \in Choices
  BY DEF Reverted, Row, NoRow

------------------------------------------------------------------------------
(***************************************************************************)
(* The inductive invariant.  LockInv: an exclusive month lock is alone and *)
(* a users row is locked by one session.  RequestInv: what a request       *)
(* checked still holds while it keeps its locks.  RowsRemember: a row that *)
(* says NO_SERVICE knows what to go back to, so that any deletion that     *)
(* covers it, late or not, restores it.                                    *)
(***************************************************************************)
LockInv ==
    \A w, v \in Session :
        w # v =>
            /\ tx[w].lock = "exclusive" => tx[v].lock = "none"
            /\ tx[w].users \cap tx[v].users = {}

SelectOK(t) ==
    LET skipped == Projected(t.student, t.date, t.meals, t.target)
    IN  /\ ~published
        /\ t.users = {t.student}
        /\ ~Closed(t.date, t.meals)
        /\ skipped \in {{}, Meal}
        /\ LimitAllows(t.student, t.date, skipped)

RequestOK(w) ==
    /\ tx[w].op = "select" => SelectOK(tx[w])
    /\ tx[w].op = "declare" => ~published /\ ~Closed(tx[w].date, tx[w].meals)

RequestInv == \A w \in Session : RequestOK(w)

RowsRemember ==
    \A k \in DOMAIN selections :
        selections[k].status = "NO_SERVICE" => selections[k].before # "NONE"

IInv ==
    /\ TypeOK
    /\ LockInv
    /\ RequestInv
    /\ RowsRemember
    /\ HolidaysDisjoint
    /\ NoServiceMeansHoliday

\* The invariant holds initially.
LEMMA InvInit == Init => IInv
<1> SUFFICES ASSUME Init PROVE IInv
  OBVIOUS
<1> USE DEF Init, NoRow, Idle
<1>1. TypeOK
  BY DEF TypeOK, Request
<1>2. LockInv /\ RequestInv
  BY DEF LockInv, RequestInv, RequestOK
<1>3. RowsRemember /\ HolidaysDisjoint /\ NoServiceMeansHoliday
  BY DEF RowsRemember, HolidaysDisjoint, NoServiceMeansHoliday
<1>4. QED
  BY <1>1, <1>2, <1>3 DEF IInv

------------------------------------------------------------------------------
(***************************************************************************)
(* The steps of Meals, one by one, with a session, where they have one.    *)
(***************************************************************************)
Quiet(w) ==
    \/ \E h \in holidays : DeleteRead(w, h)
    \/ Rollback(w)

Clock ==
    \/ \E d \in Date : CutoffPasses(d) \/ DayEnds(d)
    \/ \E dates \in SUBSET Date : UpdateCutoff(dates)

\* Time and the administrator's settings change no row and no request.
LEMMA ClockStep ==
    ASSUME Clock
    PROVE  UNCHANGED <<selections, holidays, issued, published, tx>>
  BY DEF Clock, CutoffPasses, DayEnds, UpdateCutoff

\* Every step is one of these ten.
LEMMA Steps ==
    ASSUME [Next]_vars
    PROVE  \/ \E w \in Session, s \in Student, d \in Date, meals \in Scope, t \in Choices :
                 SelectCheck(w, s, d, meals, t)
           \/ \E w \in Session : SelectWrite(w)
           \/ \E w \in Session, d \in Date, meals \in Scope : DeclareCheck(w, d, meals)
           \/ \E w \in Session, id \in HolidayId : DeclareWrite(w, id)
           \/ \E w \in Session : DeleteCommit(w)
           \/ \E w \in Session : Quiet(w)
           \/ Clock
           \/ PublishMonth
           \/ ReopenMonth
           \/ UNCHANGED vars
  BY DEF Next, SelectionRequest, HolidayRequest, Quiet, Clock

\* Type correctness of one step.
LEMMA TypeStep ==
    ASSUME TypeOK, [Next]_vars
    PROVE  TypeOK'
<1> USE DEF TypeOK, month
<1>e. ASSUME NEW w \in Session, End(w)
      PROVE  tx' \in [Session -> Request]
  BY <1>e DEF End, Request
<1>1. ASSUME NEW w \in Session, NEW s \in Student, NEW d \in Date, NEW meals \in Scope,
             NEW t \in Choices, SelectCheck(w, s, d, meals, t)
      PROVE  TypeOK'
  <2>1. tx' \in [Session -> Request]
    BY <1>1 DEF SelectCheck, Begin, Request, Selecting
  <2>2. QED
    BY <1>1, <2>1 DEF SelectCheck
<1>2. ASSUME NEW w \in Session, SelectWrite(w)
      PROVE  TypeOK'
  <2>1. tx[w] \in Selecting
    BY <1>2, RequestKinds DEF SelectWrite
  <2>2. selections' \in [Student \X Date \X Meal -> Row \cup {NoRow}]
    BY <1>2, <2>1 DEF SelectWrite, Selecting, Row, NoRow
  <2>3. QED
    BY <1>2, <1>e, <2>2 DEF SelectWrite
<1>3. ASSUME NEW w \in Session, NEW d \in Date, NEW meals \in Scope, DeclareCheck(w, d, meals)
      PROVE  TypeOK'
  <2>1. tx' \in [Session -> Request]
    BY <1>3 DEF DeclareCheck, Begin, Request, Declaring
  <2>2. QED
    BY <1>3, <2>1 DEF DeclareCheck
<1>4. ASSUME NEW w \in Session, NEW id \in HolidayId, DeclareWrite(w, id)
      PROVE  TypeOK'
  <2>1. tx[w] \in Declaring
    BY <1>4, RequestKinds DEF DeclareWrite
  <2>2. holidays' \subseteq Holiday
    BY <1>4, <2>1 DEF DeclareWrite, Declaring, Holiday
  <2>3. selections' \in [Student \X Date \X Meal -> Row \cup {NoRow}]
    BY <1>4 DEF DeclareWrite, Stops, Row, NoRow
  <2>4. QED
    BY <1>4, <1>e, <2>2, <2>3 DEF DeclareWrite
<1>5. ASSUME NEW w \in Session, DeleteCommit(w)
      PROVE  TypeOK'
  <2>1. selections' \in [Student \X Date \X Meal -> Row \cup {NoRow}]
    <3>1. ASSUME NEW k \in DOMAIN selections, Reverts(tx[w].holiday, k)
          PROVE  Reverted(selections[k]) \in Row \cup {NoRow}
      BY <3>1, RevertedRow DEF Reverts
    <3>2. QED
      BY <1>5, <3>1 DEF DeleteCommit
  <2>2. QED
    BY <1>5, <1>e, <2>1 DEF DeleteCommit
<1>6. ASSUME NEW w \in Session, Quiet(w)
      PROVE  TypeOK'
  <2>1. ASSUME NEW h \in holidays, DeleteRead(w, h)
        PROVE  TypeOK'
    <3>1. tx' \in [Session -> Request]
      BY <2>1 DEF DeleteRead, Begin, Request, Deleting
    <3>2. QED
      BY <2>1, <3>1 DEF DeleteRead
  <2>2. CASE Rollback(w)
    BY <1>e, <2>2 DEF Rollback
  <2>3. QED
    BY <1>6, <2>1, <2>2 DEF Quiet
<1>7. ASSUME Clock \/ PublishMonth \/ ReopenMonth \/ UNCHANGED vars
      PROVE  TypeOK'
  BY <1>7 DEF Clock, CutoffPasses, DayEnds, UpdateCutoff, PublishMonth, ReopenMonth, vars
<1>8. QED
  BY <1>1, <1>2, <1>3, <1>4, <1>5, <1>6, <1>7, Steps

\* Locks keep excluding each other.
LEMMA LockStep ==
    ASSUME TypeOK, LockInv, [Next]_vars
    PROVE  LockInv'
<1> USE DEF LockInv, Idle
<1>t. tx \in [Session -> Request]
  BY DEF TypeOK
<1>e. ASSUME NEW w \in Session, End(w)
      PROVE  LockInv'
  BY <1>e, <1>t DEF End
<1>1. ASSUME NEW w \in Session, NEW s \in Student, NEW d \in Date, NEW meals \in Scope,
             NEW t \in Choices, SelectCheck(w, s, d, meals, t)
      PROVE  LockInv'
  BY <1>1, <1>t DEF SelectCheck, Begin, SharedFree, UserRowFree
<1>2. ASSUME NEW w \in Session, NEW d \in Date, NEW meals \in Scope, DeclareCheck(w, d, meals)
      PROVE  LockInv'
  BY <1>2, <1>t DEF DeclareCheck, Begin, ExclusiveFree
<1>3. ASSUME NEW w \in Session, NEW h \in holidays, DeleteRead(w, h)
      PROVE  LockInv'
  BY <1>3, <1>t DEF DeleteRead, Begin
<1>4. ASSUME UNCHANGED tx
      PROVE  LockInv'
  BY <1>4
<1>5. QED
  BY <1>1, <1>2, <1>3, <1>e, <1>4, Steps, ClockStep
     DEF SelectWrite, DeclareWrite, DeleteCommit, Quiet, Rollback, PublishMonth, ReopenMonth, vars

(***************************************************************************)
(* A step that changes rows or holidays is the write of a session, and     *)
(* nobody else is then under way with a request for the same rows.         *)
(***************************************************************************)
LEMMA Writers ==
    ASSUME [Next]_vars
    PROVE  \/ UNCHANGED <<selections, holidays>>
           \/ \E w \in Session : SelectWrite(w)
           \/ \E w \in Session, id \in HolidayId : DeclareWrite(w, id)
           \/ \E w \in Session : DeleteCommit(w)
  BY Steps, ClockStep
     DEF SelectCheck, DeclareCheck, DeleteRead, Quiet, Rollback, PublishMonth, ReopenMonth, vars

\* A select request of v is not disturbed by anything that leaves its student alone.
LEMMA SelectKept ==
    ASSUME NEW t, SelectOK(t), UNCHANGED <<holidays, published>>,
           \A k \in DOMAIN selections : k[1] = t.student => selections'[k] = selections[k],
           TypeOK, t.student \in Student, t.date \in Date
    PROVE  SelectOK(t)'
<1>1. \A m \in Meal, d \in Date : selections'[<<t.student, d, m>>] = selections[<<t.student, d, m>>]
  BY DEF TypeOK
<1>2. \A d \in Date, m \in Meal : Status(t.student, d, m)' = Status(t.student, d, m)
  BY <1>1 DEF Status, Closed
<1>3. \A d \in Date : Skipped(t.student, d)' = Skipped(t.student, d)
  BY <1>1 DEF Skipped
<1>4. CutDays(t.student)' = CutDays(t.student)
  BY <1>3 DEF CutDays
<1>5. Projected(t.student, t.date, t.meals, t.target)' =
      Projected(t.student, t.date, t.meals, t.target)
  BY <1>2 DEF Projected
<1>6. Closed(t.date, t.meals)' = Closed(t.date, t.meals)
  BY DEF Closed
<1>7. QED
  BY <1>4, <1>5, <1>6 DEF SelectOK, LimitAllows

\* What a request checked still holds after the step of any session.
LEMMA RequestStep ==
    ASSUME TypeOK, LockInv, RequestInv, [Next]_vars, NEW v \in Session
    PROVE  RequestOK(v)'
<1> USE DEF month
<1>t. tx \in [Session -> Request] /\ tx[v] \in Request /\ RequestOK(v)
  BY DEF TypeOK, RequestInv
<1>i. ASSUME tx'[v].op \notin {"select", "declare"}
      PROVE  RequestOK(v)'
  BY <1>i DEF RequestOK
<1>n. ASSUME tx'[v] = tx[v], tx[v].lock = "none"
      PROVE  RequestOK(v)'
  BY <1>n, <1>t, RequestKinds DEF RequestOK
<1>d. ASSUME NEW w \in Session, End(w)
      PROVE  (v = w => RequestOK(v)') /\ (v # w => tx'[v] = tx[v])
  BY <1>d, <1>t, <1>i DEF End, Idle
<1>k. ASSUME tx'[v] = tx[v], UNCHANGED <<selections, holidays, published>>
      PROVE  RequestOK(v)'
  BY <1>k, <1>t DEF RequestOK, SelectOK, Projected, LimitAllows, CutDays, Skipped, Status, Closed
<1>1. ASSUME NEW w \in Session, NEW s \in Student, NEW d \in Date, NEW meals \in Scope,
             NEW t \in Choices, SelectCheck(w, s, d, meals, t)
      PROVE  RequestOK(v)'
  <2>1. CASE v # w
    BY <1>1, <1>k, <1>t, <2>1 DEF SelectCheck, Begin
  <2>2. CASE v = w
    <3> DEFINE r == [op |-> "select", lock |-> "shared", users |-> {s},
                     student |-> s, date |-> d, meals |-> meals, target |-> t]
    <3>1. tx'[v] = r
      BY <1>1, <1>t, <2>2 DEF SelectCheck, Begin
    <3>2. SelectOK(r)
      BY <1>1 DEF SelectCheck, SelectOK
    <3>3. SelectOK(r)'
      BY <1>1, <3>2
         DEF SelectCheck, SelectOK, Projected, LimitAllows, CutDays, Skipped, Status, Closed
    <3>4. QED
      BY <3>1, <3>3 DEF RequestOK
  <2>3. QED
    BY <2>1, <2>2
<1>2. ASSUME NEW w \in Session, SelectWrite(w), v # w
      PROVE  RequestOK(v)'
  <2>1. tx'[v] = tx[v] /\ UNCHANGED <<holidays, published>>
    BY <1>2, <1>d DEF SelectWrite
  <2>2. CASE tx[v].op = "select"
    <3>1. tx[v] \in Selecting /\ tx[w] \in Selecting
      BY <1>2, <1>t, <2>2, RequestKinds DEF SelectWrite
    <3>2. SelectOK(tx[v]) /\ SelectOK(tx[w])
      BY <1>2, <2>2 DEF RequestInv, RequestOK, SelectWrite
    <3>3. tx[v].student # tx[w].student
      BY <1>2, <3>2 DEF SelectOK, LockInv
    <3>4. \A k \in DOMAIN selections : k[1] = tx[v].student => selections'[k] = selections[k]
      BY <1>2, <3>3 DEF SelectWrite
    <3>5. tx[v].student \in Student /\ tx[v].date \in Date
      BY <3>1 DEF Selecting
    <3>6. \A q : q = tx[v] => SelectOK(q)'
      <4> SUFFICES ASSUME NEW q, q = tx[v] PROVE SelectOK(q)'
        OBVIOUS
      <4>1. SelectOK(q)
        BY <3>2
      <4>2. \A k \in DOMAIN selections : k[1] = q.student => selections'[k] = selections[k]
        BY <3>4
      <4>3. q.student \in Student /\ q.date \in Date
        BY <3>5
      <4>4. QED
        BY <2>1, <4>1, <4>2, <4>3, SelectKept
    <3>7. QED
      BY <2>1, <2>2, <3>6 DEF RequestOK
  <2>3. CASE tx[v].op # "select"
    BY <1>t, <2>1, <2>3 DEF RequestOK, Closed
  <2>4. QED
    BY <2>2, <2>3
<1>3. ASSUME NEW w \in Session, NEW d \in Date, NEW meals \in Scope, DeclareCheck(w, d, meals)
      PROVE  RequestOK(v)'
  <2>1. CASE v # w
    BY <1>3, <1>k, <1>t, <2>1 DEF DeclareCheck, Begin
  <2>2. CASE v = w
    BY <1>3, <1>t, <2>2 DEF DeclareCheck, Begin, RequestOK, Closed
  <2>3. QED
    BY <2>1, <2>2
<1>4. ASSUME NEW w \in Session, NEW id \in HolidayId, DeclareWrite(w, id), v # w
      PROVE  RequestOK(v)'
  <2>1. tx[w].lock = "exclusive"
    BY <1>4, <1>t, RequestKinds DEF DeclareWrite
  <2>2. tx[v].lock = "none"
    BY <1>4, <2>1 DEF LockInv
  <2>3. QED
    BY <1>4, <1>d, <1>n, <2>2 DEF DeclareWrite
<1>5. ASSUME NEW w \in Session, DeleteCommit(w), v # w
      PROVE  RequestOK(v)'
  BY <1>5, <1>d, <1>n DEF DeleteCommit, ExclusiveFree
<1>6. ASSUME NEW w \in Session, Quiet(w), v # w
      PROVE  RequestOK(v)'
  <2>1. tx'[v] = tx[v] /\ UNCHANGED <<selections, holidays, published>>
    BY <1>6, <1>d, <1>t DEF Quiet, DeleteRead, Rollback, Begin
  <2>2. QED
    BY <1>k, <2>1
<1>7. ASSUME NEW w \in Session,
             SelectWrite(w) \/ (\E id \in HolidayId : DeclareWrite(w, id)) \/ DeleteCommit(w)
               \/ Rollback(w),
             v = w
      PROVE  RequestOK(v)'
  BY <1>7, <1>d DEF SelectWrite, DeclareWrite, DeleteCommit, Rollback
<1>8. ASSUME NEW w \in Session, NEW h \in holidays, DeleteRead(w, h), v = w
      PROVE  RequestOK(v)'
  BY <1>8, <1>t, <1>i DEF DeleteRead, Begin
<1>9. ASSUME PublishMonth \/ ReopenMonth
      PROVE  RequestOK(v)'
  BY <1>9, <1>n DEF PublishMonth, ReopenMonth, ExclusiveFree
<1>10. ASSUME Clock \/ UNCHANGED vars
       PROVE  RequestOK(v)'
  BY <1>10, <1>k, ClockStep DEF vars
<1>11. ASSUME NEW w \in Session, Quiet(w)
       PROVE  RequestOK(v)'
  BY <1>11, <1>6, <1>7, <1>8 DEF Quiet
<1>12. QED
  BY <1>1, <1>2, <1>3, <1>4, <1>5, <1>7, <1>9, <1>10, <1>11, Steps

------------------------------------------------------------------------------
(***************************************************************************)
(* What the three writing steps do to a row, without the session.          *)
(***************************************************************************)
\* A selection is written only while no holiday closes what it is for.
LEMMA SelectEffect ==
    ASSUME IInv, NEW w \in Session, SelectWrite(w)
    PROVE  /\ UNCHANGED holidays
           /\ ~published
           /\ tx[w] \in Selecting
           /\ SelectOK(tx[w])
           /\ \A k \in DOMAIN selections :
                 \/ selections'[k] = selections[k]
                 \/ /\ k[1] = tx[w].student /\ k[2] = tx[w].date /\ k[3] \in tx[w].meals
                    /\ selections'[k].status = tx[w].target
<1>1. tx[w] \in Selecting
  BY RequestKinds DEF IInv, TypeOK, SelectWrite
<1>2. SelectOK(tx[w])
  BY DEF IInv, RequestInv, RequestOK, SelectWrite
<1>3. QED
  BY <1>1, <1>2 DEF SelectWrite, SelectOK

\* A declaration closes a scope no other holiday closes, for the rows it stops.
LEMMA DeclareEffect ==
    ASSUME IInv, NEW w \in Session, NEW id \in HolidayId, DeclareWrite(w, id)
    PROVE  \E d \in Date, meals \in Scope :
              /\ ~published /\ ~Closed(d, meals)
              /\ holidays' = holidays \cup {[id |-> id, date |-> d, meals |-> meals]}
              /\ \A k \in DOMAIN selections :
                    IF Stops(d, meals, k)
                    THEN selections'[k] = [status |-> "NO_SERVICE", before |-> selections[k].status]
                    ELSE selections'[k] = selections[k]
<1>1. tx[w] \in Declaring
  BY RequestKinds DEF IInv, TypeOK, DeclareWrite
<1>2. ~published /\ ~Closed(tx[w].date, tx[w].meals)
  BY DEF IInv, RequestInv, RequestOK, DeclareWrite
<1>3. QED
  BY <1>1, <1>2 DEF DeclareWrite, Declaring

\* A deletion, also one that comes too late, restores the rows of its holiday.
LEMMA DeleteEffect ==
    ASSUME IInv, NEW w \in Session, DeleteCommit(w)
    PROVE  \E h \in Holiday :
              /\ ~published
              /\ holidays' = holidays \ {h}
              /\ \A k \in DOMAIN selections :
                    IF Reverts(h, k)
                    THEN selections'[k] = Reverted(selections[k])
                    ELSE selections'[k] = selections[k]
<1>1. tx[w] \in Deleting
  BY RequestKinds DEF IInv, TypeOK, DeleteCommit
<1>2. QED
  BY <1>1 DEF DeleteCommit, Deleting

\* The keys of the rows are always the same.
LEMMA SameKeys ==
    ASSUME IInv, [Next]_vars
    PROVE  DOMAIN selections' = DOMAIN selections
  BY TypeStep DEF IInv, TypeOK

\* The facts about rows and holidays are kept by every step.
LEMMA RowsStep ==
    ASSUME IInv, [Next]_vars
    PROVE  RowsRemember' /\ HolidaysDisjoint' /\ NoServiceMeansHoliday'
<1>t. /\ DOMAIN selections' = DOMAIN selections
      /\ \A k \in DOMAIN selections : selections[k] \in Row \cup {NoRow}
  BY SameKeys DEF IInv, TypeOK
<1> USE DEF RowsRemember, HolidaysDisjoint, NoServiceMeansHoliday, Closed
<1>1. CASE UNCHANGED <<selections, holidays>>
  BY <1>1 DEF IInv
<1>2. ASSUME NEW w \in Session, SelectWrite(w)
      PROVE  RowsRemember' /\ HolidaysDisjoint' /\ NoServiceMeansHoliday'
  <2>1. \A k \in DOMAIN selections :
           selections'[k] = selections[k] \/ selections'[k].status # "NO_SERVICE"
    BY <1>2, SelectEffect DEF Selecting, Choices
  <2>2. UNCHANGED holidays
    BY <1>2 DEF SelectWrite
  <2>3. QED
    BY <1>t, <2>1, <2>2 DEF IInv
<1>3. ASSUME NEW w \in Session, NEW id \in HolidayId, DeclareWrite(w, id)
      PROVE  RowsRemember' /\ HolidaysDisjoint' /\ NoServiceMeansHoliday'
  <2>1. PICK d \in Date, meals \in Scope :
           /\ ~Closed(d, meals)
           /\ holidays' = holidays \cup {[id |-> id, date |-> d, meals |-> meals]}
           /\ \A k \in DOMAIN selections :
                 IF Stops(d, meals, k)
                 THEN selections'[k] = [status |-> "NO_SERVICE", before |-> selections[k].status]
                 ELSE selections'[k] = selections[k]
    BY <1>3, DeclareEffect
  <2>2. RowsRemember'
    BY <1>t, <2>1 DEF IInv, Stops, Row, NoRow, Choices
  <2>3. HolidaysDisjoint'
    BY <2>1 DEF IInv
  <2>4. NoServiceMeansHoliday'
    <3> SUFFICES ASSUME NEW k \in DOMAIN selections, selections'[k].status = "NO_SERVICE"
                 PROVE  Closed(k[2], {k[3]})'
      BY <1>t
    <3> DEFINE g == [id |-> id, date |-> d, meals |-> meals]
    <3>1. CASE Stops(d, meals, k)
      <4>1. g \in holidays' /\ g.date = k[2] /\ g.meals \cap {k[3]} # {}
        BY <2>1, <3>1 DEF Stops
      <4>2. QED
        BY <4>1
    <3>2. CASE ~Stops(d, meals, k)
      <4>1. Closed(k[2], {k[3]})
        BY <2>1, <3>2 DEF IInv
      <4>2. QED
        BY <2>1, <4>1
    <3>3. QED
      BY <3>1, <3>2
  <2>5. QED
    BY <2>2, <2>3, <2>4
<1>4. ASSUME NEW w \in Session, DeleteCommit(w)
      PROVE  RowsRemember' /\ HolidaysDisjoint' /\ NoServiceMeansHoliday'
  <2>1. PICK h \in Holiday :
           /\ holidays' = holidays \ {h}
           /\ \A k \in DOMAIN selections :
                 IF Reverts(h, k)
                 THEN selections'[k] = Reverted(selections[k])
                 ELSE selections'[k] = selections[k]
    BY <1>4, DeleteEffect
  <2>2. \A k \in DOMAIN selections :
           selections'[k].status = "NO_SERVICE" => ~Reverts(h, k) /\ selections'[k] = selections[k]
    BY <1>t, <2>1, RevertedRow DEF Reverts, Choices
  <2>3. RowsRemember' /\ HolidaysDisjoint'
    BY <1>t, <2>1, <2>2 DEF IInv
  <2>4. NoServiceMeansHoliday'
    <3> SUFFICES ASSUME NEW k \in DOMAIN selections, selections'[k].status = "NO_SERVICE"
                 PROVE  Closed(k[2], {k[3]})'
      BY <1>t
    <3>1. PICK g \in holidays : g.date = k[2] /\ g.meals \cap {k[3]} # {}
      BY <2>2 DEF IInv
    <3>2. g # h
      BY <2>2, <3>1 DEF Reverts, IInv
    <3>3. QED
      BY <2>1, <3>1, <3>2
  <2>5. QED
    BY <2>3, <2>4
<1>5. QED
  BY <1>1, <1>2, <1>3, <1>4, Writers

\* Every step keeps it.
LEMMA InvStep == ASSUME IInv, [Next]_vars PROVE IInv'
  BY TypeStep, LockStep, RequestStep, RowsStep DEF IInv, RequestInv

\* So it holds in every reachable state.
LEMMA Invariance == Spec => []IInv
<1>1. IInv /\ [Next]_vars => IInv'
  BY InvStep
<1>2. QED
  BY <1>1, InvInit, PTL DEF Spec

------------------------------------------------------------------------------
\* Every variable of Meals keeps its type, whatever the numbers of everything.
THEOREM TypeCorrect == Spec => []TypeOK
  BY Invariance, PTL DEF IInv

\* No two holidays close the same meal, in any order of declarations.
THEOREM HolidaysAreDisjoint == Spec => []HolidaysDisjoint
  BY Invariance, PTL DEF IInv

\* A selection says NO_SERVICE only under a holiday, also after late deletions.
THEOREM NoServiceIsHoliday == Spec => []NoServiceMeansHoliday
  BY Invariance, PTL DEF IInv

(***************************************************************************)
(* A published month's selections and holidays do not change: whoever was  *)
(* past the check of the published flag has kept publication out since.    *)
(***************************************************************************)
THEOREM PublishedMonthIsFrozen == Spec => FrozenWhilePublished
<1>1. ASSUME IInv, [Next]_vars, published
      PROVE  UNCHANGED <<selections, holidays>>
  BY <1>1, Writers, SelectEffect, DeclareEffect, DeleteEffect
<1>2. IInv /\ [Next]_vars => [published /\ published' => UNCHANGED <<selections, holidays>>]_vars
  BY <1>1
<1>3. QED
  BY <1>2, Invariance, PTL DEF Spec, FrozenWhilePublished

(***************************************************************************)
(* What changes a student's choice is an update of that student for that   *)
(* day; closing and opening the mess remembers and restores it.            *)
(***************************************************************************)
LEMMA ChoiceStep ==
    ASSUME IInv, [Next]_vars, NEW k \in DOMAIN selections, Choice(k)' # Choice(k)
    PROVE  \E w \in Session :
              /\ SelectWrite(w)
              /\ tx[w].student = k[1] /\ tx[w].date = k[2] /\ k[3] \in tx[w].meals
              /\ Choice(k)' = tx[w].target
<1>t. selections[k] \in Row \cup {NoRow}
  BY DEF IInv, TypeOK
<1>1. ASSUME selections'[k] = selections[k]
      PROVE  FALSE
  BY <1>1 DEF Choice
<1>2. ASSUME NEW w \in Session, NEW id \in HolidayId, DeclareWrite(w, id)
      PROVE  FALSE
  <2>1. PICK d \in Date, meals \in Scope :
           IF Stops(d, meals, k)
           THEN selections'[k] = [status |-> "NO_SERVICE", before |-> selections[k].status]
           ELSE selections'[k] = selections[k]
    BY <1>2, DeclareEffect
  <2>2. QED
    BY <1>1, <1>t, <2>1 DEF Stops, Choice, NoRow, Row
<1>3. ASSUME NEW w \in Session, DeleteCommit(w)
      PROVE  FALSE
  <2>1. PICK h \in Holiday :
           IF Reverts(h, k) THEN selections'[k] = Reverted(selections[k])
           ELSE selections'[k] = selections[k]
    BY <1>3, DeleteEffect
  <2>2. Reverts(h, k)
    BY <1>1, <2>1
  <2>3. /\ selections'[k] = Reverted(selections[k])
        /\ selections'[k] \in Row
        /\ selections'[k].status = selections[k].before
        /\ selections[k].before \in Choices
    BY <1>t, <2>1, <2>2, RevertedRow DEF Reverts
  <2>4. QED
    BY <1>t, <2>2, <2>3 DEF Reverts, Choice, NoRow, Row, Choices
<1>4. ASSUME NEW w \in Session, SelectWrite(w)
      PROVE  /\ tx[w].student = k[1] /\ tx[w].date = k[2] /\ k[3] \in tx[w].meals
             /\ Choice(k)' = tx[w].target
  <2>1. tx[w] \in Selecting
    BY <1>4, SelectEffect
  <2>2. /\ k[1] = tx[w].student /\ k[2] = tx[w].date /\ k[3] \in tx[w].meals
        /\ selections'[k].status = tx[w].target
    BY <1>1, <1>4, SelectEffect
  <2>3. QED
    BY <2>1, <2>2 DEF Choice, Selecting, Choices, NoRow
<1>5. QED
  BY <1>1, <1>2, <1>3, <1>4, Writers

\* Holidays come and go without changing what any student chose.
THEOREM ChoicesAreKept == Spec => HolidaysKeepChoices
<1>1. ASSUME IInv, [Next]_vars, NEW k \in DOMAIN selections, Choice(k)' # Choice(k)
      PROVE  Choosing(k[1], k[2])
  BY <1>1, ChoiceStep DEF Choosing, SelectWrite
<1>2. IInv /\ [Next]_vars =>
         [\A k \in DOMAIN selections : Choice(k)' # Choice(k) => Choosing(k[1], k[2])]_vars
  BY <1>1
<1>3. QED
  BY <1>2, Invariance, PTL DEF Spec, HolidaysKeepChoices

\* No request for a date is admitted once the date is over.
LEMMA ChoosingStep ==
    ASSUME IInv, [Next]_vars, NEW s \in Student, NEW d \in past, ~Choosing(s, d)
    PROVE  ~Choosing(s, d)'
<1>t. tx \in [Session -> Request]
  BY DEF IInv, TypeOK
<1> USE DEF Choosing
<1>e. ASSUME NEW w \in Session, End(w)
      PROVE  ~Choosing(s, d)'
  BY <1>e, <1>t DEF End, Idle
<1>1. ASSUME NEW w \in Session, NEW r \in Student, NEW e \in Date, NEW meals \in Scope,
             NEW t \in Choices, SelectCheck(w, r, e, meals, t)
      PROVE  ~Choosing(s, d)'
  BY <1>1, <1>t DEF SelectCheck, BeforeCutoff, Begin, IInv, TypeOK
<1>2. ASSUME NEW w \in Session, NEW e \in Date, NEW meals \in Scope, DeclareCheck(w, e, meals)
      PROVE  ~Choosing(s, d)'
  BY <1>2, <1>t DEF DeclareCheck, Begin
<1>3. ASSUME NEW w \in Session, NEW h \in holidays, DeleteRead(w, h)
      PROVE  ~Choosing(s, d)'
  BY <1>3, <1>t DEF DeleteRead, Begin
<1>4. ASSUME UNCHANGED tx
      PROVE  ~Choosing(s, d)'
  BY <1>4
<1>5. QED
  BY <1>e, <1>1, <1>2, <1>3, <1>4, Steps, ClockStep
     DEF SelectWrite, DeclareWrite, DeleteCommit, Quiet, Rollback, PublishMonth, ReopenMonth, vars

(***************************************************************************)
(* Once a date is over, and admitted requests for it are done, a choice is *)
(* final, wherever the cutoff was or will be moved.                        *)
(***************************************************************************)
THEOREM ChoicesBecomeFinal == Spec => ChoiceFinalOnceOver
<1>1. ASSUME IInv, [Next]_vars, NEW k \in DOMAIN selections,
             k[2] \in past, ~Choosing(k[1], k[2])
      PROVE  Choice(k)' = Choice(k)
  BY <1>1, ChoiceStep DEF Choosing, SelectWrite
<1>2. ASSUME IInv, [Next]_vars, NEW k \in DOMAIN selections,
             k[2] \in past, ~Choosing(k[1], k[2])
      PROVE  ~Choosing(k[1], k[2])'
  <2>1. k[1] \in Student
    BY <1>2 DEF IInv, TypeOK
  <2>2. QED
    BY <1>2, <2>1, ChoosingStep
<1>3. IInv /\ [Next]_vars =>
         [\A k \in DOMAIN selections :
             k[2] \in past /\ ~Choosing(k[1], k[2]) =>
                 /\ Choice(k)' = Choice(k)
                 /\ ~Choosing(k[1], k[2])']_vars
  BY <1>1, <1>2
<1>4. QED
  BY <1>3, Invariance, PTL DEF Spec, ChoiceFinalOnceOver

\* A day becomes a cut only by a step that leaves no more cuts than the limit.
LEMMA CutStep ==
    ASSUME IInv, [Next]_vars, NEW s \in Student, NEW d \in Date,
           d \in ChosenCuts(s)', d \notin ChosenCuts(s)
    PROVE  Cardinality(CutDays(s)') <= MaxCuts
<1>t. /\ selections \in [Student \X Date \X Meal -> Row \cup {NoRow}]
      /\ DOMAIN selections' = Student \X Date \X Meal
  BY SameKeys DEF IInv, TypeOK
<1>1. PICK m \in Meal : Choice(<<s, d, m>>) # "SKIPPED"
  BY DEF ChosenCuts
<1>2. Choice(<<s, d, m>>)' = "SKIPPED"
  BY DEF ChosenCuts
<1>3. PICK w \in Session :
         /\ SelectWrite(w)
         /\ tx[w].student = s /\ tx[w].date = d /\ m \in tx[w].meals
         /\ tx[w].target = "SKIPPED"
  BY <1>t, <1>1, <1>2, ChoiceStep
<1>4. /\ Projected(s, d, tx[w].meals, "SKIPPED") \in {{}, Meal}
      /\ LimitAllows(s, d, Projected(s, d, tx[w].meals, "SKIPPED"))
  BY <1>3, SelectEffect DEF SelectOK
<1>5. Projected(s, d, tx[w].meals, "SKIPPED") = Meal
  BY <1>3, <1>4 DEF Projected
<1>6. d \notin CutDays(s)
  BY <1>1, <1>t DEF CutDays, Skipped, Choice, NoRow
<1>7. Cardinality(CutDays(s)) + 1 <= MaxCuts
  BY <1>4, <1>5, <1>6 DEF LimitAllows
<1>8. CutDays(s)' \subseteq CutDays(s) \cup {d}
  <2>1. ASSUME NEW e \in Date, e # d
        PROVE  Skipped(s, e)' = Skipped(s, e)
    BY <1>t, <1>3, <2>1, SelectEffect DEF Skipped
  <2>2. QED
    BY <2>1 DEF CutDays
<1>9. IsFiniteSet(CutDays(s))
  BY DateAssumption, FS_Subset DEF CutDays
<1>10. /\ IsFiniteSet(CutDays(s) \cup {d})
       /\ Cardinality(CutDays(s) \cup {d}) = Cardinality(CutDays(s)) + 1
  BY <1>6, <1>9, FS_AddElement
<1>11. /\ Cardinality(CutDays(s)') \in Nat
       /\ Cardinality(CutDays(s)') <= Cardinality(CutDays(s) \cup {d})
  BY <1>8, <1>10, FS_Subset, FS_CardinalityType
<1>12. QED
  BY <1>7, <1>9, <1>10, <1>11, FS_CardinalityType, MaxCutsAssumption

(***************************************************************************)
(* Taking a cut respects the monthly limit although the cuts were counted  *)
(* in an earlier statement: the student's row lock keeps the student's     *)
(* other requests out, and the month lock keeps holidays out.              *)
(***************************************************************************)
THEOREM CutsRespectLimit == Spec => CutsTakenWithinLimit
<1>1. ASSUME IInv, [Next]_vars, NEW s \in Student, ChosenCuts(s)' \ ChosenCuts(s) # {}
      PROVE  Cardinality(CutDays(s)') <= MaxCuts
  <2>1. PICK d \in Date : d \in ChosenCuts(s)' /\ d \notin ChosenCuts(s)
    BY <1>1 DEF ChosenCuts
  <2>2. QED
    BY <1>1, <2>1, CutStep
<1>2. IInv /\ [Next]_vars =>
         [\A s \in Student :
             ChosenCuts(s)' \ ChosenCuts(s) # {} => Cardinality(CutDays(s)') <= MaxCuts]_vars
  BY <1>1
<1>3. QED
  BY <1>2, Invariance, PTL DEF Spec, CutsTakenWithinLimit

------------------------------------------------------------------------------
(***************************************************************************)
(* Meals implements the book of choices.  First what the book's variables  *)
(* are in terms of rows, holidays and requests.                            *)
(***************************************************************************)
\* A meal is served exactly while no holiday closes it.
LEMMA BookServed ==
    ASSUME NEW d \in Date, NEW meals \in SUBSET Meal
    PROVE  meals \subseteq Book!Served(d) <=> ~Closed(d, meals)
  BY DEF Book!Served, BookClosed, Closed

\* The book counts as Meals does.
LEMMA BookCardinality == ASSUME NEW S PROVE Book!Cardinality(S) = Cardinality(S)
  BY DEF Book!Cardinality, Cardinality

\* An admitted request is an order of the book.
LEMMA BookOrder ==
    ASSUME IInv, NEW w \in Session, tx[w].op = "select"
    PROVE  /\ OrderOf(tx[w]) \in BookOrders
           /\ OrderOf(tx[w]) \in Book!Order
<1>1. tx[w] \in Selecting
  BY RequestKinds DEF IInv, TypeOK
<1>2. QED
  BY <1>1 DEF BookOrders, OrderOf, Book!Order, Book!Scope, Scope, Book!Choices, Choices, Selecting

\* No student has two orders: each holds the lock of the student's row.
LEMMA OneOrderEach ==
    ASSUME IInv, NEW w \in Session, NEW v \in Session, w # v,
           tx[w].op = "select", tx[v].op = "select"
    PROVE  tx[w].student # tx[v].student
  BY DEF IInv, LockInv, RequestInv, RequestOK, SelectOK

\* Under the exclusive lock of the month no order is under way.
LEMMA NoOrders ==
    ASSUME IInv,
           ExclusiveFree \/ \E w \in Session : tx[w].lock = "exclusive"
    PROVE  BookOrders = {}
<1>1. SUFFICES ASSUME NEW v \in Session, tx[v].op = "select" PROVE FALSE
  BY DEF BookOrders
<1>2. tx[v].lock = "shared"
  BY <1>1, RequestKinds DEF IInv, TypeOK
<1>3. QED
  BY <1>1, <1>2 DEF ExclusiveFree, LockInv, IInv

\* A request that ends takes its order with it, and no other.
LEMMA OrdersEnd ==
    ASSUME IInv, NEW w \in Session, End(w)
    PROVE  IF tx[w].op = "select" THEN BookOrders' = BookOrders \ {OrderOf(tx[w])}
           ELSE BookOrders' = BookOrders
<1>1. /\ \A v \in Session : v # w => tx'[v] = tx[v]
      /\ tx'[w].op = "idle"
  BY DEF End, Idle, IInv, TypeOK
<1>2. \A v \in Session :
         v # w /\ tx[w].op = "select" /\ tx[v].op = "select" => OrderOf(tx[v]) # OrderOf(tx[w])
  BY OneOrderEach DEF OrderOf
<1>3. QED
  BY <1>1, <1>2 DEF BookOrders

\* A request that begins adds its order, if it is one.
LEMMA OrdersBegin ==
    ASSUME IInv, NEW w \in Session, NEW r, Begin(w, r)
    PROVE  BookOrders' = IF r.op = "select" THEN BookOrders \cup {OrderOf(r)} ELSE BookOrders
<1>1. /\ \A v \in Session : v # w => tx'[v] = tx[v]
      /\ tx'[w] = r
      /\ tx[w].op = "idle"
  BY DEF Begin, Idle, IInv, TypeOK
<1>2. QED
  BY <1>1 DEF BookOrders

\* What is chosen in the book changes only as the rows of a choice are written.
LEMMA BookChoices ==
    ASSUME IInv, [Next]_vars, ~\E w \in Session : SelectWrite(w)
    PROVE  UNCHANGED BookChoice
<1>1. \A k \in DOMAIN selections : Choice(k)' = Choice(k)
  BY ChoiceStep
<1>2. QED
  BY <1>1, SameKeys DEF BookChoice

\* A step of a request admits an order.
LEMMA AdmitStep ==
    ASSUME IInv, [Next]_vars, NEW w \in Session, NEW s \in Student, NEW d \in Date,
           NEW meals \in Scope, NEW t \in Choices, SelectCheck(w, s, d, meals, t)
    PROVE  Book!Next
<1> DEFINE r == [op |-> "select", lock |-> "shared", users |-> {s},
                 student |-> s, date |-> d, meals |-> meals, target |-> t]
           o == OrderOf(r)
<1>1. /\ ~published /\ d \notin locked /\ ~Closed(d, meals) /\ UserRowFree(s)
      /\ Begin(w, r)
      /\ UNCHANGED <<selections, holidays, month>>
  BY DEF SelectCheck, BeforeCutoff
<1>2. /\ o \in Book!Order
      /\ o.student = s /\ o.date = d /\ o.meals = meals
  BY DEF OrderOf, Book!Order, Book!Scope, Scope, Book!Choices, Choices
<1>3. meals \subseteq Book!Served(d)
  BY <1>1, ScopeMeals, BookServed
<1>4. ASSUME NEW p \in BookOrders PROVE p.student # s
  <2>1. PICK v \in Session : tx[v].op = "select" /\ p = OrderOf(tx[v])
    BY DEF BookOrders
  <2>2. tx[v].student \in tx[v].users
    BY <2>1 DEF IInv, RequestInv, RequestOK, SelectOK
  <2>3. QED
    BY <1>1, <2>1, <2>2 DEF UserRowFree, OrderOf
<1>5. BookOrders' = BookOrders \cup {o}
  <2>1. r.op = "select"
    OBVIOUS
  <2>2. QED
    BY <1>1, <2>1, OrdersBegin
<1>6. UNCHANGED <<BookChoice, BookClosed>>
  BY <1>1 DEF BookChoice, Choice, BookClosed, Closed
<1>7. Book!Admit(o)
  BY <1>1, <1>2, <1>3, <1>4, <1>5, <1>6 DEF Book!Admit, month, Book!month
<1>8. QED
  BY <1>2, <1>7 DEF Book!Next

\* The rows of a day that is served say what its student chose.
LEMMA ServedStatus ==
    ASSUME IInv, NEW s \in Student, NEW d \in Date, NEW m \in Book!Served(d)
    PROVE  Choice(<<s, d, m>>) = Status(s, d, m)
<1>1. m \in Meal /\ ~Closed(d, {m})
  BY DEF Book!Served, BookClosed
<1>2. selections[<<s, d, m>>].status # "NO_SERVICE"
  BY <1>1 DEF IInv, TypeOK, NoServiceMeansHoliday
<1>3. QED
  BY <1>1, <1>2 DEF Choice, Status

\* The book's cut days are among those the code counts.
LEMMA BookCutDays ==
    TypeOK /\ NoServiceMeansHoliday =>
        \A s \in Student : Book!CutDays(s) \subseteq CutDays(s) \cap ChosenCuts(s)
<1> SUFFICES ASSUME TypeOK, NoServiceMeansHoliday, NEW s \in Student, NEW d \in Book!CutDays(s)
             PROVE  d \in CutDays(s) /\ d \in ChosenCuts(s)
  OBVIOUS
<1>t. DOMAIN selections = Student \X Date \X Meal
  BY DEF TypeOK
<1>1. /\ d \in Date /\ Book!Served(d) = Meal
      /\ \A m \in Meal : Choice(<<s, d, m>>) = "SKIPPED"
  BY <1>t DEF Book!CutDays, BookChoice
<1>2. ASSUME NEW m \in Meal
      PROVE  selections[<<s, d, m>>].status # "NO_SERVICE"
  <2>1. ~Closed(d, {m})
    BY <1>1 DEF Book!Served, BookClosed
  <2>2. QED
    BY <1>1, <1>t, <2>1 DEF NoServiceMeansHoliday
<1>3. \A m \in Meal : selections[<<s, d, m>>].status = "SKIPPED"
  BY <1>1, <1>2 DEF Choice
<1>4. QED
  BY <1>1, <1>3 DEF CutDays, Skipped, ChosenCuts

\* The same of the state after a step.
LEMMA BookCutDaysAfter ==
    (TypeOK /\ NoServiceMeansHoliday =>
        \A s \in Student : Book!CutDays(s) \subseteq CutDays(s) \cap ChosenCuts(s))'
  BY BookCutDays, PTL

\* A day whose choices have just become a cut while it was served before.
LEMMA BookCutStep ==
    ASSUME IInv, [Next]_vars, NEW s \in Student, UNCHANGED holidays,
           Book!CutDays(s)' \ Book!CutDays(s) # {}
    PROVE  Cardinality(Book!CutDays(s)') <= MaxCuts
<1>1. PICK d \in Date : d \in Book!CutDays(s)' /\ d \notin Book!CutDays(s)
  BY DEF Book!CutDays
<1>2. TypeOK' /\ NoServiceMeansHoliday'
  BY InvStep DEF IInv
<1>3. /\ Book!CutDays(s)' \subseteq CutDays(s)'
      /\ d \in ChosenCuts(s)'
  BY <1>1, <1>2, BookCutDaysAfter
<1>4. Book!Served(d)' = Book!Served(d)
  BY DEF Book!Served, BookClosed, Closed
<1>5. d \notin ChosenCuts(s)
  <2>1. Book!Served(d) = Meal
    BY <1>1, <1>4 DEF Book!CutDays
  <2>2. PICK m \in Meal : BookChoice[<<s, d, m>>] # "SKIPPED"
    BY <1>1, <2>1 DEF Book!CutDays
  <2>3. QED
    BY <2>2 DEF ChosenCuts, BookChoice, IInv, TypeOK
<1>6. Cardinality(CutDays(s)') <= MaxCuts
  BY <1>1, <1>3, <1>5, CutStep
<1>7. IsFiniteSet(CutDays(s)')
  BY DateAssumption, FS_Subset DEF CutDays
<1>8. QED
  BY <1>3, <1>6, <1>7, FS_Subset, FS_CardinalityType, MaxCutsAssumption

\* Writing the rows carries out the order.
LEMMA CarryStep ==
    ASSUME IInv, [Next]_vars, NEW w \in Session, SelectWrite(w)
    PROVE  Book!Next
<1>t. /\ tx[w] \in Selecting /\ SelectOK(tx[w]) /\ ~published
      /\ tx[w].op = "select"
      /\ UNCHANGED <<holidays, month>> /\ End(w)
  BY SelectEffect DEF SelectWrite
<1>1. PICK o \in BookOrders :
         /\ o = OrderOf(tx[w])
         /\ o.student = tx[w].student /\ o.date = tx[w].date
         /\ o.meals = tx[w].meals /\ o.target = tx[w].target
  BY <1>t, BookOrder DEF OrderOf
<1>2. /\ o.student \in Student /\ o.date \in Date /\ o.meals \in Scope /\ o.target \in Choices
      /\ o.meals \subseteq Meal
  BY <1>1, <1>t, ScopeMeals DEF Selecting
<1>3. o.meals \subseteq Book!Served(o.date)
  BY <1>1, <1>2, <1>t, BookServed DEF SelectOK
<1>4. BookOrders' = BookOrders \ {o}
  BY <1>1, <1>t, OrdersEnd
<1>5. UNCHANGED BookClosed
  BY <1>t DEF BookClosed, Closed
<1>6. ASSUME NEW k \in DOMAIN selections
      PROVE  Choice(k)' = IF k[1] = o.student /\ k[2] = o.date /\ k[3] \in o.meals
                          THEN o.target ELSE Choice(k)
  BY <1>1, <1>2 DEF SelectWrite, Choice, NoRow, Choices
<1>7. BookChoice' = [k \in DOMAIN BookChoice |->
          IF k[1] = o.student /\ k[2] = o.date /\ k[3] \in o.meals THEN o.target
          ELSE BookChoice[k]]
  BY <1>6, SameKeys DEF BookChoice
<1>8. ASSUME NEW m \in Book!Served(o.date), NEW n \in Book!Served(o.date)
      PROVE  BookChoice'[<<o.student, o.date, m>>] = BookChoice'[<<o.student, o.date, n>>]
  <2>1. Projected(o.student, o.date, o.meals, o.target) \in {{}, Meal}
    BY <1>1, <1>t DEF SelectOK
  <2> DEFINE After(i) == Choice(<<o.student, o.date, i>>)'
  <2>2. ASSUME NEW i \in Book!Served(o.date)
        PROVE  /\ i \in Meal
               /\ After(i) = IF i \in o.meals THEN o.target ELSE Status(o.student, o.date, i)
               /\ After(i) \in Choices
    <3>1. i \in Meal /\ ~Closed(o.date, {i})
      BY <1>2 DEF Book!Served, BookClosed
    <3>2. <<o.student, o.date, i>> \in DOMAIN selections
      BY <1>2, <3>1 DEF IInv, TypeOK
    <3>3. After(i) = IF i \in o.meals THEN o.target ELSE Status(o.student, o.date, i)
      BY <1>2, <1>6, <3>2, ServedStatus
    <3>4. Status(o.student, o.date, i) \in Choices
      <4>1. selections[<<o.student, o.date, i>>].status # "NO_SERVICE"
        BY <3>1, <3>2 DEF IInv, NoServiceMeansHoliday
      <4>2. QED
        BY <3>1, <3>2, <4>1 DEF Status, IInv, TypeOK, Row, NoRow, Choices
    <3>5. QED
      BY <1>2, <3>1, <3>3, <3>4
  <2>3. \A i \in Book!Served(o.date) :
           i \in Projected(o.student, o.date, o.meals, o.target) <=> After(i) = "SKIPPED"
    BY <2>2 DEF Projected
  <2>4. After(m) = After(n)
    BY <2>1, <2>2, <2>3 DEF Choices
  <2>5. <<o.student, o.date, m>> \in DOMAIN selections /\ <<o.student, o.date, n>> \in DOMAIN selections
    BY <1>2, <2>2 DEF IInv, TypeOK
  <2>6. QED
    BY <2>4, <2>5, SameKeys DEF BookChoice
<1>9. Book!CutDays(o.student)' \ Book!CutDays(o.student) # {} =>
          Cardinality(Book!CutDays(o.student)') <= MaxCuts
  BY <1>2, <1>t, BookCutStep
<1>10. Book!Carry(o)
  <2>1. \A m \in Book!Served(o.date), n \in Book!Served(o.date) :
           BookChoice'[<<o.student, o.date, m>>] = BookChoice'[<<o.student, o.date, n>>]
    BY <1>8
  <2>2. ~published /\ UNCHANGED <<BookClosed, Book!month>>
    BY <1>t, <1>5 DEF month, Book!month
  <2>3. QED
    BY <1>3, <1>4, <1>7, <1>9, <2>1, <2>2, BookCardinality DEF Book!Carry
<1>11. QED
  BY <1>1, <1>10 DEF Book!Next

\* A declaration closes meals that were served.
LEMMA CloseStep ==
    ASSUME IInv, [Next]_vars, NEW w \in Session, NEW id \in HolidayId, DeclareWrite(w, id)
    PROVE  Book!Next
<1>1. PICK d \in Date, meals \in Scope :
         /\ ~published /\ ~Closed(d, meals)
         /\ holidays' = holidays \cup {[id |-> id, date |-> d, meals |-> meals]}
  BY DeclareEffect
<1>2. tx[w].lock = "exclusive" /\ tx[w].op # "select"
  BY RequestKinds DEF DeclareWrite, IInv, TypeOK
<1>3. BookOrders = {} /\ UNCHANGED BookOrders
  BY <1>2, NoOrders, OrdersEnd DEF DeclareWrite
<1>4. UNCHANGED Book!month
  BY DEF DeclareWrite, month, Book!month
<1>5. UNCHANGED BookChoice
  BY BookChoices, <1>2 DEF SelectWrite, DeclareWrite
<1>6. meals \subseteq Meal /\ meals \subseteq Book!Served(d)
  BY <1>1, ScopeMeals, BookServed
<1>7. BookClosed' = BookClosed \cup ({d} \X meals)
  <2>1. ASSUME NEW e \in Date, NEW m \in Meal
        PROVE  Closed(e, {m})' <=> Closed(e, {m}) \/ (e = d /\ m \in meals)
    <3> DEFINE g == [id |-> id, date |-> d, meals |-> meals]
    <3>1. g \in holidays' /\ g.date = d /\ g.meals = meals
      BY <1>1
    <3>2. \A h \in holidays' : h \in holidays \/ h = g
      BY <1>1
    <3>3. meals \cap {m} # {} <=> m \in meals
      OBVIOUS
    <3> HIDE DEF g
    <3>4. QED
      BY <1>1, <3>1, <3>2, <3>3 DEF Closed
  <2>2. QED
    BY <1>6, <2>1 DEF BookClosed
<1>8. Book!Close(d, meals)
  BY <1>1, <1>3, <1>4, <1>5, <1>6, <1>7 DEF Book!Close
<1>9. QED
  BY <1>8 DEF Book!Next, Book!Scope, Scope

\* A deletion opens the meals of its holiday, unless the holiday was gone.
LEMMA OpenStep ==
    ASSUME IInv, [Next]_vars, NEW w \in Session, DeleteCommit(w)
    PROVE  Book!Next \/ UNCHANGED Book!bookVars
<1>1. PICK h \in Holiday : ~published /\ holidays' = holidays \ {h}
  BY DeleteEffect
<1>2. tx[w].op # "select"
  BY DEF DeleteCommit
<1>3. BookOrders = {} /\ UNCHANGED BookOrders
  BY <1>2, NoOrders, OrdersEnd DEF DeleteCommit
<1>4. UNCHANGED Book!month
  BY DEF DeleteCommit, month, Book!month
<1>5. UNCHANGED BookChoice
  <2>1. ~\E v \in Session : SelectWrite(v)
    BY <1>3 DEF SelectWrite, BookOrders
  <2>2. QED
    BY <2>1, BookChoices
<1>6. CASE h \notin holidays
  <2>1. UNCHANGED BookClosed
    BY <1>1, <1>6 DEF BookClosed, Closed
  <2>2. QED
    BY <1>3, <1>4, <1>5, <2>1 DEF Book!bookVars, Book!month
<1>7. CASE h \in holidays
  <2>1. h.date \in Date /\ h.meals \in Scope /\ h.meals \subseteq Meal
    BY ScopeMeals DEF Holiday
  <2>2. {h.date} \X h.meals \subseteq BookClosed
    BY <1>7, <2>1 DEF BookClosed, Closed
  <2>3. BookClosed' = BookClosed \ ({h.date} \X h.meals)
    <3>1. ASSUME NEW d \in Date, NEW m \in Meal
          PROVE  Closed(d, {m})' <=> Closed(d, {m}) /\ ~(d = h.date /\ m \in h.meals)
      BY <1>1, <1>7 DEF Closed, IInv, HolidaysDisjoint
    <3>2. QED
      BY <2>1, <3>1 DEF BookClosed
  <2>4. Book!Open(h.date, h.meals)
    BY <1>1, <1>3, <1>4, <1>5, <2>2, <2>3 DEF Book!Open
  <2>5. QED
    BY <2>1, <2>4 DEF Book!Next, Book!Scope, Scope
<1>8. QED
  BY <1>6, <1>7

\* The steps that only begin or end a request withdraw an order at most.
LEMMA QuietStep ==
    ASSUME IInv, NEW w \in Session,
           \/ \E d \in Date, meals \in Scope : DeclareCheck(w, d, meals)
           \/ Quiet(w)
    PROVE  Book!Next \/ UNCHANGED Book!bookVars
<1>1. UNCHANGED <<selections, holidays, past, locked, published>>
  BY DEF DeclareCheck, Quiet, DeleteRead, Rollback, month
<1>2. UNCHANGED <<BookChoice, BookClosed>>
  BY <1>1 DEF BookChoice, Choice, BookClosed, Closed
<1>3. ASSUME NEW d \in Date, NEW meals \in Scope, DeclareCheck(w, d, meals)
      PROVE  UNCHANGED BookOrders
  BY <1>3, OrdersBegin DEF DeclareCheck
<1>4. ASSUME NEW h \in holidays, DeleteRead(w, h)
      PROVE  UNCHANGED BookOrders
  BY <1>4, OrdersBegin DEF DeleteRead
<1>5. ASSUME Rollback(w), tx[w].op # "select"
      PROVE  UNCHANGED BookOrders
  BY <1>5, OrdersEnd DEF Rollback
<1>6. ASSUME Rollback(w), tx[w].op = "select"
      PROVE  Book!Next
  <2>1. Book!Withdraw(OrderOf(tx[w]))
    BY <1>1, <1>2, <1>6, OrdersEnd DEF Book!Withdraw, Book!month, Rollback
  <2>2. QED
    BY <1>6, <2>1, BookOrder DEF Book!Next
<1>7. QED
  BY <1>1, <1>2, <1>3, <1>4, <1>5, <1>6 DEF Book!bookVars, Quiet

\* The clock and the publication are the book's own.
LEMMA MonthStep ==
    ASSUME IInv,
           Clock \/ PublishMonth \/ ReopenMonth \/ UNCHANGED vars
    PROVE  Book!Next \/ UNCHANGED Book!bookVars
<1>1. UNCHANGED <<selections, holidays, tx>>
  BY ClockStep DEF PublishMonth, ReopenMonth, vars
<1>2. UNCHANGED <<BookChoice, BookClosed, BookOrders>>
  BY <1>1 DEF BookChoice, Choice, BookClosed, Closed, BookOrders, OrderOf
<1>3. ASSUME Clock
      PROVE  Book!Next
  <2>1. ASSUME NEW d \in Date, CutoffPasses(d)
        PROVE  Book!CutoffPasses(d)
    BY <1>2, <2>1 DEF CutoffPasses, Book!CutoffPasses
  <2>2. ASSUME NEW d \in Date, DayEnds(d)
        PROVE  Book!DayEnds(d)
    BY <1>2, <2>2 DEF DayEnds, Book!DayEnds
  <2>3. ASSUME NEW dates \in SUBSET Date, UpdateCutoff(dates)
        PROVE  Book!MoveCutoff(dates)
    BY <1>2, <2>3 DEF UpdateCutoff, Book!MoveCutoff
  <2>4. QED
    BY <1>3, <2>1, <2>2, <2>3 DEF Clock, Book!Next
<1>4. ASSUME PublishMonth
      PROVE  Book!Publish
  BY <1>2, <1>4, NoOrders DEF PublishMonth, Book!Publish
<1>5. ASSUME ReopenMonth
      PROVE  Book!Reopen
  BY <1>2, <1>5 DEF ReopenMonth, Book!Reopen
<1>6. ASSUME UNCHANGED vars
      PROVE  UNCHANGED Book!bookVars
  BY <1>2, <1>6 DEF vars, Book!bookVars
<1>7. QED
  BY <1>3, <1>4, <1>5, <1>6 DEF Book!Next

\* Every step of Meals is a step of the book of choices or changes nothing in it.
LEMMA BookStep ==
    ASSUME IInv, [Next]_vars
    PROVE  [Book!Next]_(Book!bookVars)
  BY Steps, AdmitStep, CarryStep, CloseStep, OpenStep, QuietStep, MonthStep

(***************************************************************************)
(* With rows, sessions and locks hidden, meal planning is the atomic book  *)
(* of choices.                                                             *)
(***************************************************************************)
THEOREM RefinesChoiceBook == Spec => ImplementsChoiceBook
<1>1. Init => Book!Init
  BY DEF Init, Book!Init, BookChoice, Choice, BookClosed, Closed, BookOrders, Idle
<1>2. IInv /\ [Next]_vars => [Book!Next]_(Book!bookVars)
  BY BookStep
<1>3. QED
  BY Invariance, <1>1, <1>2, PTL DEF Spec, Book!Spec, ImplementsChoiceBook
==============================================================================
