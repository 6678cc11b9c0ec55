-------------------------------- MODULE Meals --------------------------------
(***************************************************************************)
(* Meal selections and holidays of one billing month.  A student opts out  *)
(* of whole days until the cutoff, an administrator closes the mess for a  *)
(* day or a meal and opens it again, and a closure is written into the     *)
(* selection rows.  Each request is a transaction at READ COMMITTED: it    *)
(* checks under its locks at one step and commits at a later one.          *)
(***************************************************************************)
EXTENDS Naturals, FiniteSets

CONSTANTS
    Student,
    Date,       \* dates of the month
    Meal,       \* the sittings of a day
    HolidayId,  \* bound on the holidays ever declared
    Session,    \* database sessions serving requests
    MaxCuts     \* the max_monthly_mess_cuts setting

ASSUME MaxCutsAssumption == MaxCuts \in Nat

ASSUME DateAssumption == IsFiniteSet(Date)

VARIABLES
    selections, \* meal_selections rows by student, date and meal
    holidays,   \* holidays rows
    issued,     \* holiday ids given out so far; a uuid4 is never used again
    past,       \* dates that are over
    locked,     \* dates whose selection cutoff, as it is set now, has passed
    published,  \* is the month's bill published
    tx          \* the request each session is in the middle of

month == <<past, locked, published>>

vars == <<selections, holidays, issued, past, locked, published, tx>>

Choices == {"CONFIRMED", "SKIPPED"}

Row == [status : Choices \cup {"NO_SERVICE"}, before : Choices \cup {"NONE"}]

NoRow == [status |-> "ABSENT", before |-> "NONE"]

\* A whole-day holiday (meal_type NULL) closes every meal, any other just one.
Scope == {Meal} \cup {{m} : m \in Meal}

Holiday == [id : HolidayId, date : Date, meals : Scope]

------------------------------------------------------------------------------
(***************************************************************************)
(* Requests in progress.  Each carries what it holds: the month's advisory *)
(* lock in one of its forms, and users rows locked FOR UPDATE.             *)
(***************************************************************************)
Idle == [op |-> "idle", lock |-> "none", users |-> {}]

Selecting == [op : {"select"}, lock : {"shared"}, users : SUBSET Student,
              student : Student, date : Date, meals : Scope, target : Choices]
Declaring == [op : {"declare"}, lock : {"exclusive"}, users : {{}},
              date : Date, meals : Scope]
Deleting == [op : {"delete"}, lock : {"none"}, users : {{}}, holiday : Holiday]

Request == {Idle} \cup Selecting \cup Declaring \cup Deleting

\* Slip: declare_holiday takes the month's lock in its shared form.
ExclusiveFreeShared == \A w \in Session : tx[w].lock # "exclusive" \/ tx[w].op = "declare"

ExclusiveFree == \A w \in Session : tx[w].lock = "none"

SharedFree == \A w \in Session : tx[w].lock # "exclusive"

\* Slip: the users row is read without FOR UPDATE.
UserRowFreeUnlocked(s) == s \in Student

\* SELECT ... FOR UPDATE on the users row of s.
UserRowFree(s) == \A w \in Session : s \notin tx[w].users

Begin(w, request) == tx[w] = Idle /\ tx' = [tx EXCEPT ![w] = request]

End(w) == tx' = [tx EXCEPT ![w] = Idle]

------------------------------------------------------------------------------
\* Slip: get_for_date looks for a holiday of exactly the requested scope.
ClosedExactly(d, meals) == \E h \in holidays : h.date = d /\ h.meals = meals

\* get_for_date: some holiday of the date closes one of the meals.
Closed(d, meals) == \E h \in holidays : h.date = d /\ h.meals \cap meals # {}

\* get_or_create_selection: a missing row stands for the default.
Status(s, d, m) ==
    IF selections[<<s, d, m>>] # NoRow THEN selections[<<s, d, m>>].status
    ELSE IF Closed(d, {m}) THEN "NO_SERVICE" ELSE "CONFIRMED"

Skipped(s, d) == {m \in Meal : selections[<<s, d, m>>].status = "SKIPPED"}

\* count_student_monthly_mess_cuts counts these.
CutDays(s) == {d \in Date : Skipped(s, d) = Meal}

\* What the day would be after the request: the skipped meals.
Projected(s, d, meals, target) ==
    {m \in Meal : IF m \in meals THEN target = "SKIPPED" ELSE Status(s, d, m) = "SKIPPED"}

\* Slip: the limit is compared before the new cut is added.
LimitAllowsOneMore(s, d, skipped) ==
    skipped = Meal /\ d \notin CutDays(s) => Cardinality(CutDays(s)) <= MaxCuts

LimitAllows(s, d, skipped) ==
    skipped = Meal /\ d \notin CutDays(s) => Cardinality(CutDays(s)) + 1 <= MaxCuts

Init ==
    /\ selections = [k \in Student \X Date \X Meal |-> NoRow]
    /\ holidays = {}
    /\ issued = {}
    /\ past = {}
    /\ locked = {}
    /\ published = FALSE
    /\ tx = [w \in Session |-> Idle]

(***************************************************************************)
(* update_meal_selection, for one meal or the whole day: under the shared  *)
(* month lock and the student's row lock, everything is checked ...        *)
(***************************************************************************)
\* Slip: the cutoff is not looked at for a whole-day request.
BeforeCutoffSingle(d, meals) == meals = Meal \/ d \notin locked

BeforeCutoff(d, meals) == meals \in Scope /\ d \notin locked

SelectCheck(w, s, d, meals, target) ==
    LET skipped == Projected(s, d, meals, target)
    IN  /\ SharedFree /\ ~published
        /\ UserRowFree(s)
        /\ BeforeCutoff(d, meals)
        /\ ~Closed(d, meals)
        /\ skipped \in {{}, Meal}
        /\ LimitAllows(s, d, skipped)
        /\ Begin(w, [op |-> "select", lock |-> "shared", users |-> {s},
                     student |-> s, date |-> d, meals |-> meals, target |-> target])
        /\ UNCHANGED <<selections, holidays, issued, month>>

\* ... and then the rows are written, and missing ones inserted.
SelectWrite(w) ==
    LET Chosen(k) == k[1] = tx[w].student /\ k[2] = tx[w].date /\ k[3] \in tx[w].meals
    IN  /\ tx[w].op = "select"
        /\ selections' = [k \in DOMAIN selections |->
              IF Chosen(k) THEN [status |-> tx[w].target, before |-> selections[k].before]
              ELSE selections[k]]
        /\ End(w)
        /\ UNCHANGED <<holidays, issued, month>>

(***************************************************************************)
(* declare_holiday: under the exclusive month lock the scope must be free  *)
(* of holidays; the holiday is inserted and its rows become NO_SERVICE,    *)
(* each remembering what it was.                                           *)
(***************************************************************************)
DeclareCheck(w, d, meals) ==
    /\ ExclusiveFree /\ ~published
    /\ ~Closed(d, meals)
    /\ Begin(w, [op |-> "declare", lock |-> "exclusive", users |-> {},
                 date |-> d, meals |-> meals])
    /\ UNCHANGED <<selections, holidays, issued, month>>

\* Slip: students without a row get a NO_SERVICE row as well.
StopsMissing(d, meals, k) ==
    k[2] = d /\ k[3] \in meals /\ selections[k].status # "NO_SERVICE"

Stops(d, meals, k) ==
    /\ k[2] = d /\ k[3] \in meals
    /\ selections[k] # NoRow /\ selections[k].status # "NO_SERVICE"

DeclareWrite(w, id) ==
    /\ tx[w].op = "declare"
    /\ id \notin issued
    /\ issued' = issued \cup {id}
    /\ holidays' = holidays \cup {[id |-> id, date |-> tx[w].date, meals |-> tx[w].meals]}
    /\ selections' = [k \in DOMAIN selections |->
          IF Stops(tx[w].date, tx[w].meals, k)
          THEN [status |-> "NO_SERVICE", before |-> selections[k].status]
          ELSE selections[k]]
    /\ End(w)
    /\ UNCHANGED month

(***************************************************************************)
(* delete_holiday reads the holiday first and takes the lock afterwards.   *)
(* If another request deleted it in between, DELETE finds no row (a        *)
(* warning of the ORM) and the selections are reverted all the same.       *)
(***************************************************************************)
DeleteRead(w, h) ==
    /\ Begin(w, [op |-> "delete", lock |-> "none", users |-> {}, holiday |-> h])
    /\ UNCHANGED <<selections, holidays, issued, month>>

\* Slip: meal_type = NULL selects no row.
RevertsSqlNull(h, k) ==
    h.meals # Meal /\ k[2] = h.date /\ k[3] \in h.meals /\ selections[k].status = "NO_SERVICE"

Reverts(h, k) ==
    /\ k[2] = h.date /\ k[3] \in h.meals
    /\ selections[k].status = "NO_SERVICE" /\ selections[k].before # "NONE"

\* Slip: rows go back to CONFIRMED, as holiday_service.py:66, :77 and admin.py:877 say.
RevertedToConfirmed(row) == [row EXCEPT !.status = "CONFIRMED", !.before = "NONE"]

Reverted(row) == [status |-> row.before, before |-> "NONE"]

DeleteCommit(w) ==
    LET h == tx[w].holiday
    IN  /\ tx[w].op = "delete"
        /\ ExclusiveFree /\ ~published
        /\ holidays' = holidays \ {h}
        /\ selections' = [k \in DOMAIN selections |->
              IF Reverts(h, k) THEN Reverted(selections[k]) ELSE selections[k]]
        /\ End(w)
        /\ UNCHANGED <<issued, month>>

\* A failed request rolls back: delete_holiday on a published month, or a lost client.
Rollback(w) ==
    /\ tx[w] # Idle
    /\ End(w)
    /\ UNCHANGED <<selections, holidays, issued, month>>

------------------------------------------------------------------------------
\* is_selection_locked turns true for a date, as time goes by.
CutoffPasses(d) ==
    /\ d \notin locked
    /\ locked' = locked \cup {d}
    /\ UNCHANGED <<selections, holidays, issued, past, published, tx>>

(***************************************************************************)
(* An administrator moves the cutoff, without the month's lock: dates lock *)
(* or unlock at once.  The cutoff of a date lies on the date itself or on  *)
(* one of the seven days before, so a date that is over stays locked.      *)
(***************************************************************************)
UpdateCutoff(dates) ==
    /\ past \subseteq dates
    /\ locked' = dates
    /\ UNCHANGED <<selections, holidays, issued, past, published, tx>>

\* Midnight at the end of d, whose cutoff is behind it wherever it was set.
DayEnds(d) ==
    /\ d \notin past
    /\ past' = past \cup {d}
    /\ locked' = locked \cup {d}
    /\ UNCHANGED <<selections, holidays, issued, published, tx>>

\* publish, which needs the month to be over, and unpublish.
PublishMonth ==
    /\ past = Date
    /\ ExclusiveFree /\ ~published
    /\ published' = TRUE
    /\ UNCHANGED <<selections, holidays, issued, past, locked, tx>>

ReopenMonth ==
    /\ ExclusiveFree /\ published
    /\ published' = FALSE
    /\ UNCHANGED <<selections, holidays, issued, past, locked, tx>>

SelectionRequest(w) ==
    \/ \E s \in Student, d \in Date, meals \in Scope, target \in Choices :
          SelectCheck(w, s, d, meals, target)
    \/ SelectWrite(w)

HolidayRequest(w) ==
    \/ \E d \in Date, meals \in Scope : DeclareCheck(w, d, meals)
    \/ \E id \in HolidayId : DeclareWrite(w, id)
    \/ \E h \in holidays : DeleteRead(w, h)
    \/ DeleteCommit(w)

Next ==
    \/ \E w \in Session : SelectionRequest(w) \/ HolidayRequest(w) \/ Rollback(w)
    \/ \E d \in Date : CutoffPasses(d) \/ DayEnds(d)
    \/ \E dates \in SUBSET Date : UpdateCutoff(dates)
    \/ PublishMonth
    \/ ReopenMonth

Spec == Init /\ [][Next]_vars
------------------------------------------------------------------------------
TypeOK ==
    /\ selections \in [Student \X Date \X Meal -> Row \cup {NoRow}]
    /\ holidays \subseteq Holiday
    /\ issued \subseteq HolidayId
    /\ locked \subseteq Date /\ past \subseteq locked
    /\ published \in BOOLEAN
    /\ tx \in [Session -> Request]

(***************************************************************************)
(* No meal is closed by two holidays, although the unique indexes would    *)
(* admit a whole-day holiday beside one of a single meal.                  *)
(***************************************************************************)
HolidaysDisjoint ==
    \A g, h \in holidays : g.date = h.date /\ g.meals \cap h.meals # {} => g = h

(***************************************************************************)
(* A selection says NO_SERVICE only while a holiday closes its meal: no    *)
(* order of declarations and deletions leaves a student without a meal on  *)
(* a day that is not a holiday.                                            *)
(***************************************************************************)
NoServiceMeansHoliday ==
    \A k \in DOMAIN selections :
        selections[k].status = "NO_SERVICE" => Closed(k[2], {k[3]})

\* What the student last asked for, whether or not the meal is closed now.
Choice(k) ==
    IF selections[k] = NoRow THEN "CONFIRMED"
    ELSE IF selections[k].status = "NO_SERVICE" THEN selections[k].before
    ELSE selections[k].status

\* Some request of student s for date d is past its checks.
Choosing(s, d) ==
    \E w \in Session : tx[w].op = "select" /\ tx[w].student = s /\ tx[w].date = d

(***************************************************************************)
(* Holidays come and go without changing what any student chose: only an   *)
(* update the same student made, admitted before the cutoff, changes it.   *)
(* Three docstrings say otherwise: a deletion is said to put selections    *)
(* back to CONFIRMED, and the code puts back what was remembered.          *)
(***************************************************************************)
HolidaysKeepChoices ==
    [][\A k \in DOMAIN selections :
          Choice(k)' # Choice(k) => Choosing(k[1], k[2])]_vars

\* Days the student chose to cut, closed or not.
ChosenCuts(s) == {d \in Date : \A m \in Meal : Choice(<<s, d, m>>) = "SKIPPED"}

(***************************************************************************)
(* A student who takes one more cut has at most the monthly limit of them  *)
(* afterwards, whatever requests of theirs run at the same time.           *)
(***************************************************************************)
CutsTakenWithinLimit ==
    [][\A s \in Student :
          ChosenCuts(s)' \ ChosenCuts(s) # {} => Cardinality(CutDays(s)') <= MaxCuts]_vars

(***************************************************************************)
(* While the month stays published its selections and holidays stay as     *)
(* they are, also for requests that began before the publication.          *)
(***************************************************************************)
FrozenWhilePublished ==
    [][published /\ published' => UNCHANGED <<selections, holidays>>]_vars

(***************************************************************************)
(* Once a date is over and no request for it that was admitted before its  *)
(* cutoff is left, a student's choice for the date is final: no holiday    *)
(* declared or deleted afterwards, and no cutoff moved, reopens it.        *)
(***************************************************************************)
ChoiceFinalOnceOver ==
    [][\A k \in DOMAIN selections :
          k[2] \in past /\ ~Choosing(k[1], k[2]) =>
              /\ Choice(k)' = Choice(k)
              /\ ~Choosing(k[1], k[2])']_vars

(***************************************************************************)
(* The book of choices the rows, holidays and requests stand for.          *)
(***************************************************************************)
BookChoice == [k \in DOMAIN selections |-> Choice(k)]

BookClosed == {slot \in Date \X Meal : Closed(slot[1], {slot[2]})}

OrderOf(t) == [student |-> t.student, date |-> t.date, meals |-> t.meals, target |-> t.target]

BookOrders == {OrderOf(tx[w]) : w \in {v \in Session : tx[v].op = "select"}}

Book == INSTANCE ChoiceBook WITH
    choice <- BookChoice, closed <- BookClosed, orders <- BookOrders

\* Rows, sessions and locks hidden, meal planning is the atomic book of choices.
ImplementsChoiceBook == Book!Spec

------------------------------------------------------------------------------
(***************************************************************************)
(* declare_holiday: "Declare a holiday and cascade NO_SERVICE to meal      *)
(* selections": the stored selections of a closed meal say NO_SERVICE.     *)
(***************************************************************************)
ClosedMeansNoService ==
    \A k \in DOMAIN selections :
        selections[k] # NoRow /\ Closed(k[2], {k[3]}) => selections[k].status = "NO_SERVICE"

(***************************************************************************)
(* get_max_monthly_mess_cuts: "How many full-day mess cuts a student may   *)
(* take in one calendar month".                                            *)
(***************************************************************************)
CutsWithinLimit == \A s \in Student : Cardinality(CutDays(s)) <= MaxCuts

(***************************************************************************)
(* update_meal_selection: "only 0 or 3 are reachable states", here of a    *)
(* day without any holiday.                                                *)
(***************************************************************************)
WholeDayOrNothing ==
    \A s \in Student, d \in Date : ~Closed(d, Meal) => Skipped(s, d) \in {{}, Meal}
==============================================================================
