------------------------------ MODULE ChoiceBook ------------------------------
(***************************************************************************)
(* What meal planning promises for one month, with every handler a single  *)
(* atomic step: a student's order for a day is admitted before the cutoff  *)
(* and takes effect whole or not at all; closing and opening the mess      *)
(* leaves every choice alone; and nothing moves while the month's bill is  *)
(* published.  Module Meals, with its rows, sessions and locks, implements *)
(* this.                                                                   *)
(***************************************************************************)
EXTENDS Naturals, FiniteSets

CONSTANTS Student, Date, Meal, MaxCuts

VARIABLES
    choice,     \* what each student wants of each meal
    closed,     \* the meals no one is served, by date
    orders,     \* the orders admitted and not yet carried out
    past,       \* dates that are over
    locked,     \* dates whose cutoff, as it is set now, has passed
    published   \* is the month's bill published

month == <<past, locked, published>>

bookVars == <<choice, closed, orders, past, locked, published>>

Choices == {"CONFIRMED", "SKIPPED"}

Scope == {Meal} \cup {{m} : m \in Meal}

Order == [student : Student, date : Date, meals : Scope, target : Choices]

Served(d) == {m \in Meal : <<d, m>> \notin closed}

\* The days a student skips whole although the mess is open.
CutDays(s) ==
    {d \in Date : Served(d) = Meal /\ \A m \in Meal : choice[<<s, d, m>>] = "SKIPPED"}

Init ==
    /\ choice = [k \in Student \X Date \X Meal |-> "CONFIRMED"]
    /\ closed = {}
    /\ orders = {}
    /\ past = {}
    /\ locked = {}
    /\ published = FALSE

\* One order of a student at a time, for meals that are served.
Admit(o) ==
    /\ ~published
    /\ o.date \notin locked
    /\ o.meals \subseteq Served(o.date)
    /\ \A p \in orders : p.student # o.student
    /\ orders' = orders \cup {o}
    /\ UNCHANGED <<choice, closed, month>>

Withdraw(o) ==
    /\ orders' = orders \ {o}
    /\ UNCHANGED <<choice, closed, month>>

(***************************************************************************)
(* The order takes effect: afterwards the served meals of its day are all  *)
(* wanted or all skipped, and whoever has made a whole day a cut has no    *)
(* more cuts than the limit.                                               *)
(***************************************************************************)
Carry(o) ==
    /\ ~published
    /\ o.meals \subseteq Served(o.date)
    /\ orders' = orders \ {o}
    /\ choice' = [k \in DOMAIN choice |->
          IF k[1] = o.student /\ k[2] = o.date /\ k[3] \in o.meals THEN o.target
          ELSE choice[k]]
    /\ \A m \in Served(o.date), n \in Served(o.date) :
          choice'[<<o.student, o.date, m>>] = choice'[<<o.student, o.date, n>>]
    /\ CutDays(o.student)' \ CutDays(o.student) # {} =>
          Cardinality(CutDays(o.student)') <= MaxCuts
    /\ UNCHANGED <<closed, month>>

\* The mess is closed for meals it would have served, with no order under way.
Close(d, meals) ==
    /\ ~published
    /\ orders = {}
    /\ meals \subseteq Served(d)
    /\ closed' = closed \cup ({d} \X meals)
    /\ UNCHANGED <<choice, orders, month>>

Open(d, meals) ==
    /\ ~published
    /\ orders = {}
    /\ {d} \X meals \subseteq closed
    /\ closed' = closed \ ({d} \X meals)
    /\ UNCHANGED <<choice, orders, month>>

CutoffPasses(d) ==
    /\ d \notin locked
    /\ locked' = locked \cup {d}
    /\ UNCHANGED <<orders, choice, closed, past, published>>

\* The cutoff is moved, which reopens no date that is over.
MoveCutoff(dates) ==
    /\ past \subseteq dates
    /\ locked' = dates
    /\ UNCHANGED <<orders, choice, closed, past, published>>

DayEnds(d) ==
    /\ d \notin past
    /\ past' = past \cup {d}
    /\ locked' = locked \cup {d}
    /\ UNCHANGED <<orders, choice, closed, published>>

\* The bill is published when every choice of the month is final.
Publish ==
    /\ ~published
    /\ past = Date
    /\ orders = {}
    /\ published' = TRUE
    /\ UNCHANGED <<orders, choice, closed, past, locked>>

Reopen ==
    /\ published
    /\ published' = FALSE
    /\ UNCHANGED <<orders, choice, closed, past, locked>>

Next ==
    \/ \E d \in Date : CutoffPasses(d) \/ DayEnds(d)
    \/ \E dates \in SUBSET Date : MoveCutoff(dates)
    \/ Publish
    \/ Reopen
    \/ \E o \in Order : Admit(o)
    \/ \E o \in orders : Withdraw(o) \/ Carry(o)
    \/ \E d \in Date, meals \in Scope : Close(d, meals) \/ Open(d, meals)

Spec == Init /\ [][Next]_bookVars
==============================================================================
