------------------------------ MODULE BillShare ------------------------------
(***************************************************************************)
(* calculate_bills: which days of the month a student is charged for, and  *)
(* how the month's expenses are split over all charged days to the cent.   *)
(* The rate is a decimal of limited precision, rounded half to even; here  *)
(* it is a whole number of 1/Scale cents.                                  *)
(***************************************************************************)
EXTENDS Integers, FiniteSets, Functions

CONSTANTS
    N,          \* students of the cohort, numbered by registration number
    LastDay,    \* days of the month
    Meal,
    JoinDay,    \* days a student may have enrolled on
    Plan,       \* sets of <<day, meal>> a student may have opted out of
    Closure,    \* sets of <<day, meal>> that may be holidays
    Expense,    \* figures of the month's expenses, in cents
    Scale       \* precision of the rate, per cent

ASSUME SizeAssumption == N \in Nat /\ LastDay \in Nat /\ Scale \in Nat

(***************************************************************************)
(* The decimal context keeps 28 digits, so a share is off by far less than *)
(* one part in the number of charged days; Scale keeps that proportion.    *)
(***************************************************************************)
ASSUME PrecisionAssumption == N * LastDay * N * LastDay < Scale

ASSUME JoinDayAssumption == JoinDay \subseteq 1..LastDay

ASSUME ExpenseAssumption == Expense \subseteq Nat

VARIABLES
    joined,     \* enrollment day of each student
    away,       \* what each student has opted out of
    closed,     \* holidays of the month
    expenses,   \* food, operational and administrative expenses, in cents
    charge      \* food_charge of each student, in cents, once calculated

vars == <<joined, away, closed, expenses, charge>>

Cohort == 1..N

None == [s \in {} |-> 0]

(***************************************************************************)
(* Opted-in days: from enrollment on, every day with some meal that is     *)
(* neither closed nor opted out of.                                        *)
(***************************************************************************)
\* Slip: a day counts only if every meal of it is eaten.
OptedInFully(s) ==
    {d \in joined[s]..LastDay : \A m \in Meal : <<d, m>> \notin closed \cup away[s]}

OptedIn(s) ==
    {d \in joined[s]..LastDay : \E m \in Meal : <<d, m>> \notin closed \cup away[s]}

EffectiveDays(s) == Cardinality(OptedIn(s))

ChargeableDays == SumFunction([s \in Cohort |-> EffectiveDays(s)])

\* expenses / denominator in units of 1/Scale, rounded half to even.
Rate ==
    LET q == (expenses * Scale) \div ChargeableDays
        r == (expenses * Scale) % ChargeableDays
        up == 2 * r > ChargeableDays \/ (2 * r = ChargeableDays /\ q % 2 = 1)
    IN  IF up THEN q + 1 ELSE q

Share(s) == Rate * EffectiveDays(s)

\* Slip: the display rate, rounded to whole cents, is multiplied.
AllocatedByDisplayRate(s) == ((Rate + Scale \div 2) \div Scale) * EffectiveDays(s)

\* Rounded down to whole cents.
Allocated(s) == Share(s) \div Scale

Remainder(s) == Share(s) - Allocated(s) * Scale

CentsLeft == expenses - SumFunction([s \in Cohort |-> Allocated(s)])

\* Slip: smallest remainders first.
PrecedesAscending(s, t) ==
    Remainder(s) < Remainder(t) \/ (Remainder(s) = Remainder(t) /\ s < t)

\* The order in which left-over cents are given out.
Precedes(s, t) ==
    Remainder(s) > Remainder(t) \/ (Remainder(s) = Remainder(t) /\ s < t)

\* order[:cents_left]: a negative end counts from the back, as Python slices do.
GetsCent(s) ==
    LET rank == Cardinality({t \in Cohort : Precedes(t, s)})
    IN  rank < (IF CentsLeft >= 0 THEN CentsLeft ELSE N + CentsLeft)

Charge(s) ==
    IF ChargeableDays = 0 THEN 0
    ELSE Allocated(s) + (IF GetsCent(s) THEN 1 ELSE 0)

Init ==
    /\ joined \in [Cohort -> JoinDay]
    /\ away \in [Cohort -> Plan]
    /\ closed \in Closure
    /\ expenses \in Expense
    /\ charge = None

Calculate ==
    /\ charge = None
    /\ charge' = [s \in Cohort |-> Charge(s)]
    /\ UNCHANGED <<joined, away, closed, expenses>>

Spec == Init /\ [][Calculate]_vars
------------------------------------------------------------------------------
TypeOK ==
    /\ joined \in [Cohort -> JoinDay]
    /\ away \in [Cohort -> Plan]
    /\ closed \in Closure
    /\ expenses \in Expense
    /\ charge = None \/ charge \in [Cohort -> 0..expenses]

(***************************************************************************)
(* "Never lose/add money": the charges add up to the expenses to the cent, *)
(* although each of them is rounded from a rounded rate.                   *)
(***************************************************************************)
ChargesCoverExpenses ==
    charge # None /\ ChargeableDays > 0 => SumFunction(charge) = expenses

\* Nobody pays a cent more or less than the exact share, expenses * days / all days.
ChargeWithinACent ==
    charge # None /\ ChargeableDays > 0 =>
        \A s \in Cohort :
            LET error == charge[s] * ChargeableDays - expenses * EffectiveDays(s)
            IN  -ChargeableDays < error /\ error < ChargeableDays

(***************************************************************************)
(* A student charged for fewer days never pays more, and one whose every   *)
(* day was closed or fully cut pays nothing, however the cents fall.       *)
(***************************************************************************)
FewerDaysNeverDearer ==
    charge # None =>
        \A s, t \in Cohort :
            /\ OptedIn(s) \subseteq OptedIn(t) /\ OptedIn(s) # OptedIn(t) =>
                  charge[s] <= charge[t]
            /\ (\A d \in joined[s]..LastDay : {d} \X Meal \subseteq closed \cup away[s]) <=>
                  EffectiveDays(s) = 0
            /\ EffectiveDays(s) = 0 => charge[s] = 0

(***************************************************************************)
(* "Registration/UUID order breaks ties": of two students with the same    *)
(* exact remainder, the one with the smaller number gets a cent first.     *)
(***************************************************************************)
TiesInRegistrationOrder ==
    charge # None /\ ChargeableDays > 0 =>
        \A s, t \in Cohort :
            LET Exact(x) == expenses * EffectiveDays(x)
                Extra(x) == charge[x] - Exact(x) \div ChargeableDays
            IN  s < t /\ Exact(s) % ChargeableDays = Exact(t) % ChargeableDays =>
                    Extra(s) >= Extra(t)
==============================================================================
