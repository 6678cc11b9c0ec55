------------------------------ MODULE DiningBook ------------------------------
(***************************************************************************)
(* What attendance and fines promise on top of the book of choices, again  *)
(* with every handler a single atomic step: on a day not in the future, a  *)
(* scan is recorded for a meal the student has chosen and a fine charged   *)
(* for one the student has chosen and has no attendance for; nothing       *)
(* recorded is written over; and nothing but attendance taken away moves   *)
(* while the bill is published.  Module Attendance implements this.        *)
(***************************************************************************)
EXTENDS ChoiceBook

VARIABLES
    begun,      \* dates that are not in the future
    active,     \* accounts that may be served
    attendance, \* how each student's attendance was recorded
    fines       \* fines for missed meals

tableVars == <<begun, active, attendance, fines>>

Sitting == Student \X Date \X Meal

TableInit ==
    /\ Init
    /\ begun = {}
    /\ active \in SUBSET Student
    /\ attendance = [k \in Sitting |-> "NONE"]
    /\ fines = [k \in Sitting |-> "NONE"]

\* The student is to eat, and nothing under way changes that.
Settled(k) ==
    /\ \A o \in orders : ~(o.student = k[1] /\ o.date = k[2])
    /\ choice[k] = "CONFIRMED"

Closes(k) == <<k[2], k[3]>> \in closed

Record(S, how) ==
    /\ attendance' = [k \in Sitting |-> IF k \in S THEN how ELSE attendance[k]]
    /\ UNCHANGED <<fines, active, begun, bookVars>>

Recordable(k) == ~published /\ k[1] \in active /\ attendance[k] = "NONE"

Scan(k) ==
    /\ Recordable(k) /\ Settled(k) /\ ~Closes(k)
    /\ k[2] \in begun
    /\ Record({k}, "QR")

\* By hand for many students at once, all or none of them.
Enter(S) ==
    /\ \A k \in S : Recordable(k) /\ (Closes(k) => k[2] \in begun)
    /\ Record(S, "HAND")

TakeAway(S) == Record(S, "NONE")

Fine(S) ==
    /\ ~published
    /\ \A k \in S :
          /\ Settled(k) /\ ~Closes(k)
          /\ k[2] \in begun
          /\ attendance[k] = "NONE" /\ fines[k] = "NONE"
    /\ fines' = [k \in Sitting |-> IF k \in S THEN "PENDING" ELSE fines[k]]
    /\ UNCHANGED <<attendance, active, begun, bookVars>>

Waive(k) ==
    /\ ~published
    /\ fines[k] = "PENDING"
    /\ fines' = [fines EXCEPT ![k] = "WAIVED"]
    /\ UNCHANGED <<attendance, active, begun, bookVars>>

SetStatus(s) ==
    /\ active' = IF s \in active THEN active \ {s} ELSE active \cup {s}
    /\ UNCHANGED <<attendance, fines, begun, bookVars>>

DayBegins(d) ==
    /\ d \notin begun
    /\ begun' = begun \cup {d}
    /\ UNCHANGED <<attendance, fines, active, bookVars>>

\* Choices and closures move on their own, and days end that have begun.
ChoiceMoves ==
    /\ UNCHANGED tableVars
    /\ past' \subseteq begun
    /\ Next

TableNext ==
    \/ \E S \in SUBSET Sitting : TakeAway(S)
    \/ \E s \in Student : SetStatus(s)
    \/ \E d \in Date : DayBegins(d)
    \/ ChoiceMoves
    \/ \E k \in Sitting : Scan(k) \/ Waive(k)
    \/ \E S \in SUBSET Sitting : Enter(S) \/ Fine(S)

TableSpec == TableInit /\ [][TableNext]_<<bookVars, tableVars>>
==============================================================================
