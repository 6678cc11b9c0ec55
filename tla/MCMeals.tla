------------------------------- MODULE MCMeals -------------------------------
(***************************************************************************)
(* Meals on small instances.                                               *)
(***************************************************************************)
EXTENDS Meals, TLC

Symmetry == Permutations(Session) \cup Permutations(HolidayId) \cup
            Permutations(Date) \cup Permutations(Meal)
==============================================================================
