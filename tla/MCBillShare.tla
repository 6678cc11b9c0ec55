----------------------------- MODULE MCBillShare -----------------------------
(***************************************************************************)
(* BillShare for a month of four days with two meals: a student eats all   *)
(* of them, skips one meal, or cuts one, three or all days, and the mess   *)
(* is open, closed for a meal, or closed for a day.                        *)
(***************************************************************************)
EXTENDS BillShare

MCPlan ==
    LET Cut(days) == days \X Meal
    IN  {{}, {<<1, "lunch">>}, Cut({1}), Cut({2, 3, 4}), Cut(1..4)}

MCClosure == {{}, {<<1, "dinner">>}, {2} \X Meal}
==============================================================================
