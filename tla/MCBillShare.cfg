SPECIFICATION Spec
CONSTANTS
    N = 3
    LastDay = 4
    JoinDay = {1, 4}
    Meal = {"lunch", "dinner"}
    Plan <- MCPlan
    Closure <- MCClosure
    Expense = {0, 1, 2, 3, 5, 7, 13, 25}
    Scale = 1000
CHECK_DEADLOCK FALSE
INVARIANTS
    TypeOK
    ChargesCoverExpenses
    ChargeWithinACent
    FewerDaysNeverDearer
