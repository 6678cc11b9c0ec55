SPECIFICATION Spec
CONSTANTS
    Student = {s1}
    Date = {d1, d2}
    Meal = {breakfast, lunch, dinner}
    HolidayId = {h1, h2}
    Session = {w1, w2}
    MaxCuts = 1
SYMMETRY Symmetry
INVARIANTS
    ClosedMeansNoService
