SPECIFICATION DiningSpec
CONSTANTS
    Student = {s1, s2}
    Date = {d1}
    Meal = {lunch}
    HolidayId = {h1}
    Session = {w1, w2}
    MaxCuts = 1
SYMMETRY Symmetry
INVARIANTS
    DiningTypeOK
PROPERTIES
    AbsentWhenFined
    FinedChoseToEat
    ScannedChoseToEat
    RecordedWhileOpen
    WaivedStaysWaived
    ImplementsDiningBook
