\* Two requests in flight on every screen, three on the dashboard; two of each
\* thing that can be confused with another; a day of three meals in seven hours.
SPECIFICATION Spec
CONSTANTS
    CallId = {c1, c2}
    Tab = {t1, t2}
    MaxPair = 2
    MaxVersion = 1
    Student = {s1, s2}
    Query = {q1, q2}
    Scanned = {s1}
    Meal = {1, 2}
    Clock = {0, 1, 2, 3, 4, 5, 6}
    Key = {k1, k2}
    Value = {v1, v2}
    Week = {1, 2}
    Day = {1, 2}
    Period = {p1, p2}
    Amount = {a1, a2}
    Window = {w1, w2}
    Tile = {m1, m2}
    DashboardCallId = {c1, c2, c3}
    Kind = {purchase, operational}
    Row = {r1, r2}
SYMMETRY Symmetry
INVARIANTS
    TypeOK
    ExecutedAtMostOnce
    RefusedOnlyForCause
    ResetEndsSessions
    NeverBlank
    ListIsTheLatest
    PublishesWhatIsShown
    ShownBelongsToChoice
    SuccessMeansRecorded
    ChosenMealStays
    SavedMeansStored
    DraftOnItsDay
    ReasonBelongsToItsRow
