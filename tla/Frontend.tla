------------------------------- MODULE Frontend -------------------------------
(***************************************************************************)
(* The browser application, one part at a time: the session layer under    *)
(* every request, the shell around the screens, and each screen with state *)
(* worth checking.  The parts share three variables: what the part shows   *)
(* or keeps, its requests in flight, and what of the server it meets.      *)
(* A screen is mounted afresh whenever it is opened and nothing it keeps   *)
(* outlives it, so a behaviour of the application, as far as one screen    *)
(* can tell, is a behaviour of that screen from its initial states.        *)
(***************************************************************************)
EXTENDS Naturals, FiniteSets

CONSTANTS
    CallId,                         \* bound: requests in flight at a time
    Tab, MaxPair, MaxVersion,       \* the session layer, see Session
    Student, Query,                 \* the directory
    Scanned, Meal,                  \* the scanner; meals, also of the menu
    Clock,                          \* the student's pass
    Key, Value,                     \* the settings
    Week, Day,                      \* the menu
    Period, Amount,                 \* billing, a student's bill, the ledger
    Window, Tile, DashboardCallId,  \* the dashboard
    Kind, Row                       \* the ledger and the payments

ASSUME BoundsAssumption == MaxPair \in Nat \ {0} /\ MaxVersion \in Nat

\* A tab is told apart from what else becomes of a refresh token.
ASSUME TabAssumption == Tab \cap {"good", "ended", "lost"} = {}

VARIABLES
    part,    \* the part the behaviour is about
    ui,      \* what it shows and keeps
    calls,   \* its requests in flight
    srv      \* the server, as far as it meets it

vars == <<part, ui, calls, srv>>

Parts == {"session", "shell", "directory", "billing", "studentBill", "overview", "scanner",
          "pass", "settings", "menu", "ledger", "payments"}

Sessions == INSTANCE Session
Shells == INSTANCE Shell
Directories == INSTANCE Directory
BillDesks == INSTANCE BillDesk
StudentBills == INSTANCE StudentBill
Overviews == INSTANCE Overview WITH CallId <- DashboardCallId
Scanners == INSTANCE Scanner WITH Student <- Scanned
Passes == INSTANCE QrPass
SettingsForms == INSTANCE Settings
MenuDesks == INSTANCE MenuDesk
Ledgers == INSTANCE Ledger
PaymentLists == INSTANCE Payments

\* The parts that meet nothing of the server but its answers.
NoServer == [none |-> TRUE]

Init ==
    \/ part = "session" /\ Sessions!Init
    \/ part = "scanner" /\ Scanners!Init
    \/ part = "pass" /\ Passes!Init
    \/ part = "settings" /\ SettingsForms!Init
    \/ part = "menu" /\ MenuDesks!Init
    \/ /\ srv = NoServer
       /\ \/ part = "shell" /\ Shells!Init
          \/ part = "directory" /\ Directories!Init
          \/ part = "billing" /\ BillDesks!Init
          \/ part = "studentBill" /\ StudentBills!Init
          \/ part = "overview" /\ Overviews!Init
          \/ part = "ledger" /\ Ledgers!Init
          \/ part = "payments" /\ PaymentLists!Init

Step ==
    \/ part = "session" /\ Sessions!Next
    \/ part = "scanner" /\ Scanners!Next
    \/ part = "pass" /\ Passes!Next
    \/ part = "settings" /\ SettingsForms!Next
    \/ part = "menu" /\ MenuDesks!Next
    \/ /\ UNCHANGED srv
       /\ \/ part = "shell" /\ Shells!Next
          \/ part = "directory" /\ Directories!Next
          \/ part = "billing" /\ BillDesks!Next
          \/ part = "studentBill" /\ StudentBills!Next
          \/ part = "overview" /\ Overviews!Next
          \/ part = "ledger" /\ Ledgers!Next
          \/ part = "payments" /\ PaymentLists!Next

Next == UNCHANGED part /\ Step

Spec == Init /\ [][Next]_vars

(* ---- properties: those of the parts, under the same names ---- *)

TypeOK ==
    /\ part \in Parts
    /\ CASE part = "session" -> Sessions!TypeOK
         [] part = "shell" -> Shells!TypeOK
         [] part = "directory" -> Directories!TypeOK
         [] part = "billing" -> BillDesks!TypeOK
         [] part = "studentBill" -> StudentBills!TypeOK
         [] part = "overview" -> Overviews!TypeOK
         [] part = "scanner" -> Scanners!TypeOK
         [] part = "pass" -> Passes!TypeOK
         [] part = "settings" -> SettingsForms!TypeOK
         [] part = "menu" -> MenuDesks!TypeOK
         [] part = "ledger" -> Ledgers!TypeOK
         [] part = "payments" -> PaymentLists!TypeOK

\* A write the client sends again after a 401 is executed at most once.
ExecutedAtMostOnce == part = "session" => Sessions!ExecutedAtMostOnce

\* A page is never refused its session by a refresh it was itself waiting for.
RefusedOnlyForCause == part = "session" => Sessions!RefusedOnlyForCause

\* Setting a password ends every session begun before it.
ResetEndsSessions == part = "session" => Sessions!ResetEndsSessions

\* Someone signed in, once no profile is awaited, sees a view of their own role.
NeverBlank == part = "shell" => Shells!NeverBlank

\* The directory lists the answer to the request it sent last, in whatever order
\* answers arrive.
ListIsTheLatest == part = "directory" => Directories!ListIsTheLatest

\* The bill that is published is the one previewed on the screen.
PublishesWhatIsShown == part = "billing" => BillDesks!PublishesWhatIsShown

\* The billing screen's status, preview and bills, a student's bill and the
\* dashboard's history rows belong to the month or window chosen.
ShownBelongsToChoice ==
    /\ part = "billing" => BillDesks!ShownBelongsToChoice
    /\ part = "studentBill" => StudentBills!ShownBelongsToChoice
    /\ part = "overview" => Overviews!ShownBelongsToChoice

\* A check-in the scanner lists as successful was recorded.
SuccessMeansRecorded == part = "scanner" => Scanners!SuccessMeansRecorded

\* The meal a student picked for the pass stays.
ChosenMealStays == part = "pass" => Passes!ChosenMealStays

\* Settings said to be saved are the ones stored, unless another administrator
\* or a save that was given up on wrote them since.
SavedMeansStored == part = "settings" => SettingsForms!SavedMeansStored

\* A menu is published to the day its editor was opened on.
DraftOnItsDay == part = "menu" => MenuDesks!DraftOnItsDay

\* A reason is sent for the entry or the payment it was typed for.
ReasonBelongsToItsRow ==
    /\ part = "ledger" => Ledgers!ReasonBelongsToItsRow
    /\ part = "payments" => PaymentLists!ReasonBelongsToItsRow

=============================================================================
