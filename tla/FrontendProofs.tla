---------------------------- MODULE FrontendProofs ----------------------------
(***************************************************************************)
(* Frontend keeps what its parts promise, for any number of tabs,          *)
(* requests, students, months and settings, and any bound on token pairs   *)
(* and versions. A behaviour is about one part, and a step is a step of    *)
(* that part: the invariant of Frontend is that of whichever part it is,   *)
(* and the properties follow from it.                                      *)
(***************************************************************************)
EXTENDS ScreenProofs, FormProofs, SessionProofs

\* The invariant of the part a behaviour is about.
FrontendInv ==
    /\ part \in Parts
    /\ part = "session" => SessionInv
    /\ part = "shell" => ShellInv
    /\ part = "directory" => DirectoryInv
    /\ part = "billing" => DeskInv
    /\ part = "studentBill" => BillInv
    /\ part = "overview" => OverviewInv
    /\ part = "scanner" => ScannerInv
    /\ part = "pass" => PassInv
    /\ part = "settings" => SettingsInv
    /\ part = "menu" => MenuInv
    /\ part = "ledger" => LedgerInv
    /\ part = "payments" => PaymentsInv

\* It holds when a part begins.
LEMMA FrontendInit == ASSUME Init PROVE FrontendInv
<1>1. CASE part = "session"
  <2>1. Sessions!Init
    BY <1>1 DEF Init
  <2> QED BY <1>1, <2>1, SessionInit DEF FrontendInv, Parts
<1>2. CASE part = "shell"
  <2>1. Shells!Init
    BY <1>2 DEF Init
  <2> QED BY <1>2, <2>1, ShellInit DEF FrontendInv, Parts
<1>3. CASE part = "directory"
  <2>1. Directories!Init
    BY <1>3 DEF Init
  <2> QED BY <1>3, <2>1, DirectoryInit DEF FrontendInv, Parts
<1>4. CASE part = "billing"
  <2>1. BillDesks!Init
    BY <1>4 DEF Init
  <2> QED BY <1>4, <2>1, DeskInit DEF FrontendInv, Parts
<1>5. CASE part = "studentBill"
  <2>1. StudentBills!Init
    BY <1>5 DEF Init
  <2> QED BY <1>5, <2>1, BillInit DEF FrontendInv, Parts
<1>6. CASE part = "overview"
  <2>1. Overviews!Init
    BY <1>6 DEF Init
  <2> QED BY <1>6, <2>1, OverviewInit DEF FrontendInv, Parts
<1>7. CASE part = "scanner"
  <2>1. Scanners!Init
    BY <1>7 DEF Init
  <2> QED BY <1>7, <2>1, ScannerInit DEF FrontendInv, Parts
<1>8. CASE part = "pass"
  <2>1. Passes!Init
    BY <1>8 DEF Init
  <2> QED BY <1>8, <2>1, PassInit DEF FrontendInv, Parts
<1>9. CASE part = "settings"
  <2>1. SettingsForms!Init
    BY <1>9 DEF Init
  <2> QED BY <1>9, <2>1, SettingsInit DEF FrontendInv, Parts
<1>10. CASE part = "menu"
  <2>1. MenuDesks!Init
    BY <1>10 DEF Init
  <2> QED BY <1>10, <2>1, MenuInit DEF FrontendInv, Parts
<1>11. CASE part = "ledger"
  <2>1. Ledgers!Init
    BY <1>11 DEF Init
  <2> QED BY <1>11, <2>1, LedgerInit DEF FrontendInv, Parts
<1>12. CASE part = "payments"
  <2>1. PaymentLists!Init
    BY <1>12 DEF Init
  <2> QED BY <1>12, <2>1, PaymentsInit DEF FrontendInv, Parts
<1>13. part \in Parts
  BY DEF Init, Parts
<1> QED BY <1>1, <1>2, <1>3, <1>4, <1>5, <1>6, <1>7, <1>8, <1>9, <1>10, <1>11, <1>12,
           <1>13 DEF Parts

\* A step of a part keeps the invariant of that part.
LEMMA FrontendStep == ASSUME FrontendInv, Next PROVE FrontendInv'
<1>0. part' = part /\ part \in Parts /\ Step
  BY DEF Next, FrontendInv
<1>1. CASE part = "session"
  <2>1. Sessions!Next /\ SessionInv
    BY <1>0, <1>1 DEF Step, FrontendInv
  <2> QED BY <1>0, <1>1, <2>1, SessionStep DEF FrontendInv
<1>2. CASE part = "shell"
  <2>1. Shells!Next /\ ShellInv
    BY <1>0, <1>2 DEF Step, FrontendInv
  <2> QED BY <1>0, <1>2, <2>1, ShellStep DEF FrontendInv
<1>3. CASE part = "directory"
  <2>1. Directories!Next /\ DirectoryInv
    BY <1>0, <1>3 DEF Step, FrontendInv
  <2> QED BY <1>0, <1>3, <2>1, DirectoryStep DEF FrontendInv
<1>4. CASE part = "billing"
  <2>1. BillDesks!Next /\ DeskInv
    BY <1>0, <1>4 DEF Step, FrontendInv
  <2> QED BY <1>0, <1>4, <2>1, DeskStep DEF FrontendInv
<1>5. CASE part = "studentBill"
  <2>1. StudentBills!Next /\ BillInv
    BY <1>0, <1>5 DEF Step, FrontendInv
  <2> QED BY <1>0, <1>5, <2>1, BillStep DEF FrontendInv
<1>6. CASE part = "overview"
  <2>1. Overviews!Next /\ OverviewInv
    BY <1>0, <1>6 DEF Step, FrontendInv
  <2> QED BY <1>0, <1>6, <2>1, OverviewStep DEF FrontendInv
<1>7. CASE part = "scanner"
  <2>1. Scanners!Next /\ ScannerInv
    BY <1>0, <1>7 DEF Step, FrontendInv
  <2> QED BY <1>0, <1>7, <2>1, ScannerStep DEF FrontendInv
<1>8. CASE part = "pass"
  <2>1. Passes!Next /\ PassInv
    BY <1>0, <1>8 DEF Step, FrontendInv
  <2> QED BY <1>0, <1>8, <2>1, PassStep DEF FrontendInv
<1>9. CASE part = "settings"
  <2>1. SettingsForms!Next /\ SettingsInv
    BY <1>0, <1>9 DEF Step, FrontendInv
  <2> QED BY <1>0, <1>9, <2>1, SettingsStep DEF FrontendInv
<1>10. CASE part = "menu"
  <2>1. MenuDesks!Next /\ MenuInv
    BY <1>0, <1>10 DEF Step, FrontendInv
  <2> QED BY <1>0, <1>10, <2>1, MenuStep DEF FrontendInv
<1>11. CASE part = "ledger"
  <2>1. Ledgers!Next /\ LedgerInv
    BY <1>0, <1>11 DEF Step, FrontendInv
  <2> QED BY <1>0, <1>11, <2>1, LedgerStep DEF FrontendInv
<1>12. CASE part = "payments"
  <2>1. PaymentLists!Next /\ PaymentsInv
    BY <1>0, <1>12 DEF Step, FrontendInv
  <2> QED BY <1>0, <1>12, <2>1, PaymentsStep DEF FrontendInv
<1> QED BY <1>0, <1>1, <1>2, <1>3, <1>4, <1>5, <1>6, <1>7, <1>8, <1>9, <1>10, <1>11, <1>12 DEF Parts

\* A step that changes nothing keeps it too: the invariants are about ui, calls
\* and srv alone.
LEMMA FrontendStutters == ASSUME FrontendInv, UNCHANGED vars PROVE FrontendInv'
<1>0. ui' = ui /\ calls' = calls /\ srv' = srv /\ part' = part
  BY DEF vars
<1>1. SessionInv => SessionInv'
  BY <1>0 DEF SessionInv, AccessIsCurrent, NotYetRun
<1>2. ShellInv => ShellInv'
  BY <1>0 DEF ShellInv, Shells!NeverBlank
<1>3. DirectoryInv => DirectoryInv'
  BY <1>0 DEF DirectoryInv, OneLatest, Directories!ListIsTheLatest
<1>4. DeskInv => DeskInv'
  BY <1>0 DEF DeskInv, PreviewIsCurrent, CallIsCurrent, StatusIsCurrent
<1>5. BillInv => BillInv'
  BY <1>0 DEF BillInv, BillsAreCurrent, BillOfPeriod, StudentBills!ShownBelongsToChoice,
     StudentBills!Shown
<1>6. OverviewInv => OverviewInv'
  BY <1>0 DEF OverviewInv, TrendsAreCurrent, Overviews!ShownBelongsToChoice
<1>7. ScannerInv => ScannerInv'
  BY <1>0 DEF ScannerInv, AnswersAreRecorded, Scanners!SuccessMeansRecorded
<1>8. PassInv => PassInv'
  BY <1>0 DEF PassInv, Passes!ChosenMealStays
<1>9. SettingsInv => SettingsInv'
  BY <1>0 DEF SettingsInv, OneLoad, BeforeTheForm, OneSave, LateIsTyped, UntypedIsUntouched,
     SavedHere, Covers
<1>10. MenuInv => MenuInv'
  BY <1>0 DEF MenuInv, EditorIsOfDayShown, SavesOnTheirDay, MenuDesks!DraftOnItsDay, MenuDesks!Shown
<1>11. LedgerInv => LedgerInv'
  BY <1>0 DEF LedgerInv, ReasonOfTheDialog, Ledgers!ReasonBelongsToItsRow
<1>12. PaymentsInv => PaymentsInv'
  BY <1>0 DEF PaymentsInv, NoteOfTheDialog, PaymentLists!ReasonBelongsToItsRow
<1> QED BY <1>0, <1>1, <1>2, <1>3, <1>4, <1>5, <1>6, <1>7, <1>8, <1>9, <1>10, <1>11,
           <1>12 DEF FrontendInv

\* The invariant of Frontend, of every behaviour.
THEOREM FrontendInvariance == Spec => []FrontendInv
<1>1. FrontendInv /\ [Next]_vars => FrontendInv'
  BY FrontendStep, FrontendStutters
<1> QED BY FrontendInit, <1>1, PTL DEF Spec

------------------------------------------------------------------------------
(* ---- the properties ---- *)

\* Every variable keeps the type of the part the behaviour is about.
THEOREM FrontendTypeCorrect == Spec => []TypeOK
<1>1. ASSUME FrontendInv PROVE TypeOK
  <2>0. part \in Parts
    BY <1>1 DEF FrontendInv
  <2>1. CASE part = "session"
    <3>1. Sessions!TypeOK
      BY <1>1, <2>1, SessionTyped DEF FrontendInv, SessionInv
    <3> QED BY <2>0, <2>1, <3>1 DEF TypeOK
  <2>2. CASE part = "shell"
    <3>1. Shells!TypeOK
      BY <1>1, <2>2, ShellTyped DEF FrontendInv, ShellInv
    <3> QED BY <2>0, <2>2, <3>1 DEF TypeOK
  <2>3. CASE part = "directory"
    <3>1. Directories!TypeOK
      BY <1>1, <2>3, DirectoryTyped DEF FrontendInv, DirectoryInv
    <3> QED BY <2>0, <2>3, <3>1 DEF TypeOK
  <2>4. CASE part = "billing"
    <3>1. BillDesks!TypeOK
      BY <1>1, <2>4, DeskTyped DEF FrontendInv, DeskInv
    <3> QED BY <2>0, <2>4, <3>1 DEF TypeOK
  <2>5. CASE part = "studentBill"
    <3>1. StudentBills!TypeOK
      BY <1>1, <2>5, BillTyped DEF FrontendInv, BillInv
    <3> QED BY <2>0, <2>5, <3>1 DEF TypeOK
  <2>6. CASE part = "overview"
    <3>1. Overviews!TypeOK
      BY <1>1, <2>6, OverviewTyped DEF FrontendInv, OverviewInv
    <3> QED BY <2>0, <2>6, <3>1 DEF TypeOK
  <2>7. CASE part = "scanner"
    <3>1. Scanners!TypeOK
      BY <1>1, <2>7, ScannerTyped DEF FrontendInv, ScannerInv
    <3> QED BY <2>0, <2>7, <3>1 DEF TypeOK
  <2>8. CASE part = "pass"
    <3>1. Passes!TypeOK
      BY <1>1, <2>8, PassTyped DEF FrontendInv, PassInv
    <3> QED BY <2>0, <2>8, <3>1 DEF TypeOK
  <2>9. CASE part = "settings"
    <3>1. SettingsForms!TypeOK
      BY <1>1, <2>9, SettingsTyped DEF FrontendInv, SettingsInv
    <3> QED BY <2>0, <2>9, <3>1 DEF TypeOK
  <2>10. CASE part = "menu"
    <3>1. MenuDesks!TypeOK
      BY <1>1, <2>10, MenuTyped DEF FrontendInv, MenuInv
    <3> QED BY <2>0, <2>10, <3>1 DEF TypeOK
  <2>11. CASE part = "ledger"
    <3>1. Ledgers!TypeOK
      BY <1>1, <2>11, LedgerTyped DEF FrontendInv, LedgerInv
    <3> QED BY <2>0, <2>11, <3>1 DEF TypeOK
  <2>12. CASE part = "payments"
    <3>1. PaymentLists!TypeOK
      BY <1>1, <2>12, PaymentsTyped DEF FrontendInv, PaymentsInv
    <3> QED BY <2>0, <2>12, <3>1 DEF TypeOK
  <2> QED BY <2>0, <2>1, <2>2, <2>3, <2>4, <2>5, <2>6, <2>7, <2>8, <2>9, <2>10, <2>11, <2>12 DEF Parts
<1> QED BY FrontendInvariance, <1>1, PTL

\* A request that is sent again after a 401 is executed at most once.
THEOREM RequestsRunOnce == Spec => []ExecutedAtMostOnce
<1>1. FrontendInv => ExecutedAtMostOnce
  BY SessionProperties DEF FrontendInv, ExecutedAtMostOnce
<1> QED BY FrontendInvariance, <1>1, PTL

\* A page is never refused by a refresh it was itself waiting for.
THEOREM PagesDoNotRefuseThemselves == Spec => []RefusedOnlyForCause
<1>1. FrontendInv => RefusedOnlyForCause
  BY SessionProperties DEF FrontendInv, RefusedOnlyForCause
<1> QED BY FrontendInvariance, <1>1, PTL

\* Setting a password ends every session begun before it.
THEOREM PasswordsEndSessions == Spec => []ResetEndsSessions
<1>1. FrontendInv => ResetEndsSessions
  BY SessionProperties DEF FrontendInv, ResetEndsSessions
<1> QED BY FrontendInvariance, <1>1, PTL

\* Someone signed in, once no profile is awaited, sees a view of their own role.
THEOREM SomethingIsShown == Spec => []NeverBlank
<1>1. FrontendInv => NeverBlank
  BY DEF FrontendInv, NeverBlank, ShellInv
<1> QED BY FrontendInvariance, <1>1, PTL

\* The directory lists the answer to the request it sent last.
THEOREM LatestIsListed == Spec => []ListIsTheLatest
<1>1. FrontendInv => ListIsTheLatest
  BY DEF FrontendInv, ListIsTheLatest, DirectoryInv
<1> QED BY FrontendInvariance, <1>1, PTL

\* What is published is the preview the screen shows.
THEOREM ShownIsPublished == Spec => []PublishesWhatIsShown
<1>1. FrontendInv => PublishesWhatIsShown
  BY DeskProperties DEF FrontendInv, PublishesWhatIsShown
<1> QED BY FrontendInvariance, <1>1, PTL

\* Status, preview and bills, a student's bill and the history rows belong to
\* the month or window chosen.
THEOREM ChoiceIsShown == Spec => []ShownBelongsToChoice
<1>1. FrontendInv => ShownBelongsToChoice
  BY DeskProperties DEF FrontendInv, ShownBelongsToChoice, BillInv, OverviewInv
<1> QED BY FrontendInvariance, <1>1, PTL

\* What the scanner lists as successful was recorded.
THEOREM SuccessIsRecorded == Spec => []SuccessMeansRecorded
<1>1. FrontendInv => SuccessMeansRecorded
  BY DEF FrontendInv, SuccessMeansRecorded, ScannerInv
<1> QED BY FrontendInvariance, <1>1, PTL

\* The meal picked for the pass stays.
THEOREM PickedMealStays == Spec => []ChosenMealStays
<1>1. FrontendInv => ChosenMealStays
  BY DEF FrontendInv, ChosenMealStays, PassInv
<1> QED BY FrontendInvariance, <1>1, PTL

\* Settings said to be saved are stored, but for what others and saves given up
\* on wrote since.
THEOREM SavedIsStored == Spec => []SavedMeansStored
<1>1. FrontendInv => SavedMeansStored
  BY SettingsProperty DEF FrontendInv, SavedMeansStored
<1> QED BY FrontendInvariance, <1>1, PTL

\* A menu is published to the day it was written for.
THEOREM DraftsKeepTheirDay == Spec => []DraftOnItsDay
<1>1. FrontendInv => DraftOnItsDay
  BY DEF FrontendInv, DraftOnItsDay, MenuInv
<1> QED BY FrontendInvariance, <1>1, PTL

\* A reason is sent for the row it was typed for.
THEOREM ReasonsKeepTheirRow == Spec => []ReasonBelongsToItsRow
<1>1. FrontendInv => ReasonBelongsToItsRow
  BY DEF FrontendInv, ReasonBelongsToItsRow, LedgerInv, PaymentsInv
<1> QED BY FrontendInvariance, <1>1, PTL

===============================================================================
