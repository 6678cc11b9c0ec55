---------------------------- MODULE ScreenProofs ------------------------------
(***************************************************************************)
(* The screens that only list and edit what the server answers: each has   *)
(* an invariant, for any bounds, that its property follows from. It ties   *)
(* every request in flight to the choice it was made for, since an answer  *)
(* is told from a stale one by that alone. The typing of a screen is       *)
(* restated with names for its sets, so that a step need not look into     *)
(* them.                                                                   *)
(***************************************************************************)
EXTENDS Frontend, TLAPS

------------------------------------------------------------------------------
(* ---- the directory ---- *)

DirectoryLatest == SUBSET (CallId \X Query)
DirectoryRows == SUBSET Query
DirectorySelected == SUBSET Directories!Record
DirectoryScreen ==
    [query : Query, typed : BOOLEAN, loading : BOOLEAN, failed : BOOLEAN,
     latest : DirectoryLatest, rows : DirectoryRows, selected : DirectorySelected,
     memberType : Directories!Type, adding : BOOLEAN]
DirectoryCalls == [CallId -> Directories!Call \cup {Directories!NoCall}]

\* The typing of the directory, with names for its sets.
LEMMA DirectoryTyped == Directories!TypeOK <=> ui \in DirectoryScreen /\ calls \in DirectoryCalls
  BY DEF Directories!TypeOK, DirectoryScreen, DirectoryCalls, DirectoryLatest, DirectoryRows,
     DirectorySelected

\* What a call knows, by its kind.
LEMMA DirectoryCallKinds ==
    ASSUME NEW c \in Directories!Call \cup {Directories!NoCall}
    PROVE  /\ c.kind \notin {"none", "setupCode", "scanner"} => c.query \in Query
           /\ c.kind = "membership" => [c.of EXCEPT !.type = c.type] \in Directories!Record
           /\ c.kind = "suspension" => [c.of EXCEPT !.status = c.status] \in Directories!Record
  BY DEF Directories!Call, Directories!NoCall, Directories!Record

\* Asking for the list is typed.
LEMMA DirectoryFetch ==
    ASSUME NEW screen \in DirectoryScreen, calls \in DirectoryCalls,
           NEW i \in CallId, NEW q \in Query, NEW b \in Directories!Button \cup {"nothing"},
           Directories!FetchStudents(screen, i, q, b)
    PROVE  ui' \in DirectoryScreen /\ calls' \in DirectoryCalls
<1>1. {<<i, q>>} \in DirectoryLatest
  BY DEF DirectoryLatest
<1>2. ui' \in DirectoryScreen
  BY <1>1 DEF Directories!FetchStudents, DirectoryScreen
<1>3. [kind |-> "list", query |-> q, awaitedBy |-> b] \in Directories!Call
  BY DEF Directories!Call
<1>4. calls' \in DirectoryCalls
  BY <1>3 DEF Directories!FetchStudents, DirectoryCalls
<1> QED BY <1>2, <1>4

\* Whatever reloads the list, reloads it from a screen that is typed.
LEMMA DirectoryReloads ==
    ASSUME ui \in DirectoryScreen, calls \in DirectoryCalls, NEW i \in CallId,
           \/ Directories!Debounced(i)
           \/ Directories!MembershipSaved(i) \/ Directories!SuspensionSaved(i)
           \/ Directories!AttendanceReset(i) \/ Directories!StudentAdded(i)
    PROVE  \E screen \in DirectoryScreen, q \in Query, b \in Directories!Button \cup {"nothing"} :
             Directories!FetchStudents(screen, i, q, b)
<1>0. /\ {} \in DirectorySelected
      /\ \A r \in Directories!Record : {r} \in DirectorySelected
      /\ calls[i] \in Directories!Call \cup {Directories!NoCall}
  BY DEF DirectorySelected, DirectoryCalls
<1>1. CASE Directories!Debounced(i)
  <2>1. [ui EXCEPT !.typed = FALSE] \in DirectoryScreen /\ ui.query \in Query
    BY DEF DirectoryScreen
  <2> QED BY <1>1, <2>1 DEF Directories!Debounced
<1>2. CASE Directories!MembershipSaved(i)
  <2> DEFINE r == [calls[i].of EXCEPT !.type = calls[i].type]
  <2>1. calls[i].query \in Query /\ r \in Directories!Record
    BY <1>0, <1>2, DirectoryCallKinds DEF Directories!MembershipSaved
  <2>2. [ui EXCEPT !.selected = {r}] \in DirectoryScreen
    BY <1>0, <2>1 DEF DirectoryScreen
  <2> HIDE DEF r
  <2>3. Directories!FetchStudents([ui EXCEPT !.selected = {r}], i, calls[i].query, "membership")
    BY <1>2 DEF Directories!MembershipSaved, r
  <2> QED BY <2>1, <2>2, <2>3 DEF Directories!Button
<1>3. CASE Directories!SuspensionSaved(i)
  <2> DEFINE r == [calls[i].of EXCEPT !.status = calls[i].status]
  <2>1. calls[i].query \in Query /\ r \in Directories!Record
    BY <1>0, <1>3, DirectoryCallKinds DEF Directories!SuspensionSaved
  <2>2. [ui EXCEPT !.selected = {r}] \in DirectoryScreen
    BY <1>0, <2>1 DEF DirectoryScreen
  <2> HIDE DEF r
  <2>3. Directories!FetchStudents([ui EXCEPT !.selected = {r}], i, calls[i].query, "suspension")
    BY <1>3 DEF Directories!SuspensionSaved, r
  <2> QED BY <2>1, <2>2, <2>3 DEF Directories!Button
<1>4. CASE Directories!AttendanceReset(i) \/ Directories!StudentAdded(i)
  <2>1. calls[i].query \in Query
    BY <1>0, <1>4, DirectoryCallKinds DEF Directories!AttendanceReset, Directories!StudentAdded
  <2>2. [ui EXCEPT !.selected = {}] \in DirectoryScreen
          /\ [ui EXCEPT !.adding = FALSE] \in DirectoryScreen
    BY <1>0 DEF DirectoryScreen
  <2> QED BY <1>4, <2>1, <2>2 DEF Directories!AttendanceReset, Directories!StudentAdded,
             Directories!Button
<1> QED BY <1>1, <1>2, <1>3, <1>4

\* So is every step.
LEMMA DirectoryType ==
    ASSUME ui \in DirectoryScreen, calls \in DirectoryCalls, Directories!Next
    PROVE  ui' \in DirectoryScreen /\ calls' \in DirectoryCalls
<1> DEFINE Typed == ui' \in DirectoryScreen /\ calls' \in DirectoryCalls
<1>0. /\ {} \in DirectoryRows /\ {} \in DirectorySelected
      /\ \A q \in Query : {q} \in DirectoryRows
      /\ \A r \in Directories!Record : {r} \in DirectorySelected
      /\ \A i \in CallId : calls[i] \in Directories!Call \cup {Directories!NoCall}
  BY DEF DirectoryRows, DirectorySelected, DirectoryCalls
<1>1. ASSUME \/ \E q \in Query : Directories!Search(q)
             \/ \E r \in Directories!Record : Directories!OpenStudent(r)
             \/ \E t \in Directories!Type : Directories!PickType(t)
             \/ Directories!CloseStudent \/ Directories!OpenAdd \/ Directories!CancelAdd
      PROVE  Typed
  <2>1. ui' \in DirectoryScreen
    BY <1>0, <1>1 DEF Directories!Search, Directories!OpenStudent, Directories!PickType,
       Directories!CloseStudent, Directories!OpenAdd, Directories!CancelAdd, DirectoryScreen, Directories!Record
  <2>2. UNCHANGED calls
    BY <1>1 DEF Directories!Search, Directories!OpenStudent, Directories!PickType,
       Directories!CloseStudent, Directories!OpenAdd, Directories!CancelAdd
  <2> QED BY <2>1, <2>2
<1>2. ASSUME NEW i \in CallId,
             \/ Directories!Debounced(i)
             \/ Directories!MembershipSaved(i) \/ Directories!SuspensionSaved(i)
             \/ Directories!AttendanceReset(i) \/ Directories!StudentAdded(i)
      PROVE  Typed
  BY <1>2, DirectoryReloads, DirectoryFetch
<1>3. ASSUME NEW i \in CallId, Directories!ListArrives(i) \/ Directories!ListFails(i)
      PROVE  Typed
  <2>1. calls[i].query \in Query
    BY <1>0, <1>3, DirectoryCallKinds DEF Directories!ListArrives, Directories!ListFails
  <2>2. ui' \in DirectoryScreen
    BY <1>0, <1>3, <2>1 DEF Directories!ListArrives, Directories!ListFails, DirectoryScreen
  <2>3. calls' \in DirectoryCalls
    BY <1>0, <1>3, <2>1 DEF Directories!ListArrives, Directories!ListFails, DirectoryCalls
  <2> QED BY <2>2, <2>3
<1>4. ASSUME NEW i \in CallId,
             Directories!SaveMembership(i) \/ Directories!SetSuspension(i) \/ Directories!IssueSetupCode(i)
             \/ Directories!ChangeScanner(i) \/ Directories!ResetAttendance(i) \/ Directories!AddSubmit(i)
             \/ Directories!EditEnds(i)
      PROVE  Typed
  <2>0. ui.query \in Query /\ ui.memberType \in Directories!Type
          /\ \A r \in ui.selected : r \in Directories!Record
            /\ Directories!Other(r.status) \in Directories!Status
    BY DEF DirectoryScreen, DirectorySelected, Directories!Record, Directories!Other,
       Directories!Status
  <2>2. calls' \in DirectoryCalls
    BY <1>4, <2>0 DEF Directories!SaveMembership, Directories!SetSuspension,
       Directories!IssueSetupCode, Directories!ChangeScanner, Directories!ResetAttendance,
       Directories!AddSubmit, Directories!EditEnds, DirectoryCalls, Directories!Call
  <2> QED BY <1>4, <2>2 DEF Directories!SaveMembership, Directories!SetSuspension,
             Directories!IssueSetupCode, Directories!ChangeScanner, Directories!ResetAttendance,
             Directories!AddSubmit, Directories!EditEnds
<1> QED
  BY <1>1, <1>2, <1>3, <1>4 DEF Directories!Next

\* At most one request is the latest.
OneLatest == \A l, k \in ui.latest : l = k

DirectoryInv ==
    /\ ui \in DirectoryScreen
    /\ calls \in DirectoryCalls
    /\ OneLatest
    /\ Directories!ListIsTheLatest

\* The invariant holds when the directory is opened.
LEMMA DirectoryInit == ASSUME Directories!Init PROVE DirectoryInv
<1>1. ui \in DirectoryScreen
  BY DEF Directories!Init, DirectoryScreen, DirectoryLatest, DirectoryRows, DirectorySelected,
     Directories!Type
<1>2. calls \in DirectoryCalls
  BY DEF Directories!Init, DirectoryCalls
<1>3. ui.latest = {}
  BY DEF Directories!Init
<1> QED BY <1>1, <1>2, <1>3 DEF DirectoryInv, OneLatest, Directories!ListIsTheLatest

\* The request just sent becomes the latest, and the only one whose answer counts.
LEMMA FetchListsLatest ==
    ASSUME NEW screen \in DirectoryScreen, calls \in DirectoryCalls,
           NEW i \in CallId, NEW q \in Query, NEW b,
           Directories!FetchStudents(screen, i, q, b)
    PROVE  OneLatest' /\ Directories!ListIsTheLatest'
<1>1. ui'.latest = {<<i, q>>}
  BY DEF Directories!FetchStudents, DirectoryScreen
<1>2. calls'[i] = [kind |-> "list", query |-> q, awaitedBy |-> b]
  BY DEF Directories!FetchStudents, DirectoryCalls
<1>3. OneLatest'
  BY <1>1 DEF OneLatest
<1>4. Directories!ListIsTheLatest'
  BY <1>1, <1>2 DEF Directories!ListIsTheLatest
<1> QED BY <1>3, <1>4

\* Every step of the directory keeps the invariant.
LEMMA DirectoryStep ==
    ASSUME DirectoryInv, Directories!Next
    PROVE  DirectoryInv'
<1> USE DEF DirectoryInv
<1> DEFINE Lists == OneLatest' /\ Directories!ListIsTheLatest'
<1>0. \A l \in ui.latest : l[1] \in CallId
  BY DEF DirectoryScreen, DirectoryLatest
<1>1. ASSUME UNCHANGED calls, ui'.latest = ui.latest, ui'.rows = ui.rows, ui'.failed = ui.failed
      PROVE  Lists
  BY <1>1 DEF OneLatest, Directories!ListIsTheLatest
<1>2. ASSUME \/ \E q \in Query : Directories!Search(q)
             \/ \E r \in Directories!Record : Directories!OpenStudent(r)
             \/ \E t \in Directories!Type : Directories!PickType(t)
             \/ Directories!CloseStudent \/ Directories!OpenAdd \/ Directories!CancelAdd
      PROVE  Lists
  BY <1>1, <1>2 DEF Directories!Search, Directories!OpenStudent, Directories!PickType,
     Directories!CloseStudent, Directories!OpenAdd, Directories!CancelAdd, DirectoryScreen
<1>3. ASSUME NEW i \in CallId,
             \/ Directories!Debounced(i)
             \/ Directories!MembershipSaved(i) \/ Directories!SuspensionSaved(i)
             \/ Directories!AttendanceReset(i) \/ Directories!StudentAdded(i)
      PROVE  Lists
  BY <1>3, DirectoryReloads, FetchListsLatest
<1>4. ASSUME NEW i \in CallId, Directories!ListArrives(i) \/ Directories!ListFails(i)
      PROVE  Lists
  <2>1. ui'.latest = ui.latest
    BY <1>4 DEF Directories!ListArrives, Directories!ListFails, DirectoryScreen
  <2>2. calls' = [calls EXCEPT ![i] = Directories!NoCall] /\ calls[i].kind = "list"
    BY <1>4 DEF Directories!ListArrives, Directories!ListFails
  <2>3. ASSUME NEW l \in ui.latest
        PROVE  \/ calls'[l[1]].kind = "list" /\ calls'[l[1]].query = l[2]
               \/ ui'.rows = {l[2]}
               \/ ui'.failed /\ ui'.rows = {}
    <3>1. CASE Directories!IsLatest(i)
      <4>1. l = <<i, calls[i].query>>
        BY <3>1 DEF Directories!IsLatest, OneLatest
      <4> QED BY <1>4, <3>1, <4>1 DEF Directories!ListArrives, Directories!ListFails,
                 DirectoryScreen
    <3>2. CASE ~Directories!IsLatest(i)
      <4>1. ui'.rows = ui.rows /\ ui'.failed = ui.failed
        BY <1>4, <3>2 DEF Directories!ListArrives, Directories!ListFails, DirectoryScreen
      <4>2. l = <<l[1], l[2]>>
        BY DEF DirectoryScreen, DirectoryLatest
      <4>3. l[1] # i \/ l[2] # calls[i].query
        BY <3>2, <4>2 DEF Directories!IsLatest
      <4>4. l[1] # i => calls'[l[1]] = calls[l[1]]
        BY <1>0, <2>2 DEF DirectoryCalls
      <4> QED BY <4>1, <4>3, <4>4 DEF Directories!ListIsTheLatest
    <3> QED BY <3>1, <3>2
  <2> QED BY <2>1, <2>3 DEF OneLatest, Directories!ListIsTheLatest
\* A request that is not a list begins or ends.
<1>5. ASSUME NEW i \in CallId, UNCHANGED ui, calls[i].kind # "list",
             \A j \in CallId \ {i} : calls'[j] = calls[j]
      PROVE  Lists
  BY <1>0, <1>5 DEF OneLatest, Directories!ListIsTheLatest
<1>6. ASSUME NEW i \in CallId,
             \/ Directories!SaveMembership(i) \/ Directories!SetSuspension(i)
             \/ Directories!IssueSetupCode(i) \/ Directories!ChangeScanner(i)
             \/ Directories!ResetAttendance(i) \/ Directories!AddSubmit(i)
             \/ Directories!EditEnds(i)
      PROVE  Lists
  <2>1. UNCHANGED ui /\ calls[i].kind # "list"
    BY <1>6 DEF Directories!SaveMembership, Directories!SetSuspension,
       Directories!IssueSetupCode, Directories!ChangeScanner, Directories!ResetAttendance,
       Directories!AddSubmit, Directories!EditEnds, Directories!NoCall
  <2>2. \A j \in CallId \ {i} : calls'[j] = calls[j]
    BY <1>6 DEF Directories!SaveMembership, Directories!SetSuspension,
       Directories!IssueSetupCode, Directories!ChangeScanner, Directories!ResetAttendance,
       Directories!AddSubmit, Directories!EditEnds, DirectoryCalls
  <2> QED BY <1>5, <2>1, <2>2
<1> QED
  BY <1>2, <1>3, <1>4, <1>6, DirectoryType DEF Directories!Next

------------------------------------------------------------------------------
(* ---- the dashboard ---- *)

OverviewExtras == SUBSET {"menu", "payments"}
OverviewWindows == SUBSET Window
OverviewTiles == SUBSET Tile
OverviewScreen ==
    [stats : BOOLEAN, extras : OverviewExtras, loading : BOOLEAN, failed : BOOLEAN,
     window : Window, trends : OverviewWindows, trendsLoading : BOOLEAN,
     trendsFailed : BOOLEAN, drill : OverviewTiles, drillRows : OverviewTiles,
     drillLoading : BOOLEAN]
OverviewCalls == [DashboardCallId -> Overviews!Call \cup {Overviews!NoCall}]

\* The typing of the dashboard, with names for its sets.
LEMMA OverviewTyped == Overviews!TypeOK <=> ui \in OverviewScreen /\ calls \in OverviewCalls
  BY DEF Overviews!TypeOK, OverviewScreen, OverviewCalls, OverviewExtras, OverviewWindows,
     OverviewTiles

\* An uncancelled history request is for the window chosen.
TrendsAreCurrent ==
    \A i \in DashboardCallId :
        calls[i].kind = "trends" /\ calls[i].current => calls[i].window = ui.window

OverviewInv ==
    /\ ui \in OverviewScreen
    /\ calls \in OverviewCalls
    /\ TrendsAreCurrent
    /\ Overviews!ShownBelongsToChoice

\* The invariant holds when the dashboard is opened.
LEMMA OverviewInit == ASSUME Overviews!Init PROVE OverviewInv
<1>1. ui \in OverviewScreen /\ ui.trendsLoading
  BY DEF Overviews!Init, OverviewScreen, OverviewExtras, OverviewWindows, OverviewTiles
<1>2. calls \in OverviewCalls
  BY DEF Overviews!Init, OverviewCalls, Overviews!Call
<1>3. TrendsAreCurrent
  BY DEF Overviews!Init, TrendsAreCurrent, Overviews!NoCall
<1> QED BY <1>1, <1>2, <1>3 DEF OverviewInv, Overviews!ShownBelongsToChoice

\* The kind of a request tells its fields.
LEMMA OverviewCallKinds ==
    ASSUME NEW c \in Overviews!Call \cup {Overviews!NoCall}
    PROVE  /\ c.kind = "trends" => /\ c.window \in Window
                                   /\ [c EXCEPT !.current = FALSE] \in Overviews!Call
                                   /\ [c EXCEPT !.current = FALSE].current = FALSE
           /\ c.kind = "drill" => c.tile \in Tile
<1>1. ASSUME c.kind = "trends"
      PROVE  c \in [kind : {"trends"}, window : Window, current : BOOLEAN]
  BY <1>1 DEF Overviews!Call, Overviews!NoCall
<1>2. ASSUME c \in [kind : {"trends"}, window : Window, current : BOOLEAN]
      PROVE  /\ c.window \in Window
             /\ [c EXCEPT !.current = FALSE] \in [kind : {"trends"}, window : Window, current : BOOLEAN]
             /\ [c EXCEPT !.current = FALSE].current = FALSE
  BY <1>2
<1>3. c.kind = "drill" => c.tile \in Tile
  BY DEF Overviews!Call, Overviews!NoCall
<1> QED BY <1>1, <1>2, <1>3 DEF Overviews!Call

\* Requests that are not for the history, and screens that keep it.
OtherCall == {c \in Overviews!Call \cup {Overviews!NoCall} : c.kind # "trends"}
HistoryKept ==
    /\ ui' \in OverviewScreen
    /\ ui'.window = ui.window /\ ui'.trends = ui.trends
    /\ ui'.trendsLoading = ui.trendsLoading /\ ui'.trendsFailed = ui.trendsFailed

\* They are all but the request for the history rows.
LEMMA OtherCalls ==
    /\ Overviews!NoCall \in OtherCall
    /\ \A after \in {"nothing", "record"} : [kind |-> "load", after |-> after] \in OtherCall
    /\ \A tile \in Tile : [kind |-> "drill", tile |-> tile] \in OtherCall
    /\ [kind |-> "pending"] \in OtherCall
    /\ [kind |-> "record"] \in OtherCall
  BY DEF OtherCall, Overviews!Call, Overviews!NoCall

\* A step that leaves the rows and the window alone, and asks for no rows, keeps
\* what is known of them.
LEMMA HistoryKeptStep ==
    ASSUME OverviewInv, HistoryKept, NEW i \in DashboardCallId, NEW c \in OtherCall,
           calls' = [calls EXCEPT ![i] = c]
    PROVE  OverviewInv'
<1>1. calls' \in OverviewCalls
  BY DEF OverviewInv, OverviewCalls, OtherCall
<1>2. TrendsAreCurrent'
  BY DEF OverviewInv, TrendsAreCurrent, OverviewCalls, OtherCall, HistoryKept
<1> QED BY <1>1, <1>2 DEF OverviewInv, Overviews!ShownBelongsToChoice, HistoryKept

\* Every step of the dashboard keeps the invariant.
LEMMA OverviewStep == ASSUME OverviewInv, Overviews!Next PROVE OverviewInv'
<1>0. /\ ui \in OverviewScreen /\ calls \in OverviewCalls
      /\ {} \in OverviewWindows /\ {} \in OverviewTiles
      /\ \A w \in Window : {w} \in OverviewWindows
      /\ \A t \in Tile : {t} \in OverviewTiles
      /\ \A i \in DashboardCallId : calls[i] \in Overviews!Call \cup {Overviews!NoCall}
  BY DEF OverviewWindows, OverviewTiles, OverviewCalls, OverviewInv
<1>2. ASSUME NEW i \in DashboardCallId, Overviews!Refresh(i) \/ Overviews!Recorded(i)
      PROVE  OverviewInv'
  <2>1. PICK after \in {"nothing", "record"} : Overviews!Load(i, after)
    BY <1>2 DEF Overviews!Refresh, Overviews!Recorded
  <2>2. HistoryKept
    BY <1>0, <2>1 DEF Overviews!Load, OverviewScreen, HistoryKept
  <2>3. calls' = [calls EXCEPT ![i] = [kind |-> "load", after |-> after]]
    BY <2>1 DEF Overviews!Load
  <2> QED BY <2>2, <2>3, HistoryKeptStep, OtherCalls
<1>3. ASSUME NEW i \in DashboardCallId,
             \/ \E extras \in SUBSET {"menu", "payments"} : Overviews!LoadLands(i, extras)
             \/ Overviews!LoadFails(i)
      PROVE  OverviewInv'
  <2>1. HistoryKept
    <3>1. CASE Overviews!LoadFails(i)
      BY <1>0, <3>1 DEF Overviews!LoadFails, OverviewScreen, HistoryKept
    <3>2. CASE \E extras \in OverviewExtras : Overviews!LoadLands(i, extras)
      BY <1>0, <3>2 DEF Overviews!LoadLands, OverviewScreen, HistoryKept
    <3> QED BY <1>3, <3>1, <3>2 DEF OverviewExtras
  <2>2. calls' = [calls EXCEPT ![i] = Overviews!NoCall]
    BY <1>3 DEF Overviews!LoadLands, Overviews!LoadFails
  <2> QED BY <2>1, <2>2, HistoryKeptStep, OtherCalls
<1>4. ASSUME NEW i \in DashboardCallId, NEW w \in Window, Overviews!ChooseWindow(i, w)
      PROVE  OverviewInv'
  <2>1. ui' \in OverviewScreen /\ ui'.trendsLoading /\ ui'.window = w
    BY <1>0, <1>4 DEF Overviews!ChooseWindow, OverviewScreen
  <2>2. [kind |-> "trends", window |-> w, current |-> TRUE] \in Overviews!Call
    BY DEF Overviews!Call
  <2>3. calls' \in OverviewCalls
    <3>1. \A c \in DashboardCallId : calls[c].kind = "trends" =>
             [calls[c] EXCEPT !.current = FALSE] \in Overviews!Call
      BY <1>0, OverviewCallKinds
    <3> QED BY <1>0, <1>4, <2>2, <3>1 DEF Overviews!ChooseWindow, OverviewCalls
  <2>4. TrendsAreCurrent'
    BY <1>0, <1>4, <2>1, OverviewCallKinds DEF Overviews!ChooseWindow, TrendsAreCurrent
  <2> QED BY <2>1, <2>3, <2>4 DEF OverviewInv, Overviews!ShownBelongsToChoice
<1>5. ASSUME NEW i \in DashboardCallId, Overviews!TrendsLand(i) \/ Overviews!TrendsFail(i)
      PROVE  OverviewInv'
  <2>1. calls[i].window \in Window
    BY <1>0, <1>5, OverviewCallKinds DEF Overviews!TrendsLand, Overviews!TrendsFail
  <2>2. calls' = [calls EXCEPT ![i] = Overviews!NoCall]
    BY <1>5 DEF Overviews!TrendsLand, Overviews!TrendsFail
  <2>3. CASE ~calls[i].current
    <3>1. HistoryKept
      BY <1>0, <1>5, <2>3 DEF Overviews!TrendsLand, Overviews!TrendsFail, HistoryKept
    <3> QED BY <2>2, <3>1, HistoryKeptStep, OtherCalls
  <2>4. CASE calls[i].current
    <3>0. calls[i].window = ui.window
      BY <1>5, <2>4 DEF OverviewInv, TrendsAreCurrent, Overviews!TrendsLand, Overviews!TrendsFail
    <3>1. ui' \in OverviewScreen /\ ui'.window = ui.window
      BY <1>0, <1>5, <2>1, <2>4 DEF Overviews!TrendsLand, Overviews!TrendsFail, OverviewScreen
    <3>2. calls' \in OverviewCalls
      BY <1>0, <2>2 DEF OverviewCalls
    <3>3. TrendsAreCurrent'
      BY <1>0, <2>2, <3>1 DEF OverviewInv, TrendsAreCurrent, OverviewCalls, Overviews!NoCall
    <3>4. Overviews!ShownBelongsToChoice'
      <4>1. CASE Overviews!TrendsLand(i)
        <5>1. ui'.trends = {calls[i].window}
          BY <1>0, <2>4, <4>1 DEF Overviews!TrendsLand, OverviewScreen
        <5> QED BY <3>0, <3>1, <5>1 DEF Overviews!ShownBelongsToChoice
      <4>2. CASE Overviews!TrendsFail(i)
        <5>1. ui'.trends = {} /\ ui'.trendsFailed
          BY <1>0, <2>4, <4>2 DEF Overviews!TrendsFail, OverviewScreen
        <5> QED BY <5>1 DEF Overviews!ShownBelongsToChoice
      <4> QED BY <1>5, <4>1, <4>2
    <3> QED BY <3>1, <3>2, <3>3, <3>4 DEF OverviewInv
  <2> QED BY <2>3, <2>4
<1>6. ASSUME NEW i \in DashboardCallId, NEW tile \in Tile, Overviews!OpenDrill(i, tile)
      PROVE  OverviewInv'
  <2>1. HistoryKept
    BY <1>0, <1>6 DEF Overviews!OpenDrill, OverviewScreen, HistoryKept
  <2>2. calls' = [calls EXCEPT ![i] = [kind |-> "drill", tile |-> tile]]
    BY <1>6 DEF Overviews!OpenDrill
  <2> QED BY <2>1, <2>2, HistoryKeptStep, OtherCalls
<1>7. ASSUME NEW i \in DashboardCallId, NEW ok \in BOOLEAN, Overviews!DrillEnds(i, ok)
      PROVE  OverviewInv'
  <2>1. calls[i].tile \in Tile
    BY <1>0, <1>7, OverviewCallKinds DEF Overviews!DrillEnds
  <2>2. HistoryKept
    BY <1>0, <1>7, <2>1 DEF Overviews!DrillEnds, OverviewScreen, HistoryKept
  <2>3. calls' = [calls EXCEPT ![i] = Overviews!NoCall]
    BY <1>7 DEF Overviews!DrillEnds
  <2> QED BY <2>2, <2>3, HistoryKeptStep, OtherCalls
<1>8. ASSUME NEW i \in DashboardCallId,
             \/ Overviews!AutoMarkPresent(i) \/ Overviews!ConfirmMarking(i)
             \/ Overviews!MarkingEnds(i)
      PROVE  OverviewInv'
  <2>1. HistoryKept
    BY <1>0, <1>8 DEF Overviews!AutoMarkPresent, Overviews!ConfirmMarking,
       Overviews!MarkingEnds, HistoryKept
  <2>2. \E c \in {[kind |-> "pending"], [kind |-> "record"], Overviews!NoCall} :
           calls' = [calls EXCEPT ![i] = c]
    BY <1>8 DEF Overviews!AutoMarkPresent, Overviews!ConfirmMarking, Overviews!MarkingEnds
  <2> QED BY <2>1, <2>2, HistoryKeptStep, OtherCalls
<1>9. ASSUME Overviews!CloseDrill
      PROVE  OverviewInv'
  BY <1>0, <1>9 DEF Overviews!CloseDrill, OverviewScreen, OverviewInv, TrendsAreCurrent,
     Overviews!ShownBelongsToChoice
<1> QED
  BY <1>2, <1>3, <1>4, <1>5, <1>6, <1>7, <1>8, <1>9 DEF Overviews!Next

------------------------------------------------------------------------------
(* ---- a student's bill ---- *)

BillPeriods == SUBSET Period
BillScreen ==
    [period : Period, bill : BillPeriods, loading : BOOLEAN, notPublished : BOOLEAN,
     failed : BOOLEAN, settled : BillPeriods, utr : BOOLEAN]
BillCalls == [CallId -> StudentBills!Call \cup {StudentBills!NoCall}]

\* The typing of the component, with the sets of months kept folded.
LEMMA BillTyped == StudentBills!TypeOK <=> ui \in BillScreen /\ calls \in BillCalls
  BY DEF StudentBills!TypeOK, BillScreen, BillCalls, BillPeriods

\* A bill request that was not cancelled is for the month chosen.
BillsAreCurrent ==
    \A i \in CallId : calls[i].kind = "bill" /\ ~calls[i].cancelled => calls[i].period = ui.period

\* The bill held is of the month chosen.
BillOfPeriod == ui.bill \subseteq {ui.period}

BillInv ==
    /\ ui \in BillScreen
    /\ calls \in BillCalls
    /\ BillsAreCurrent
    /\ BillOfPeriod
    /\ StudentBills!ShownBelongsToChoice

\* The invariant holds when a student opens the bill.
LEMMA BillInit == ASSUME StudentBills!Init PROVE BillInv
<1>1. ui \in BillScreen /\ ui.bill = {}
  BY DEF StudentBills!Init, BillScreen, BillPeriods
<1>2. calls \in BillCalls
  BY DEF StudentBills!Init, BillCalls, StudentBills!Call
<1>3. BillsAreCurrent
  BY DEF StudentBills!Init, BillsAreCurrent, StudentBills!NoCall
<1>4. \A i \in CallId : calls[i].kind # "pay"
  BY DEF StudentBills!Init, StudentBills!NoCall
<1> QED
  BY <1>1, <1>2, <1>3, <1>4 DEF BillInv, BillOfPeriod, StudentBills!ShownBelongsToChoice,
     StudentBills!Shown

\* What a call knows, by its kind.
LEMMA BillCallKinds ==
    ASSUME NEW c \in StudentBills!Call \cup {StudentBills!NoCall}, c.kind = "bill"
    PROVE  /\ c.period \in Period
           /\ [c EXCEPT !.cancelled = TRUE] \in StudentBills!Call
           /\ [c EXCEPT !.cancelled = TRUE].cancelled
           /\ [c EXCEPT !.cancelled = TRUE].kind = "bill"
<1>1. c \in [kind : {"bill"}, period : Period, cancelled : BOOLEAN]
  BY DEF StudentBills!Call, StudentBills!NoCall
<1>2. /\ c.period \in Period
      /\ [c EXCEPT !.cancelled = TRUE] \in [kind : {"bill"}, period : Period, cancelled : BOOLEAN]
      /\ [c EXCEPT !.cancelled = TRUE].cancelled
      /\ [c EXCEPT !.cancelled = TRUE].kind = "bill"
  BY <1>1
<1> QED BY <1>2 DEF StudentBills!Call

\* The calls that answer for no bill, and whose totals are of their month.
OtherBillCall ==
    {c \in StudentBills!Call \cup {StudentBills!NoCall} :
        /\ c.kind # "bill"
        /\ c.kind = "pay" => c.totalOf = c.period}

\* They are the requests the screen sends besides the one for a bill.
LEMMA OtherBillCalls ==
    /\ StudentBills!NoCall \in OtherBillCall
    /\ \A p \in Period : [kind |-> "pay", period |-> p, totalOf |-> p] \in OtherBillCall
    /\ [kind |-> "payments", after |-> "pay"] \in OtherBillCall
  BY DEF OtherBillCall, StudentBills!Call, StudentBills!NoCall

\* A step that keeps the bill and the month, or shows the bill of the month.
LEMMA BillKeptStep ==
    ASSUME BillInv, NEW i \in CallId, NEW c \in OtherBillCall,
           calls' = [calls EXCEPT ![i] = c],
           ui' \in BillScreen, ui'.period = ui.period, BillOfPeriod'
    PROVE  BillInv'
<1>1. calls' \in BillCalls
  BY DEF BillInv, BillCalls, OtherBillCall
<1>2. BillsAreCurrent'
  BY DEF BillInv, BillsAreCurrent, BillCalls, OtherBillCall
<1>3. StudentBills!ShownBelongsToChoice'
  <2>1. \A j \in CallId : calls'[j].kind = "pay" => calls'[j].totalOf = calls'[j].period
    BY DEF BillInv, BillCalls, OtherBillCall, StudentBills!ShownBelongsToChoice
  <2>2. StudentBills!Shown' \subseteq {ui'.period}
    BY DEF StudentBills!Shown, BillOfPeriod
  <2> QED BY <2>1, <2>2 DEF StudentBills!ShownBelongsToChoice
<1> QED BY <1>1, <1>2, <1>3 DEF BillInv

\* Every step of a student's bill keeps the invariant.
LEMMA BillStep == ASSUME BillInv, StudentBills!Next PROVE BillInv'
<1>0. /\ ui \in BillScreen /\ calls \in BillCalls /\ BillOfPeriod
      /\ {} \in BillPeriods
      /\ \A p \in Period : {p} \in BillPeriods
      /\ \A i \in CallId : calls[i] \in StudentBills!Call \cup {StudentBills!NoCall}
  BY DEF BillPeriods, BillCalls, BillInv
<1>1. ASSUME NEW i \in CallId, NEW p \in Period, StudentBills!ChoosePeriod(i, p)
      PROVE  BillInv'
  <2>1. ui' \in BillScreen /\ ui'.period = p /\ ui'.bill = {}
    BY <1>0, <1>1 DEF StudentBills!ChoosePeriod, BillScreen
  <2>2. [kind |-> "bill", period |-> p, cancelled |-> FALSE] \in StudentBills!Call
    BY DEF StudentBills!Call
  <2>3. calls' \in BillCalls
    <3>1. \A c \in CallId : calls[c].kind = "bill" =>
             [calls[c] EXCEPT !.cancelled = TRUE] \in StudentBills!Call
      BY <1>0, BillCallKinds
    <3> QED BY <1>0, <1>1, <2>2, <3>1 DEF StudentBills!ChoosePeriod, BillCalls
  <2>4. BillsAreCurrent'
    BY <1>0, <1>1, <2>1, BillCallKinds DEF StudentBills!ChoosePeriod, BillsAreCurrent
  <2>5. \A j \in CallId : calls'[j].kind = "pay" => calls'[j] = calls[j]
    BY <1>0, <1>1, BillCallKinds DEF StudentBills!ChoosePeriod
  <2>6. StudentBills!ShownBelongsToChoice'
    BY <2>1, <2>5 DEF BillInv, StudentBills!ShownBelongsToChoice, StudentBills!Shown
  <2> QED BY <2>1, <2>3, <2>4, <2>6 DEF BillInv, BillOfPeriod
<1>2. ASSUME NEW i \in CallId,
             StudentBills!BillLands(i) \/ StudentBills!BillNotPublished(i) \/ StudentBills!BillFails(i)
      PROVE  BillInv'
  <2>1. calls[i].kind = "bill" /\ calls' = [calls EXCEPT ![i] = StudentBills!NoCall]
    BY <1>2 DEF StudentBills!BillLands, StudentBills!BillNotPublished, StudentBills!BillFails,
       StudentBills!BillAnswered
  <2>2. calls[i].period \in Period /\ (~calls[i].cancelled => calls[i].period = ui.period)
    BY <1>0, <2>1, BillCallKinds DEF BillInv, BillsAreCurrent
  <2>3. ui' \in BillScreen /\ ui'.period = ui.period /\ BillOfPeriod'
    <3>1. CASE calls[i].cancelled
      <4>1. ui' = ui
        BY <1>2, <3>1 DEF StudentBills!BillLands, StudentBills!BillNotPublished,
           StudentBills!BillFails, StudentBills!BillAnswered
      <4> QED BY <1>0, <4>1 DEF BillOfPeriod
    <3>2. CASE ~calls[i].cancelled
      <4>1. \/ ui' = [[ui EXCEPT !.bill = {calls[i].period}] EXCEPT !.loading = FALSE]
            \/ ui' = [[ui EXCEPT !.notPublished = TRUE] EXCEPT !.loading = FALSE]
            \/ ui' = [[ui EXCEPT !.failed = TRUE] EXCEPT !.loading = FALSE]
        BY <1>2, <3>2 DEF StudentBills!BillLands, StudentBills!BillNotPublished,
           StudentBills!BillFails, StudentBills!BillAnswered
      <4>2. /\ ui' \in BillScreen /\ ui'.period = ui.period
            /\ ui'.bill \in {ui.bill, {calls[i].period}}
        BY <1>0, <2>2, <4>1 DEF BillScreen
      <4> QED BY <1>0, <2>2, <3>2, <4>2 DEF BillOfPeriod
    <3> QED BY <3>1, <3>2
  <2> QED BY <2>1, <2>3, BillKeptStep, OtherBillCalls
<1>3. ASSUME NEW i \in CallId, NEW settled \in SUBSET Period, StudentBills!PaymentsLand(i, settled)
      PROVE  BillInv'
  <2>1. settled \in BillPeriods
    BY DEF BillPeriods
  <2>2. ui' \in BillScreen /\ ui'.period = ui.period /\ ui'.bill = ui.bill
    BY <1>0, <1>3, <2>1 DEF StudentBills!PaymentsLand, BillScreen
  <2>3. calls' = [calls EXCEPT ![i] = StudentBills!NoCall]
    BY <1>3 DEF StudentBills!PaymentsLand
  <2> QED BY <1>0, <2>2, <2>3, BillKeptStep, OtherBillCalls DEF BillOfPeriod
<1>4. ASSUME NEW i \in CallId, StudentBills!SubmitPayment(i)
      PROVE  BillInv'
  <2>1. PICK b \in StudentBills!Shown :
           calls' = [calls EXCEPT ![i] = [kind |-> "pay", period |-> ui.period, totalOf |-> b]]
    BY <1>4 DEF StudentBills!SubmitPayment
  <2>2. b = ui.period /\ ui.period \in Period /\ UNCHANGED ui
    BY <1>0, <1>4, <2>1 DEF BillInv, StudentBills!ShownBelongsToChoice, BillScreen,
       StudentBills!SubmitPayment
  <2> QED BY <1>0, <2>1, <2>2, BillKeptStep, OtherBillCalls DEF BillOfPeriod
<1>5. ASSUME NEW i \in CallId, StudentBills!PaymentSubmitted(i) \/ StudentBills!PaymentRefused(i)
      PROVE  BillInv'
  <2>1. ui' \in BillScreen /\ ui'.period = ui.period /\ ui'.bill = ui.bill
    BY <1>0, <1>5 DEF StudentBills!PaymentSubmitted, StudentBills!PaymentRefused, BillScreen
  <2>2. \E c \in {[kind |-> "payments", after |-> "pay"], StudentBills!NoCall} :
           calls' = [calls EXCEPT ![i] = c]
    BY <1>5 DEF StudentBills!PaymentSubmitted, StudentBills!PaymentRefused
  <2> QED BY <1>0, <2>1, <2>2, BillKeptStep, OtherBillCalls DEF BillOfPeriod
<1>6. ASSUME StudentBills!TypeUtr
      PROVE  BillInv'
  <2>1. /\ ui' \in BillScreen /\ ui'.period = ui.period /\ ui'.bill = ui.bill
        /\ ui'.loading = ui.loading /\ ui'.failed = ui.failed
        /\ ui'.notPublished = ui.notPublished /\ UNCHANGED calls
    BY <1>0, <1>6 DEF StudentBills!TypeUtr, BillScreen
  <2> QED BY <2>1 DEF BillInv, BillsAreCurrent, BillOfPeriod, StudentBills!ShownBelongsToChoice,
             StudentBills!Shown
<1> QED
  BY <1>1, <1>2, <1>3, <1>4, <1>5, <1>6 DEF StudentBills!Next

------------------------------------------------------------------------------
(* ---- the billing screen ---- *)

DeskStatus == SUBSET BillDesks!Status
DeskPreview == SUBSET BillDesks!Preview
DeskBills == SUBSET Period
DeskExtras == SUBSET {"ledger", "roll"}
DeskScreen ==
    [period : Period, figures : BillDesks!Figures, status : DeskStatus, preview : DeskPreview,
     bills : DeskBills, extras : DeskExtras, reopening : BOOLEAN, reasoned : BOOLEAN]
DeskCalls == BillDesks!Call \cup {BillDesks!NoCall}

\* The typing of the billing screen, with names for its sets.
LEMMA DeskTyped == BillDesks!TypeOK <=> ui \in DeskScreen /\ calls \in DeskCalls
  BY DEF BillDesks!TypeOK, DeskScreen, DeskCalls, DeskStatus, DeskPreview, DeskBills, DeskExtras

\* The preview is of the month and the figures in the fields.
PreviewIsCurrent == \A p \in ui.preview : p.period = ui.period /\ p.figures = ui.figures

\* The one call in flight is for the month chosen, and one with figures has
\* those of the fields; while a month loads nothing of it is previewed.
CallIsCurrent ==
    /\ calls.kind # "none" => calls.period = ui.period
    /\ calls.kind \in {"preview", "publish"} => calls.figures = ui.figures
    /\ calls.kind = "load" => ui.preview = {}
    /\ calls.kind = "publish" => ui.preview # {}

\* Status and bills are of the month chosen.
StatusIsCurrent == (\A s \in ui.status : s.period = ui.period) /\ ui.bills \subseteq {ui.period}

DeskInv ==
    /\ ui \in DeskScreen
    /\ calls \in DeskCalls
    /\ PreviewIsCurrent
    /\ CallIsCurrent
    /\ StatusIsCurrent

\* The two properties follow from the invariant.
LEMMA DeskProperties ==
    ASSUME DeskInv
    PROVE  BillDesks!PublishesWhatIsShown /\ BillDesks!ShownBelongsToChoice
<1>1. BillDesks!PublishesWhatIsShown
  BY DEF DeskInv, PreviewIsCurrent, CallIsCurrent, BillDesks!PublishesWhatIsShown
<1>2. BillDesks!ShownBelongsToChoice
  BY DEF DeskInv, PreviewIsCurrent, StatusIsCurrent, BillDesks!ShownBelongsToChoice, BillDesks!Rows
<1> QED BY <1>1, <1>2

\* The invariant holds when the billing screen is opened.
LEMMA DeskInit == ASSUME BillDesks!Init PROVE DeskInv
<1>1. /\ ui \in DeskScreen /\ ui.preview = {} /\ ui.status = {} /\ ui.bills = {}
      /\ calls.kind = "load" /\ calls.period = ui.period
  BY DEF BillDesks!Init, DeskScreen, DeskStatus, DeskPreview, DeskBills, DeskExtras,
     BillDesks!Figures
<1>2. calls \in DeskCalls
  BY DEF BillDesks!Init, DeskCalls, BillDesks!Call
<1> QED BY <1>1, <1>2 DEF DeskInv, PreviewIsCurrent, CallIsCurrent, StatusIsCurrent

\* What the call in flight knows, by its kind.
LEMMA DeskCallKinds ==
    ASSUME NEW c \in DeskCalls
    PROVE  /\ c.kind # "none" => c.period \in Period
           /\ c.kind \in {"preview", "publish"} => c.figures \in BillDesks!Figures
  BY DEF DeskCalls, BillDesks!Call, BillDesks!NoCall

\* The requests the billing screen sends are of its types.
LEMMA DeskRequests ==
    /\ BillDesks!NoCall \in DeskCalls
    /\ \A p \in Period : \A k \in {"load", "fill", "bills", "reopen", "download"} :
          [kind |-> k, period |-> p] \in DeskCalls
    /\ \A p \in Period, f \in BillDesks!Figures : \A k \in {"preview", "publish"} :
          [kind |-> k, period |-> p, figures |-> f] \in DeskCalls
  BY DEF DeskCalls, BillDesks!Call

\* Every step of the billing screen keeps the invariant.
LEMMA DeskStep == ASSUME DeskInv, BillDesks!Next PROVE DeskInv'
<1>0. /\ ui \in DeskScreen /\ calls \in DeskCalls
      /\ {} \in DeskStatus /\ {} \in DeskPreview /\ {} \in DeskBills
      /\ \A p \in Period : {p} \in DeskBills
      /\ \A s \in BillDesks!Status : {s} \in DeskStatus
      /\ \A p \in BillDesks!Preview : {p} \in DeskPreview
      /\ \A p \in Period : [period |-> p, published |-> TRUE, legacy |-> FALSE] \in BillDesks!Status
      /\ \A p \in Period, f \in BillDesks!Figures, e \in BOOLEAN :
            [period |-> p, figures |-> f, empty |-> e] \in BillDesks!Preview
  BY DEF DeskStatus, DeskPreview, DeskBills, DeskInv, BillDesks!Status, BillDesks!Preview
<1>00. /\ calls.kind # "none" => calls.period \in Period /\ calls.period = ui.period
       /\ calls.kind = "preview" => calls.figures \in BillDesks!Figures
         /\ calls.figures = ui.figures
       /\ ui.period \in Period /\ ui.figures \in BillDesks!Figures
  BY <1>0, DeskCallKinds DEF DeskInv, CallIsCurrent, DeskScreen
<1>1. ASSUME NEW p \in Period, BillDesks!ChangePeriod(p)
      PROVE  DeskInv'
  <2>1. /\ ui' \in DeskScreen /\ ui'.period = p
        /\ ui'.preview = {} /\ ui'.status = {} /\ ui'.bills = {}
    BY <1>0, <1>1 DEF BillDesks!ChangePeriod, BillDesks!LoadPeriod, DeskScreen
  <2>2. calls' = [kind |-> "load", period |-> p] /\ calls' \in DeskCalls
    BY <1>1, DeskRequests DEF BillDesks!ChangePeriod, BillDesks!LoadPeriod
  <2> QED BY <2>1, <2>2 DEF DeskInv, PreviewIsCurrent, CallIsCurrent, StatusIsCurrent
<1>2. ASSUME NEW status \in BillDesks!Status, NEW figures \in BillDesks!Figures,
             NEW extras \in SUBSET {"ledger", "roll"}, BillDesks!Loaded(status, figures, extras)
      PROVE  DeskInv'
  <2>0. extras \in DeskExtras /\ calls.period = ui.period /\ status.period = ui.period
    BY <1>00, <1>2 DEF DeskExtras, BillDesks!Loaded
  <2>1. /\ ui' \in DeskScreen /\ ui'.period = ui.period
        /\ ui'.preview = ui.preview /\ ui'.status = {status} /\ ui'.bills \in {{}, {ui.period}}
    BY <1>0, <1>00, <1>2, <2>0 DEF BillDesks!Loaded, DeskScreen
  <2>2. calls' = BillDesks!NoCall /\ calls.kind = "load"
    BY <1>2 DEF BillDesks!Loaded
  <2>3. ui.preview = {}
    BY <2>2 DEF DeskInv, CallIsCurrent
  <2> QED BY <2>0, <2>1, <2>2, <2>3, DeskRequests
          DEF DeskInv, PreviewIsCurrent, CallIsCurrent, StatusIsCurrent, BillDesks!NoCall
\* Figures that change take the preview with them.
<1>3. ASSUME NEW amount \in Amount, BillDesks!EditStock(amount) \/ BillDesks!CostsFilled(amount)
      PROVE  DeskInv'
  <2>0. [ui.figures EXCEPT !.stock = amount] \in BillDesks!Figures
          /\ [ui.figures EXCEPT !.costs = amount] \in BillDesks!Figures
    BY <1>00 DEF BillDesks!Figures
  <2>1. /\ ui' \in DeskScreen /\ ui'.period = ui.period
        /\ ui'.preview = {} /\ ui'.status = ui.status /\ ui'.bills = ui.bills
    BY <1>0, <1>3, <2>0 DEF BillDesks!EditStock, BillDesks!CostsFilled, DeskScreen
  <2>2. calls' = BillDesks!NoCall
    BY <1>3 DEF BillDesks!EditStock, BillDesks!Drafting, BillDesks!Busy, BillDesks!CostsFilled
  <2> QED BY <2>1, <2>2, DeskRequests
          DEF DeskInv, PreviewIsCurrent, CallIsCurrent, StatusIsCurrent, BillDesks!NoCall
<1>4. ASSUME NEW empty \in BOOLEAN, BillDesks!PreviewLands(empty)
      PROVE  DeskInv'
  <2> DEFINE p == [period |-> calls.period, figures |-> calls.figures, empty |-> empty]
  <2>0. p \in BillDesks!Preview /\ p.period = ui.period /\ p.figures = ui.figures
    BY <1>0, <1>00, <1>4 DEF BillDesks!PreviewLands
  <2>1. ui' = [ui EXCEPT !.preview = {p}] /\ calls' = BillDesks!NoCall
    BY <1>4 DEF BillDesks!PreviewLands
  <2> HIDE DEF p
  <2>2. /\ ui' \in DeskScreen /\ ui'.period = ui.period /\ ui'.figures = ui.figures
        /\ ui'.preview = {p} /\ ui'.status = ui.status /\ ui'.bills = ui.bills
    BY <1>0, <2>0, <2>1 DEF DeskScreen
  <2> QED BY <2>0, <2>1, <2>2, DeskRequests
          DEF DeskInv, PreviewIsCurrent, CallIsCurrent, StatusIsCurrent, BillDesks!NoCall
\* A request is sent for what is on the screen.
<1>5. ASSUME \/ BillDesks!FillFromLedger \/ BillDesks!PreviewBill \/ BillDesks!PublishBill
             \/ BillDesks!UnpublishBill \/ BillDesks!Download
      PROVE  DeskInv'
  <2>1. UNCHANGED ui
    BY <1>5 DEF BillDesks!FillFromLedger, BillDesks!PreviewBill, BillDesks!PublishBill,
       BillDesks!UnpublishBill, BillDesks!Download
  <2>2. \/ \E k \in {"fill", "reopen", "download"} : calls' = [kind |-> k, period |-> ui.period]
        \/ calls' = [kind |-> "preview", period |-> ui.period, figures |-> ui.figures]
        \/ /\ calls' = [kind |-> "publish", period |-> ui.period, figures |-> ui.figures]
           /\ ui.preview # {}
    BY <1>5 DEF BillDesks!FillFromLedger, BillDesks!PreviewBill, BillDesks!PublishBill,
       BillDesks!UnpublishBill, BillDesks!Download
  <2>3. calls' \in DeskCalls
    BY <1>00, <2>2, DeskRequests
  <2>4. CallIsCurrent'
    BY <2>1, <2>2 DEF CallIsCurrent
  <2> QED BY <2>1, <2>3, <2>4 DEF DeskInv, PreviewIsCurrent, StatusIsCurrent
<1>6. ASSUME BillDesks!BillPublished
      PROVE  DeskInv'
  <2>1. /\ ui' \in DeskScreen /\ ui'.period = ui.period /\ ui'.figures = ui.figures
        /\ ui'.preview = ui.preview /\ ui'.bills = ui.bills
        /\ ui'.status = {[period |-> calls.period, published |-> TRUE, legacy |-> FALSE]}
    BY <1>0, <1>00, <1>6 DEF BillDesks!BillPublished, DeskScreen
  <2>2. calls' = [kind |-> "bills", period |-> calls.period] /\ calls.period = ui.period
    BY <1>00, <1>6 DEF BillDesks!BillPublished
  <2>3. calls' \in DeskCalls
    BY <1>00, <2>2, DeskRequests
  <2> QED BY <2>1, <2>2, <2>3 DEF DeskInv, PreviewIsCurrent, CallIsCurrent, StatusIsCurrent
<1>7. ASSUME BillDesks!BillsLand
      PROVE  DeskInv'
  <2>1. /\ ui' \in DeskScreen /\ ui'.period = ui.period
        /\ ui'.preview = {} /\ ui'.bills = {ui.period} /\ ui'.status = ui.status
    BY <1>0, <1>00, <1>7 DEF BillDesks!BillsLand, DeskScreen
  <2>2. calls' = BillDesks!NoCall
    BY <1>7 DEF BillDesks!BillsLand
  <2> QED BY <2>1, <2>2, DeskRequests
          DEF DeskInv, PreviewIsCurrent, CallIsCurrent, StatusIsCurrent, BillDesks!NoCall
\* The correction form, and a request that fails.
<1>8. ASSUME BillDesks!ToggleReopen \/ BillDesks!TypeReason \/ BillDesks!RequestFails
      PROVE  DeskInv'
  <2>1. /\ ui' \in DeskScreen /\ ui'.period = ui.period /\ ui'.figures = ui.figures
        /\ ui'.preview = ui.preview /\ ui'.bills = ui.bills /\ ui'.status = ui.status
    BY <1>0, <1>8 DEF BillDesks!ToggleReopen, BillDesks!TypeReason, BillDesks!RequestFails,
       DeskScreen
  <2>2. calls' \in {calls, BillDesks!NoCall}
    BY <1>8 DEF BillDesks!ToggleReopen, BillDesks!TypeReason, BillDesks!RequestFails
  <2> QED BY <1>0, <2>1, <2>2, DeskRequests
          DEF DeskInv, PreviewIsCurrent, CallIsCurrent, StatusIsCurrent, BillDesks!NoCall
<1>9. ASSUME BillDesks!Reopened
      PROVE  DeskInv'
  <2> DEFINE status == {[s EXCEPT !.published = FALSE] : s \in ui.status}
  <2>0. /\ status \in DeskStatus
        /\ \A s \in status : s.period = ui.period
    <3>1. ui.status \in DeskStatus
      BY <1>0 DEF DeskScreen
    <3>2. \A s \in ui.status : s \in BillDesks!Status /\ s.period = ui.period
      BY <3>1 DEF DeskInv, StatusIsCurrent, DeskStatus
    <3>3. \A s \in BillDesks!Status :
             /\ [s EXCEPT !.published = FALSE] \in BillDesks!Status
             /\ [s EXCEPT !.published = FALSE].period = s.period
      BY DEF BillDesks!Status
    <3> QED BY <3>2, <3>3 DEF DeskStatus
  <2>1. /\ ui' = [ui EXCEPT !.status = status, !.preview = {}, !.bills = {}, !.reopening = FALSE, !.reasoned = FALSE]
        /\ calls' = BillDesks!NoCall
    BY <1>9 DEF BillDesks!Reopened
  <2> HIDE DEF status
  <2>2. /\ ui' \in DeskScreen /\ ui'.period = ui.period
        /\ ui'.preview = {} /\ ui'.bills = {} /\ ui'.status = status
    BY <1>0, <2>0, <2>1 DEF DeskScreen
  <2> QED BY <2>0, <2>1, <2>2, DeskRequests
          DEF DeskInv, PreviewIsCurrent, CallIsCurrent, StatusIsCurrent, BillDesks!NoCall
<1> QED
  BY <1>1, <1>2, <1>3, <1>4, <1>5, <1>6, <1>7, <1>8, <1>9 DEF BillDesks!Next

------------------------------------------------------------------------------
(* ---- the ledger ---- *)

LedgerPeriods == SUBSET Period
LedgerRows == SUBSET Row
LedgerScreen ==
    [period : Period, tab : Kind, summary : LedgerPeriods, entries : LedgerPeriods,
     loading : BOOLEAN, voiding : LedgerRows, reason : LedgerRows,
     category : Kind, adding : BOOLEAN, filled : BOOLEAN, exporting : BOOLEAN]
LedgerCalls == [CallId -> Ledgers!Call \cup {Ledgers!NoCall}]

\* The typing of the ledger, with names for its sets.
LEMMA LedgerTyped == Ledgers!TypeOK <=> ui \in LedgerScreen /\ calls \in LedgerCalls
  BY DEF Ledgers!TypeOK, LedgerScreen, LedgerCalls, LedgerPeriods, LedgerRows

\* One dialog is open at most, and the reason typed is of the one open.
ReasonOfTheDialog ==
    /\ ui.reason \subseteq ui.voiding
    /\ \A r, s \in ui.voiding : r = s

LedgerInv ==
    /\ ui \in LedgerScreen
    /\ calls \in LedgerCalls
    /\ ReasonOfTheDialog
    /\ Ledgers!ReasonBelongsToItsRow

\* The invariant holds when the ledger is opened.
LEMMA LedgerInit == ASSUME Ledgers!Init PROVE LedgerInv
<1>1. ui \in LedgerScreen /\ ui.reason = {} /\ ui.voiding = {}
  BY DEF Ledgers!Init, LedgerScreen, LedgerPeriods, LedgerRows
<1>2. calls \in LedgerCalls
  BY DEF Ledgers!Init, LedgerCalls, Ledgers!Call
<1>3. Ledgers!ReasonBelongsToItsRow
  BY DEF Ledgers!Init, Ledgers!ReasonBelongsToItsRow, Ledgers!NoCall
<1> QED BY <1>1, <1>2, <1>3 DEF LedgerInv, ReasonOfTheDialog

\* What a call knows, by its kind.
LEMMA LedgerCallKinds ==
    ASSUME NEW c \in Ledgers!Call \cup {Ledgers!NoCall}
    PROVE  /\ c.kind # "none" => c.period \in Period
           /\ c.kind = "load" => c.then \in {"nothing", "void"} \cup Kind
           /\ c.kind = "entry" => c.category \in Kind
  BY DEF Ledgers!Call, Ledgers!NoCall

\* The calls that void nothing, or void a row for the reason typed for it.
SafeLedgerCall ==
    {c \in Ledgers!Call \cup {Ledgers!NoCall} : c.kind = "void" => c.reason = {c.row}}

\* Every request the ledger sends is one.
LEMMA SafeLedgerCalls ==
    /\ Ledgers!NoCall \in SafeLedgerCall
    /\ \A p \in Period, then \in {"nothing", "void"} \cup Kind :
          [kind |-> "load", period |-> p, then |-> then] \in SafeLedgerCall
    /\ \A p \in Period, k, m \in Kind :
          [kind |-> "entry", period |-> p, of |-> k, category |-> m] \in SafeLedgerCall
    /\ \A p \in Period, r \in Row :
          [kind |-> "void", period |-> p, row |-> r, reason |-> {r}] \in SafeLedgerCall
    /\ \A p \in Period : [kind |-> "export", period |-> p] \in SafeLedgerCall
<1>1. Ledgers!NoCall \in SafeLedgerCall
  BY DEF SafeLedgerCall, Ledgers!NoCall
<1>2. \A p \in Period, then \in {"nothing", "void"} \cup Kind :
          [kind |-> "load", period |-> p, then |-> then] \in SafeLedgerCall
  BY DEF SafeLedgerCall, Ledgers!Call
<1>3. \A p \in Period, k, m \in Kind :
          [kind |-> "entry", period |-> p, of |-> k, category |-> m] \in SafeLedgerCall
  BY DEF SafeLedgerCall, Ledgers!Call
<1>4. \A p \in Period, r \in Row :
          [kind |-> "void", period |-> p, row |-> r, reason |-> {r}] \in SafeLedgerCall
  BY DEF SafeLedgerCall, Ledgers!Call
<1>5. \A p \in Period : [kind |-> "export", period |-> p] \in SafeLedgerCall
  BY DEF SafeLedgerCall, Ledgers!Call
<1> QED BY <1>1, <1>2, <1>3, <1>4, <1>5

\* The dialog is as it was, or it is left or opened with no reason.
DialogKept ==
    \/ ui'.reason = ui.reason /\ ui'.voiding = ui.voiding
    \/ ui'.reason = {} /\ (ui'.voiding = {} \/ \E row \in Row : ui'.voiding = {row})

\* A step that keeps the dialog so, and sends such a request or none, keeps the
\* invariant.
LEMMA LedgerSafeStep ==
    ASSUME LedgerInv, ui' \in LedgerScreen, DialogKept,
           \/ UNCHANGED calls
           \/ \E i \in CallId, c \in SafeLedgerCall : calls' = [calls EXCEPT ![i] = c]
    PROVE  LedgerInv'
<1>1. calls' \in LedgerCalls
  BY DEF LedgerInv, LedgerCalls, SafeLedgerCall
<1>2. Ledgers!ReasonBelongsToItsRow'
  BY DEF LedgerInv, Ledgers!ReasonBelongsToItsRow, LedgerCalls, SafeLedgerCall
<1>3. ReasonOfTheDialog'
  BY DEF LedgerInv, ReasonOfTheDialog, DialogKept
<1> QED BY <1>1, <1>2, <1>3 DEF LedgerInv

\* Every step of the ledger keeps the invariant.
LEMMA LedgerStep == ASSUME LedgerInv, Ledgers!Next PROVE LedgerInv'
<1>0. /\ ui \in LedgerScreen /\ calls \in LedgerCalls
      /\ {} \in LedgerPeriods /\ {} \in LedgerRows
      /\ \A p \in Period : {p} \in LedgerPeriods
      /\ \A r \in Row : {r} \in LedgerRows
      /\ \A i \in CallId : calls[i] \in Ledgers!Call \cup {Ledgers!NoCall}
  BY DEF LedgerPeriods, LedgerRows, LedgerCalls, LedgerInv
<1>1. ASSUME NEW i \in CallId,
             \/ \E p \in Period : Ledgers!ChooseMonth(i, p)
             \/ Ledgers!Refresh(i) \/ Ledgers!EntryLogged(i) \/ Ledgers!EntryVoided(i)
      PROVE  LedgerInv'
  <2>0. /\ calls[i].kind # "none" => calls[i].period \in Period
        /\ calls[i].kind = "entry" => calls[i].category \in Kind
        /\ ui.period \in Period
    BY <1>0, LedgerCallKinds DEF LedgerScreen
  <2>1. PICK screen \in LedgerScreen, p \in Period, then \in {"nothing", "void"} \cup Kind :
           /\ Ledgers!Load(i, screen, p, then)
           /\ screen.reason = ui.reason /\ screen.voiding = ui.voiding
    <3>1. CASE \E p \in Period : Ledgers!ChooseMonth(i, p)
      <4>1. PICK p \in Period : Ledgers!ChooseMonth(i, p)
        BY <3>1
      <4>2. /\ [ui EXCEPT !.period = p] \in LedgerScreen
            /\ [ui EXCEPT !.period = p].reason = ui.reason
            /\ [ui EXCEPT !.period = p].voiding = ui.voiding
        BY <1>0 DEF LedgerScreen
      <4> QED BY <4>1, <4>2 DEF Ledgers!ChooseMonth
    <3>2. CASE Ledgers!Refresh(i)
      BY <1>0, <2>0, <3>2 DEF Ledgers!Refresh
    <3>3. CASE Ledgers!EntryLogged(i)
      BY <1>0, <2>0, <3>3 DEF Ledgers!EntryLogged
    <3>4. CASE Ledgers!EntryVoided(i)
      BY <1>0, <2>0, <3>4 DEF Ledgers!EntryVoided
    <3> QED BY <1>1, <3>1, <3>2, <3>3, <3>4
  <2>2. ui' \in LedgerScreen /\ ui'.reason = ui.reason /\ ui'.voiding = ui.voiding
    BY <2>1 DEF Ledgers!Load, LedgerScreen
  <2>3. calls' = [calls EXCEPT ![i] = [kind |-> "load", period |-> p, then |-> then]]
    BY <2>1 DEF Ledgers!Load
  <2> QED BY <2>2, <2>3, LedgerSafeStep, SafeLedgerCalls DEF DialogKept
<1>2. ASSUME NEW i \in CallId, NEW ok \in BOOLEAN, Ledgers!LoadEnds(i, ok)
      PROVE  LedgerInv'
  <2> DEFINE held == IF ok THEN {calls[i].period} ELSE {}
             loaded == [ui EXCEPT !.loading = FALSE, !.summary = held, !.entries = held]
  <2>0. held \in LedgerPeriods /\ calls[i].then \in {"nothing", "void"} \cup Kind
    BY <1>0, <1>2, LedgerCallKinds DEF Ledgers!LoadEnds
  <2>1. \/ ui' = loaded
        \/ ui' = Ledgers!Dialog(loaded, {})
        \/ ui' = [loaded EXCEPT !.category = calls[i].then, !.filled = FALSE]
          /\ calls[i].then \in Kind
    BY <1>2, <2>0 DEF Ledgers!LoadEnds
  <2>2. calls' = [calls EXCEPT ![i] = Ledgers!NoCall]
    BY <1>2 DEF Ledgers!LoadEnds
  <2> HIDE DEF held
  <2>3. loaded \in LedgerScreen /\ loaded.reason = ui.reason /\ loaded.voiding = ui.voiding
    BY <1>0, <2>0 DEF LedgerScreen
  <2> HIDE DEF loaded
  <2>4. ui' \in LedgerScreen /\ DialogKept
    BY <1>0, <2>1, <2>3 DEF Ledgers!Dialog, LedgerScreen, DialogKept
  <2> QED BY <2>2, <2>4, LedgerSafeStep, SafeLedgerCalls
<1>3. ASSUME NEW i \in CallId,
             Ledgers!RunFails(i) \/ Ledgers!LogEntry(i) \/ Ledgers!Export(i) \/ Ledgers!ExportEnds(i)
      PROVE  LedgerInv'
  <2>1. ui' \in LedgerScreen /\ ui'.reason = ui.reason /\ ui'.voiding = ui.voiding
    BY <1>0, <1>3 DEF Ledgers!RunFails, Ledgers!LogEntry, Ledgers!Export, Ledgers!ExportEnds,
       LedgerScreen
  <2>2. ui.period \in Period /\ ui.tab \in Kind /\ ui.category \in Kind
    BY <1>0 DEF LedgerScreen
  <2>3. \E c \in {Ledgers!NoCall, [kind |-> "export", period |-> ui.period],
                  [kind |-> "entry", period |-> ui.period, of |-> ui.tab, category |-> ui.category]} :
           calls' = [calls EXCEPT ![i] = c]
    BY <1>3 DEF Ledgers!RunFails, Ledgers!LogEntry, Ledgers!Export, Ledgers!ExportEnds
  <2> QED BY <2>1, <2>2, <2>3, LedgerSafeStep, SafeLedgerCalls DEF DialogKept
<1>4. ASSUME NEW i \in CallId, Ledgers!VoidEntry(i)
      PROVE  LedgerInv'
  <2>1. PICK row \in ui.voiding :
           calls' = [calls EXCEPT ![i] = [kind |-> "void", period |-> ui.period, row |-> row,
                                          reason |-> ui.reason]]
    BY <1>4 DEF Ledgers!VoidEntry
  <2>2. row \in Row /\ ui.period \in Period /\ UNCHANGED ui
    BY <1>0, <1>4, <2>1 DEF LedgerScreen, LedgerRows, Ledgers!VoidEntry
  <2>3. ui.reason = {row}
    BY <1>4, <2>1 DEF LedgerInv, ReasonOfTheDialog, Ledgers!VoidEntry
  <2> QED BY <1>0, <2>1, <2>2, <2>3, LedgerSafeStep, SafeLedgerCalls DEF DialogKept
\* The reason is typed in the dialog that is open.
<1>5. ASSUME Ledgers!TypeReason
      PROVE  LedgerInv'
  <2>1. /\ ui' \in LedgerScreen /\ ui'.reason = ui.voiding
        /\ ui'.voiding = ui.voiding /\ UNCHANGED calls
    BY <1>0, <1>5 DEF Ledgers!TypeReason, LedgerScreen
  <2> QED BY <2>1 DEF LedgerInv, ReasonOfTheDialog, Ledgers!ReasonBelongsToItsRow
<1>6. ASSUME \/ \E k \in Kind : Ledgers!OpenTab(k)
             \/ \E commit \in BOOLEAN : Ledgers!EndCategory(commit)
             \/ Ledgers!AddCategory \/ Ledgers!FillForm \/ Ledgers!OpenExport \/ Ledgers!CancelExport
      PROVE  LedgerInv'
  <2>1. /\ ui' \in LedgerScreen /\ ui'.reason = ui.reason /\ ui'.voiding = ui.voiding
        /\ UNCHANGED calls
    BY <1>0, <1>6 DEF Ledgers!OpenTab, Ledgers!EndCategory, Ledgers!AddCategory, Ledgers!FillForm,
       Ledgers!OpenExport, Ledgers!CancelExport, LedgerScreen
  <2> QED BY <2>1, LedgerSafeStep DEF DialogKept
<1>7. ASSUME (\E row \in Row : Ledgers!OpenVoid(row)) \/ Ledgers!CancelVoid
      PROVE  LedgerInv'
  <2>1. ui' \in LedgerScreen /\ DialogKept /\ UNCHANGED calls
    BY <1>0, <1>7 DEF Ledgers!OpenVoid, Ledgers!CancelVoid, Ledgers!Dialog, LedgerScreen, DialogKept
  <2> QED BY <2>1, LedgerSafeStep
<1> QED
  BY <1>1, <1>2, <1>3, <1>4, <1>5, <1>6, <1>7 DEF Ledgers!Next

------------------------------------------------------------------------------
(* ---- the payments ---- *)

PaymentStatuses == UNION {[S -> PaymentLists!Filter \ {"ALL"}] : S \in SUBSET Row}
PaymentReviews == SUBSET PaymentLists!Review
PaymentScreen ==
    [rows : PaymentStatuses, filter : PaymentLists!Filter, loading : BOOLEAN,
     reviewing : PaymentReviews, note : PaymentReviews]
PaymentCalls == [CallId -> PaymentLists!Call \cup {PaymentLists!NoCall}]

\* The typing of the payments list, with names for its sets.
LEMMA PaymentsTyped == PaymentLists!TypeOK <=> ui \in PaymentScreen /\ calls \in PaymentCalls
  BY DEF PaymentLists!TypeOK, PaymentScreen, PaymentCalls, PaymentStatuses, PaymentReviews

\* One dialog is open at most, and the note typed is of the one open.
NoteOfTheDialog ==
    /\ ui.note \subseteq ui.reviewing
    /\ \A r, s \in ui.reviewing : r = s

PaymentsInv ==
    /\ ui \in PaymentScreen
    /\ calls \in PaymentCalls
    /\ NoteOfTheDialog
    /\ PaymentLists!ReasonBelongsToItsRow

\* The invariant holds when the payments are opened.
LEMMA PaymentsInit == ASSUME PaymentLists!Init PROVE PaymentsInv
<1>0. [row \in {} |-> "PENDING"] \in PaymentStatuses
  <2>1. [row \in {} |-> "PENDING"] \in [{} -> PaymentLists!Filter \ {"ALL"}]
    OBVIOUS
  <2> QED BY <2>1 DEF PaymentStatuses
<1>1. ui \in PaymentScreen /\ ui.note = {} /\ ui.reviewing = {}
  <2>1. {} \in PaymentReviews /\ "ALL" \in PaymentLists!Filter
    BY DEF PaymentReviews, PaymentLists!Filter
  <2> QED BY <1>0, <2>1 DEF PaymentLists!Init, PaymentScreen
<1>2. calls \in PaymentCalls
  BY DEF PaymentLists!Init, PaymentCalls, PaymentLists!Call
<1>3. PaymentLists!ReasonBelongsToItsRow
  BY DEF PaymentLists!Init, PaymentLists!ReasonBelongsToItsRow, PaymentLists!NoCall
<1> QED BY <1>1, <1>2, <1>3 DEF PaymentsInv, NoteOfTheDialog

\* The calls that review nothing, or review with what was typed for it.
SafePaymentCall ==
    {c \in PaymentLists!Call \cup {PaymentLists!NoCall} :
        c.kind = "review" =>
            /\ c.note \subseteq {c.review}
            /\ c.review.decision = "REJECTED" => c.note # {}}

\* Every request the list sends is one.
LEMMA SafePaymentCalls ==
    /\ PaymentLists!NoCall \in SafePaymentCall
    /\ \A after \in {"nothing", "review"} : [kind |-> "load", after |-> after] \in SafePaymentCall
    /\ \A r \in PaymentLists!Review, n \in PaymentReviews :
          n \subseteq {r} /\ (r.decision = "REJECTED" => n # {}) =>
            [kind |-> "review", review |-> r, note |-> n] \in SafePaymentCall
<1>1. PaymentLists!NoCall \in SafePaymentCall
  BY DEF SafePaymentCall, PaymentLists!NoCall
<1>2. \A after \in {"nothing", "review"} : [kind |-> "load", after |-> after] \in SafePaymentCall
  BY DEF SafePaymentCall, PaymentLists!Call
<1>3. ASSUME NEW r \in PaymentLists!Review, NEW n \in PaymentReviews,
             n \subseteq {r}, r.decision = "REJECTED" => n # {}
      PROVE  [kind |-> "review", review |-> r, note |-> n] \in SafePaymentCall
  BY <1>3 DEF SafePaymentCall, PaymentLists!Call, PaymentReviews
<1> QED BY <1>1, <1>2, <1>3

\* The dialog is as it was, or it is left or opened with no note.
ReviewKept ==
    \/ ui'.note = ui.note /\ ui'.reviewing = ui.reviewing
    \/ /\ ui'.note = {}
       /\ ui'.reviewing = {} \/ \E r \in PaymentLists!Review : ui'.reviewing = {r}

\* A step that keeps the review so, and sends such a request or none, keeps the
\* invariant.
LEMMA PaymentsSafeStep ==
    ASSUME PaymentsInv, ui' \in PaymentScreen, ReviewKept,
           \/ UNCHANGED calls
           \/ \E i \in CallId, c \in SafePaymentCall : calls' = [calls EXCEPT ![i] = c]
    PROVE  PaymentsInv'
<1>1. calls' \in PaymentCalls
  BY DEF PaymentsInv, PaymentCalls, SafePaymentCall
<1>2. PaymentLists!ReasonBelongsToItsRow'
  BY DEF PaymentsInv, PaymentLists!ReasonBelongsToItsRow, PaymentCalls, SafePaymentCall
<1>3. NoteOfTheDialog'
  BY DEF PaymentsInv, NoteOfTheDialog, ReviewKept
<1> QED BY <1>1, <1>2, <1>3 DEF PaymentsInv

\* Every step of the payments list keeps the invariant.
LEMMA PaymentsStep == ASSUME PaymentsInv, PaymentLists!Next PROVE PaymentsInv'
<1>0. /\ ui \in PaymentScreen /\ calls \in PaymentCalls
      /\ {} \in PaymentReviews
      /\ \A r \in PaymentLists!Review : {r} \in PaymentReviews
  BY DEF PaymentReviews, PaymentsInv
<1>1. ASSUME NEW i \in CallId, NEW held \in SUBSET Row,
             NEW rows \in [held -> PaymentLists!Filter \ {"ALL"}], PaymentLists!LoadLands(i, rows)
      PROVE  PaymentsInv'
  <2>1. rows \in PaymentStatuses
    BY DEF PaymentStatuses
  <2>2. ui' \in PaymentScreen /\ ReviewKept
    BY <1>0, <1>1, <2>1 DEF PaymentLists!LoadLands, PaymentScreen, ReviewKept
  <2>3. calls' = [calls EXCEPT ![i] = PaymentLists!NoCall]
    BY <1>1 DEF PaymentLists!LoadLands
  <2> QED BY <2>2, <2>3, PaymentsSafeStep, SafePaymentCalls
<1>2. ASSUME NEW i \in CallId, PaymentLists!Refresh(i) \/ PaymentLists!Reviewed(i)
      PROVE  PaymentsInv'
  <2>1. ui' \in PaymentScreen /\ ReviewKept
    BY <1>0, <1>2 DEF PaymentLists!Refresh, PaymentLists!Reviewed, PaymentLists!Load,
       PaymentLists!Dialog, PaymentScreen, ReviewKept
  <2>2. \E after \in {"nothing", "review"} :
           calls' = [calls EXCEPT ![i] = [kind |-> "load", after |-> after]]
    BY <1>2 DEF PaymentLists!Refresh, PaymentLists!Reviewed, PaymentLists!Load
  <2> QED BY <2>1, <2>2, PaymentsSafeStep, SafePaymentCalls
<1>3. ASSUME NEW i \in CallId, PaymentLists!Submit(i)
      PROVE  PaymentsInv'
  <2>1. PICK review \in ui.reviewing :
           /\ review.decision = "REJECTED" => ui.note # {}
           /\ calls' = [calls EXCEPT ![i] = [kind |-> "review", review |-> review, note |-> ui.note]]
    BY <1>3 DEF PaymentLists!Submit
  <2>2. review \in PaymentLists!Review /\ ui.note \in PaymentReviews /\ UNCHANGED ui
    BY <1>0, <1>3, <2>1 DEF PaymentScreen, PaymentReviews, PaymentLists!Submit
  <2>3. ui.note \subseteq {review}
    BY <2>1 DEF PaymentsInv, NoteOfTheDialog
  <2>4. [kind |-> "review", review |-> review, note |-> ui.note] \in SafePaymentCall
    BY <2>1, <2>2, <2>3, SafePaymentCalls
  <2> QED BY <1>0, <2>1, <2>2, <2>4, PaymentsSafeStep DEF ReviewKept
<1>4. ASSUME NEW i \in CallId, PaymentLists!ReviewFails(i)
      PROVE  PaymentsInv'
  BY <1>0, <1>4, PaymentsSafeStep, SafePaymentCalls DEF PaymentLists!ReviewFails, ReviewKept
\* The note is typed in the dialog that is open.
<1>5. ASSUME PaymentLists!TypeNote
      PROVE  PaymentsInv'
  <2>1. /\ ui' \in PaymentScreen /\ ui'.note = ui.reviewing
        /\ ui'.reviewing = ui.reviewing /\ UNCHANGED calls
    BY <1>0, <1>5 DEF PaymentLists!TypeNote, PaymentScreen
  <2> QED BY <2>1 DEF PaymentsInv, NoteOfTheDialog, PaymentLists!ReasonBelongsToItsRow
<1>6. ASSUME \/ \E filter \in PaymentLists!Filter : PaymentLists!PickFilter(filter)
             \/ \E review \in PaymentLists!Review : PaymentLists!OpenReview(review)
             \/ PaymentLists!CancelReview
      PROVE  PaymentsInv'
  <2>1. ui' \in PaymentScreen /\ ReviewKept /\ UNCHANGED calls
    <3>1. CASE \E filter \in PaymentLists!Filter : PaymentLists!PickFilter(filter)
      BY <1>0, <3>1 DEF PaymentLists!PickFilter, PaymentScreen, ReviewKept
    <3>2. CASE \E review \in PaymentLists!Review : PaymentLists!OpenReview(review)
      <4>1. PICK review \in PaymentLists!Review : PaymentLists!OpenReview(review)
        BY <3>2
      <4>2. ui' = [ui EXCEPT !.reviewing = {review}, !.note = {}] /\ UNCHANGED calls
        BY <4>1 DEF PaymentLists!OpenReview, PaymentLists!Dialog
      <4>3. ui' \in PaymentScreen /\ ui'.reviewing = {review} /\ ui'.note = {}
        BY <1>0, <4>2 DEF PaymentScreen
      <4> QED BY <4>2, <4>3 DEF ReviewKept
    <3>3. CASE PaymentLists!CancelReview
      BY <1>0, <3>3 DEF PaymentLists!CancelReview, PaymentLists!Dialog, PaymentScreen, ReviewKept
    <3> QED BY <1>6, <3>1, <3>2, <3>3
  <2> QED BY <2>1, PaymentsSafeStep
<1> QED
  BY <1>1, <1>2, <1>3, <1>4, <1>5, <1>6 DEF PaymentLists!Next
===============================================================================
