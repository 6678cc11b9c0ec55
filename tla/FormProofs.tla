----------------------------- MODULE FormProofs -------------------------------
(***************************************************************************)
(* The parts that write: what a screen says it has written is what the     *)
(* server holds. Their invariants follow one request from the moment it is *)
(* sent, to the server, to its answer, and say what the screen and the     *)
(* server each know of it on the way.                                      *)
(***************************************************************************)
EXTENDS Frontend, TLAPS

------------------------------------------------------------------------------
(* ---- the scanner ---- *)

ScannedSets == SUBSET Scanners!CheckIn
ChosenSets == SUBSET Scanned
ScannerScreen ==
    [logs : ScannedSets, feedback : {"none", "ok", "failed"}, camera : {"off", "starting", "live"},
     last : ScannedSets, chosen : ChosenSets, meal : Meal]
ScannerCalls == [CallId -> Scanners!Call \cup {Scanners!NoCall}]
ScannerServer == [recorded : ScannedSets]

\* The typing of the scanner, with names for its sets.
LEMMA ScannerTyped ==
    Scanners!TypeOK <=> ui \in ScannerScreen /\ calls \in ScannerCalls /\ srv \in ScannerServer
  BY DEF Scanners!TypeOK, ScannerScreen, ScannerCalls, ScannerServer, ScannedSets, ChosenSets

\* Rows on the way are recorded, and so is a check-in the server says it did.
AnswersAreRecorded ==
    \A i \in CallId :
        /\ calls[i].kind = "recentRows" => calls[i].rows \subseteq srv.recorded
        /\ calls[i].kind \in {"confirm", "manual"} /\ calls[i].done => calls[i].of \in srv.recorded

ScannerInv ==
    /\ ui \in ScannerScreen
    /\ calls \in ScannerCalls
    /\ srv \in ScannerServer
    /\ AnswersAreRecorded
    /\ Scanners!SuccessMeansRecorded

\* The invariant holds when the scanner is opened.
LEMMA ScannerInit == ASSUME Scanners!Init PROVE ScannerInv
<1>1. ui \in ScannerScreen /\ ui.logs = {}
  BY DEF Scanners!Init, ScannerScreen, ScannedSets, ChosenSets
<1>2. calls \in ScannerCalls
  BY DEF Scanners!Init, ScannerCalls, Scanners!Call
<1>3. srv \in ScannerServer
  BY DEF Scanners!Init, ScannerServer, ScannedSets
<1>4. AnswersAreRecorded
  BY DEF Scanners!Init, AnswersAreRecorded, Scanners!NoCall
<1> QED BY <1>1, <1>2, <1>3, <1>4 DEF ScannerInv, Scanners!SuccessMeansRecorded

\* What a call knows, by its kind.
LEMMA ScannerCallKinds ==
    ASSUME NEW c \in Scanners!Call \cup {Scanners!NoCall}
    PROVE  /\ c.kind \in {"verify", "confirm", "manual"} => c.of \in Scanners!CheckIn
           /\ c.kind = "recentRows" => c.rows \in ScannedSets
  BY DEF Scanners!Call, Scanners!NoCall, ScannedSets

\* The requests the scanner sends are of its types.
LEMMA ScannerRequests ==
    /\ Scanners!NoCall \in Scanners!Call \cup {Scanners!NoCall}
    /\ \A rows \in ScannedSets : [kind |-> "recentRows", rows |-> rows] \in Scanners!Call
    /\ \A p \in Scanners!CheckIn : [kind |-> "verify", of |-> p] \in Scanners!Call
    /\ \A p \in Scanners!CheckIn, k \in {"confirm", "manual"}, done \in BOOLEAN :
          [kind |-> k, of |-> p, done |-> done] \in Scanners!Call
  BY DEF Scanners!Call, ScannedSets

\* Every step of the scanner keeps the invariant.
LEMMA ScannerStep == ASSUME ScannerInv, Scanners!Next PROVE ScannerInv'
<1>0. /\ ui \in ScannerScreen /\ calls \in ScannerCalls /\ srv \in ScannerServer
      /\ AnswersAreRecorded /\ ui.logs \subseteq srv.recorded
      /\ {} \in ScannedSets /\ {} \in ChosenSets
      /\ \A p \in Scanners!CheckIn : {p} \in ScannedSets
      /\ \A s \in Scanned : {s} \in ChosenSets
      /\ \A A, B \in ScannedSets : A \cup B \in ScannedSets
      /\ srv.recorded \in ScannedSets /\ ui.logs \in ScannedSets
      /\ \A i \in CallId : calls[i] \in Scanners!Call \cup {Scanners!NoCall}
  BY DEF ScannedSets, ChosenSets, ScannerCalls, ScannerInv, ScannerServer, ScannerScreen,
     Scanners!SuccessMeansRecorded
\* The screen alone changes, its log aside.
<1>1. ASSUME UNCHANGED <<calls, srv>>, ui' \in ScannerScreen, ui'.logs = ui.logs
      PROVE  ScannerInv'
  BY <1>1 DEF ScannerInv, AnswersAreRecorded, Scanners!SuccessMeansRecorded
<1>2. ASSUME \/ Scanners!CameraStarts \/ Scanners!ToggleCamera
             \/ Scanners!FourSeconds \/ Scanners!FeedbackFades
             \/ \E chosen \in {{}} \cup {{s} : s \in Scanned} : Scanners!Choose(chosen)
             \/ \E m \in Meal : Scanners!PickMeal(m)
      PROVE  ScannerInv'
  <2>1. UNCHANGED <<calls, srv>>
    BY <1>2 DEF Scanners!CameraStarts, Scanners!ToggleCamera, Scanners!FourSeconds,
       Scanners!FeedbackFades, Scanners!Choose, Scanners!PickMeal
  <2>2. ui' \in ScannerScreen /\ ui'.logs = ui.logs
    <3>1. CASE \/ Scanners!CameraStarts \/ Scanners!ToggleCamera
               \/ Scanners!FourSeconds \/ Scanners!FeedbackFades
      BY <1>0, <3>1 DEF Scanners!CameraStarts, Scanners!ToggleCamera, Scanners!FourSeconds,
         Scanners!FeedbackFades, ScannerScreen
    <3>2. CASE \E chosen \in ChosenSets : Scanners!Choose(chosen)
      BY <1>0, <3>2 DEF Scanners!Choose, ScannerScreen
    <3>3. CASE \E m \in Meal : Scanners!PickMeal(m)
      BY <1>0, <3>3 DEF Scanners!PickMeal, ScannerScreen
    <3> QED BY <1>0, <1>2, <3>1, <3>2, <3>3
  <2> QED BY <1>1, <2>1, <2>2
\* A call is replaced by one that claims nothing unrecorded, and what is
\* logged is recorded.
<1>3. ASSUME NEW i \in CallId, NEW c \in Scanners!Call \cup {Scanners!NoCall},
             calls' = [calls EXCEPT ![i] = c], UNCHANGED srv, ui' \in ScannerScreen,
             c.kind = "recentRows" => c.rows \subseteq srv.recorded,
             c.kind \in {"confirm", "manual"} => ~c.done,
             ui'.logs \subseteq srv.recorded
      PROVE  ScannerInv'
  <2>1. calls' \in ScannerCalls
    BY <1>0, <1>3 DEF ScannerCalls
  <2>2. AnswersAreRecorded'
    BY <1>0, <1>3 DEF AnswersAreRecorded, ScannerCalls
  <2> QED BY <1>0, <1>3, <2>1, <2>2 DEF ScannerInv, Scanners!SuccessMeansRecorded
<1>4. ASSUME NEW i \in CallId,
             \/ Scanners!RecentAnswered(i)
             \/ \E pass \in Scanners!CheckIn : Scanners!HandleToken(i, pass)
             \/ Scanners!Verified(i) \/ Scanners!MarkManually(i)
      PROVE  ScannerInv'
  <2>1. ui' \in ScannerScreen /\ ui'.logs = ui.logs /\ UNCHANGED srv
    BY <1>0, <1>4 DEF Scanners!RecentAnswered, Scanners!HandleToken, Scanners!Verified,
       Scanners!MarkManually, ScannerScreen
  <2>2. CASE Scanners!RecentAnswered(i)
    <3> DEFINE c == [kind |-> "recentRows", rows |-> srv.recorded]
    <3>1. c \in Scanners!Call /\ c.rows = srv.recorded /\ c.kind = "recentRows"
      BY <1>0, ScannerRequests
    <3>2. calls' = [calls EXCEPT ![i] = c]
      BY <2>2 DEF Scanners!RecentAnswered
    <3> HIDE DEF c
    <3> QED BY <1>0, <1>3, <2>1, <3>1, <3>2
  <2>3. CASE \E pass \in Scanners!CheckIn : Scanners!HandleToken(i, pass)
    <3>0. PICK pass \in Scanners!CheckIn : Scanners!HandleToken(i, pass)
      BY <2>3
    <3> DEFINE c == [kind |-> "verify", of |-> pass]
    <3>1. c \in Scanners!Call /\ c.kind = "verify"
      BY ScannerRequests
    <3>2. calls' = [calls EXCEPT ![i] = c]
      BY <3>0 DEF Scanners!HandleToken
    <3> HIDE DEF c
    <3> QED BY <1>0, <1>3, <2>1, <3>1, <3>2
  <2>4. CASE Scanners!Verified(i) \/ Scanners!MarkManually(i)
    <3>0. PICK k \in {"confirm", "manual"}, p \in Scanners!CheckIn :
             calls' = [calls EXCEPT ![i] = [kind |-> k, of |-> p, done |-> FALSE]]
      <4>1. CASE Scanners!Verified(i)
        <5>1. calls[i].of \in Scanners!CheckIn
          BY <1>0, <4>1, ScannerCallKinds DEF Scanners!Verified
        <5> QED BY <4>1, <5>1 DEF Scanners!Verified
      <4>2. CASE Scanners!MarkManually(i)
        <5>1. \A s \in ui.chosen : <<s, ui.meal>> \in Scanners!CheckIn
          BY <1>0 DEF ScannerScreen, ChosenSets, Scanners!CheckIn
        <5> QED BY <4>2, <5>1 DEF Scanners!MarkManually
      <4> QED BY <2>4, <4>1, <4>2
    <3> DEFINE c == [kind |-> k, of |-> p, done |-> FALSE]
    <3>1. c \in Scanners!Call /\ c.kind \in {"confirm", "manual"} /\ ~c.done
      BY ScannerRequests
    <3>2. calls' = [calls EXCEPT ![i] = c]
      BY <3>0
    <3> HIDE DEF c
    <3> QED BY <1>0, <1>3, <2>1, <3>1, <3>2
  <2> QED BY <1>4, <2>2, <2>3, <2>4
<1>5. ASSUME NEW i \in CallId,
             \/ Scanners!RecentLands(i) \/ Scanners!RecentFails(i) \/ Scanners!Confirmed(i)
             \/ Scanners!ScanFails(i) \/ Scanners!Marked(i) \/ Scanners!MarkFails(i)
      PROVE  ScannerInv'
  <2>0. /\ calls[i].kind = "recentRows" =>
             calls[i].rows \in ScannedSets /\ calls[i].rows \subseteq srv.recorded
        /\ calls[i].kind \in {"confirm", "manual"} =>
             /\ ui.logs \cup {calls[i].of} \in ScannedSets
             /\ calls[i].done => ui.logs \cup {calls[i].of} \subseteq srv.recorded
    BY <1>0, ScannerCallKinds DEF AnswersAreRecorded
  <2>1. ui' \in ScannerScreen /\ ui'.logs \subseteq srv.recorded
    <3>1. CASE Scanners!RecentLands(i)
      BY <1>0, <2>0, <3>1 DEF Scanners!RecentLands, ScannerScreen
    <3>2. CASE Scanners!Confirmed(i)
      BY <1>0, <2>0, <3>2 DEF Scanners!Confirmed, ScannerScreen
    <3>3. CASE Scanners!Marked(i)
      BY <1>0, <2>0, <3>3 DEF Scanners!Marked, ScannerScreen
    <3>4. CASE Scanners!RecentFails(i) \/ Scanners!ScanFails(i) \/ Scanners!MarkFails(i)
      BY <1>0, <3>4 DEF Scanners!RecentFails, Scanners!ScanFails, Scanners!MarkFails, ScannerScreen
    <3> QED BY <1>5, <3>1, <3>2, <3>3, <3>4
  <2>2. calls' = [calls EXCEPT ![i] = Scanners!NoCall] /\ UNCHANGED srv
    BY <1>5 DEF Scanners!RecentLands, Scanners!RecentFails, Scanners!Confirmed,
       Scanners!ScanFails, Scanners!Marked, Scanners!MarkFails
  <2>3. Scanners!NoCall.kind = "none"
    BY DEF Scanners!NoCall
  <2> QED BY <1>3, <2>1, <2>2, <2>3, ScannerRequests
<1>6. ASSUME NEW i \in CallId, Scanners!Record(i)
      PROVE  ScannerInv'
  <2>0. calls[i].of \in Scanners!CheckIn /\ calls[i].kind \in {"confirm", "manual"}
    BY <1>0, <1>6, ScannerCallKinds DEF Scanners!Record
  <2>1. UNCHANGED ui /\ srv' \in ScannerServer /\ srv'.recorded = srv.recorded \cup {calls[i].of}
    BY <1>0, <1>6, <2>0 DEF Scanners!Record, ScannerServer
  <2>2. /\ [calls[i] EXCEPT !.done = TRUE] \in Scanners!Call
        /\ [calls[i] EXCEPT !.done = TRUE].kind = calls[i].kind
        /\ [calls[i] EXCEPT !.done = TRUE].of = calls[i].of
    <3>1. calls[i] \in [kind : {"confirm", "manual"}, of : Scanners!CheckIn, done : BOOLEAN]
      BY <1>0, <2>0 DEF Scanners!Call, Scanners!NoCall
    <3>2. /\ [calls[i] EXCEPT !.done = TRUE] \in [kind : {"confirm", "manual"}, of : Scanners!CheckIn, done : BOOLEAN]
          /\ [calls[i] EXCEPT !.done = TRUE].kind = calls[i].kind
          /\ [calls[i] EXCEPT !.done = TRUE].of = calls[i].of
      BY <3>1
    <3> QED BY <3>2 DEF Scanners!Call
  <2>3. calls' = [calls EXCEPT ![i] = [calls[i] EXCEPT !.done = TRUE]]
    BY <1>6 DEF Scanners!Record
  <2>4. calls' \in ScannerCalls
    BY <1>0, <2>2, <2>3 DEF ScannerCalls
  <2>5. AnswersAreRecorded'
    BY <1>0, <2>0, <2>1, <2>2, <2>3 DEF AnswersAreRecorded, ScannerCalls
  <2> QED BY <1>0, <2>1, <2>4, <2>5 DEF ScannerInv, Scanners!SuccessMeansRecorded
<1> QED
  BY <1>2, <1>4, <1>5, <1>6 DEF Scanners!Next

------------------------------------------------------------------------------
(* ---- the student's pass ---- *)

PassMeals == SUBSET Passes!MealType
PassScreen ==
    [meal : Passes!MealType, picked : PassMeals, pending : BOOLEAN, refreshing : BOOLEAN,
     shown : {"nothing", "code", "recorded", "error"}, of : PassMeals, view : {"pass", "scanner"}]
PassCalls == [CallId -> Passes!Call \cup {Passes!NoCall}]
PassServer ==
    [now : Clock, windows : {Passes!FallbackWindows, Passes!LaterWindows}, canScan : BOOLEAN]

\* The typing of the pass, with names for its sets.
LEMMA PassTyped ==
    Passes!TypeOK <=> ui \in PassScreen /\ calls \in PassCalls /\ srv \in PassServer
  BY DEF Passes!TypeOK, PassScreen, PassCalls, PassServer, PassMeals

\* The guess is always a meal: the day's meals are ordered, so the first of
\* any that are serving or due exists.
LEMMA CurrentMealIsAMeal ==
    ASSUME NEW windows, NEW now
    PROVE  Passes!CurrentMeal(windows, now) \in Passes!MealType
<1>1. ASSUME NEW meals \in SUBSET Passes!MealType, meals # {}
      PROVE  Passes!First(meals) \in Passes!MealType
  <2>1. \E m \in meals : \A n \in meals : Passes!MealOrder[m] <= Passes!MealOrder[n]
    <3>1. /\ Passes!MealOrder["breakfast"] = 1
          /\ Passes!MealOrder["lunch"] = 2
          /\ Passes!MealOrder["dinner"] = 3
      BY DEF Passes!MealOrder
    <3>2. \A n \in meals : n \in {"breakfast", "lunch", "dinner"}
      BY DEF Passes!MealType
    <3>3. CASE "breakfast" \in meals
      BY <3>1, <3>2, <3>3
    <3>4. CASE "breakfast" \notin meals /\ "lunch" \in meals
      BY <3>1, <3>2, <3>4
    <3>5. CASE "breakfast" \notin meals /\ "lunch" \notin meals
      <4>1. \A n \in meals : n = "dinner"
        BY <3>2, <3>5
      <4> QED BY <1>1, <3>1, <4>1
    <3> QED BY <3>3, <3>4, <3>5
  <2> QED BY <2>1 DEF Passes!First
<1>2. "dinner" \in Passes!MealType
  BY DEF Passes!MealType
<1> QED BY <1>1, <1>2 DEF Passes!CurrentMeal

PassInv ==
    /\ ui \in PassScreen
    /\ calls \in PassCalls
    /\ srv \in PassServer
    /\ Passes!ChosenMealStays

\* The invariant holds when the pass is opened.
LEMMA PassInit == ASSUME Passes!Init PROVE PassInv
<1>0. {} \in PassMeals
  BY DEF PassMeals
<1>1. ui \in PassScreen /\ ui.picked = {}
  BY <1>0, CurrentMealIsAMeal DEF Passes!Init, PassScreen
<1>2. calls \in PassCalls
  BY DEF Passes!Init, PassCalls, Passes!Call
<1>3. srv \in PassServer
  BY DEF Passes!Init, PassServer
<1> QED BY <1>1, <1>2, <1>3 DEF PassInv, Passes!ChosenMealStays

\* A screen that shows another meal is typed as before.
LEMMA ShowMealTyped ==
    ASSUME NEW screen \in PassScreen, NEW meal \in Passes!MealType
    PROVE  /\ Passes!ShowMeal(screen, meal) \in PassScreen
           /\ Passes!ShowMeal(screen, meal).meal = meal
           /\ Passes!ShowMeal(screen, meal).picked = screen.picked
  BY DEF Passes!ShowMeal, PassScreen

\* Every step of the pass keeps the invariant.
LEMMA PassStep == ASSUME PassInv, Passes!Next PROVE PassInv'
<1>0. /\ ui \in PassScreen /\ calls \in PassCalls /\ srv \in PassServer
      /\ {} \in PassMeals
      /\ \A m \in Passes!MealType : {m} \in PassMeals
      /\ \A m \in Passes!MealType : [kind |-> "pass", meal |-> m] \in Passes!Call
      /\ \A i \in CallId : calls[i] \in Passes!Call \cup {Passes!NoCall}
      /\ ui.picked # {} => ui.meal \in ui.picked
  BY DEF PassMeals, PassCalls, PassInv, Passes!Call, Passes!ChosenMealStays
<1>1. ASSUME NEW i \in CallId, Passes!WindowsLand(i) \/ Passes!WindowsFail(i)
      PROVE  PassInv'
  <2>1. calls' \in PassCalls /\ srv' \in PassServer
    BY <1>0, <1>1 DEF Passes!WindowsLand, Passes!WindowsFail, PassCalls
  <2>2. \/ ui' = ui
        \/ ui' = Passes!ShowMeal(ui, Passes!CurrentMeal(srv.windows, srv.now)) /\ ui.picked = {}
    BY <1>1 DEF Passes!WindowsLand, Passes!WindowsFail
  <2>3. ui' \in PassScreen /\ (ui'.picked # {} => ui'.meal \in ui'.picked)
    BY <1>0, <2>2, ShowMealTyped, CurrentMealIsAMeal
  <2> QED BY <2>1, <2>3 DEF PassInv, Passes!ChosenMealStays
<1>2. ASSUME NEW meal \in Passes!MealType, Passes!PickMeal(meal)
      PROVE  PassInv'
  <2> DEFINE screen == Passes!ShowMeal(ui, meal)
  <2>1. screen \in PassScreen /\ screen.meal = meal
    BY <1>0, ShowMealTyped
  <2>2. ui' = [screen EXCEPT !.picked = {meal}] /\ UNCHANGED <<calls, srv>>
    BY <1>2 DEF Passes!PickMeal
  <2> HIDE DEF screen
  <2>3. ui' \in PassScreen /\ ui'.meal = meal /\ ui'.picked = {meal}
    BY <1>0, <2>1, <2>2 DEF PassScreen
  <2> QED BY <1>0, <2>2, <2>3 DEF PassInv, Passes!ChosenMealStays
<1>3. ASSUME NEW i \in CallId, Passes!MealEffect(i) \/ Passes!RunsOut(i) \/ Passes!AskAgain(i)
      PROVE  PassInv'
  <2>1. PICK screen \in PassScreen :
           Passes!FetchQrToken(i, screen) /\ screen.meal = ui.meal /\ screen.picked = ui.picked
    <3>1. /\ [ui EXCEPT !.pending = FALSE] \in PassScreen
          /\ [ui EXCEPT !.pending = FALSE].meal = ui.meal
          /\ [ui EXCEPT !.pending = FALSE].picked = ui.picked
      BY <1>0 DEF PassScreen
    <3> QED BY <1>0, <1>3, <3>1 DEF Passes!MealEffect, Passes!RunsOut, Passes!AskAgain
  <2>2. ui' \in PassScreen /\ ui'.meal = ui.meal /\ ui'.picked = ui.picked
    BY <1>0, <2>1 DEF Passes!FetchQrToken, PassScreen
  <2>3. screen.meal \in Passes!MealType
    BY DEF PassScreen
  <2>4. calls' \in PassCalls /\ UNCHANGED srv
    BY <1>0, <2>1, <2>3 DEF Passes!FetchQrToken, PassCalls
  <2> QED BY <1>0, <2>2, <2>4 DEF PassInv, Passes!ChosenMealStays
<1>4. ASSUME NEW i \in CallId, NEW shown \in {"code", "recorded", "error"}, Passes!PassLands(i, shown)
      PROVE  PassInv'
  <2>1. calls[i].meal \in Passes!MealType
    BY <1>0, <1>4 DEF Passes!PassLands, Passes!Call, Passes!NoCall
  <2>2. ui' \in PassScreen /\ ui'.meal = ui.meal /\ ui'.picked = ui.picked
    BY <1>0, <1>4, <2>1 DEF Passes!PassLands, PassScreen
  <2>3. calls' \in PassCalls /\ UNCHANGED srv
    BY <1>0, <1>4 DEF Passes!PassLands, PassCalls
  <2> QED BY <1>0, <2>2, <2>3 DEF PassInv, Passes!ChosenMealStays
<1>5. ASSUME Passes!TimePasses \/ Passes!SwitchView
      PROVE  PassInv'
  <2>1. ui' \in PassScreen /\ ui'.meal = ui.meal /\ ui'.picked = ui.picked /\ UNCHANGED calls
    BY <1>0, <1>5 DEF Passes!TimePasses, Passes!SwitchView, PassScreen
  <2>2. srv' \in PassServer
    BY <1>0, <1>5 DEF Passes!TimePasses, Passes!SwitchView, PassServer
  <2> QED BY <1>0, <2>1, <2>2 DEF PassInv, Passes!ChosenMealStays
<1> QED
  BY <1>1, <1>2, <1>3, <1>4, <1>5 DEF Passes!Next

------------------------------------------------------------------------------
(* ---- the settings ---- *)

SettingsDrafts == [Key -> Value \cup {SettingsForms!Invalid}]
SettingsValues == [Key -> Value]
SettingsKeys == SUBSET Key
SettingsFrom == [Key -> {"here", "elsewhere", "unknown"}]
SettingsScreen ==
    [screen : {"loading", "error", "form"}, stored : SettingsDrafts, draft : SettingsDrafts,
     saved : BOOLEAN, saveError : BOOLEAN, typed : SettingsKeys]
SettingsCalls == [CallId -> SettingsForms!Call \cup {SettingsForms!NoCall}]
SettingsServer == [values : SettingsValues, others : SettingsValues, from : SettingsFrom]

\* The typing of the settings form, with names for its sets.
LEMMA SettingsTyped ==
    SettingsForms!TypeOK <=> ui \in SettingsScreen /\ calls \in SettingsCalls
      /\ srv \in SettingsServer
  BY DEF SettingsForms!TypeOK, SettingsForms!Draft, SettingsScreen, SettingsCalls, SettingsServer,
     SettingsDrafts, SettingsValues, SettingsKeys, SettingsFrom

\* A load is in flight only while the screen says so, and then only one.
OneLoad ==
    \A i \in CallId : calls[i].kind \in {"load", "rows"} =>
        /\ ui.screen = "loading"
        /\ \A j \in CallId : calls[j].kind \in {"load", "rows"} => i = j

\* Until the form is open nothing has been saved from it.
BeforeTheForm ==
    ui.screen # "form" =>
        /\ \A i \in CallId : calls[i].kind # "save"
        /\ \A k \in Key : srv.from[k] # "here"
        /\ ~ui.saved

\* The one save in flight sends what moved, all of it typed here and valid;
\* and while the screen still says that an earlier one is saved, the draft has
\* not been typed into since this one was sent.
OneSave ==
    \A i \in CallId : calls[i].kind = "save" =>
        /\ \A j \in CallId : calls[j].kind = "save" => i = j
        /\ calls[i].keys = SettingsForms!Changed(ui.stored, calls[i].draft)
        /\ calls[i].keys \subseteq ui.typed
        /\ \A k \in Key : calls[i].draft[k] \in Value
        /\ ui.saved => ui.draft = calls[i].draft

\* A save given up on was typed here, all of it valid.
LateIsTyped ==
    \A i \in CallId : calls[i].kind = "late" =>
        calls[i].keys \subseteq ui.typed /\ \A k \in Key : calls[i].draft[k] \in Value

\* What nobody typed into is as it was read, and as the others left it.
UntypedIsUntouched ==
    \A k \in Key \ ui.typed : ui.stored[k] = ui.draft[k] /\ srv.values[k] = srv.others[k]

\* A save whose answer is on the way covers the setting.
Covers(i, k) == calls[i].kind = "save" /\ calls[i].done /\ k \in calls[i].keys

\* A value on the server that is from here is the one in the save being
\* answered, or the one the screen holds as stored.
SavedHere ==
    \A k \in Key : srv.from[k] = "here" =>
        /\ \A i \in CallId : Covers(i, k) => srv.values[k] = calls[i].draft[k]
        /\ (\A i \in CallId : ~Covers(i, k)) => srv.values[k] = ui.stored[k]

SettingsInv ==
    /\ ui \in SettingsScreen
    /\ calls \in SettingsCalls
    /\ srv \in SettingsServer
    /\ OneLoad
    /\ BeforeTheForm
    /\ OneSave
    /\ LateIsTyped
    /\ UntypedIsUntouched
    /\ SavedHere

\* The property follows from the invariant.
LEMMA SettingsProperty == ASSUME SettingsInv PROVE SettingsForms!SavedMeansStored
<1>1. ASSUME ui.saved, SettingsForms!Changed(ui.stored, ui.draft) = {}, NEW k \in Key, srv.from[k] = "here"
      PROVE  srv.values[k] = ui.draft[k]
  <2>1. ui.stored[k] = ui.draft[k]
    BY <1>1 DEF SettingsForms!Changed
  <2>2. \A i \in CallId : ~Covers(i, k)
    BY <1>1 DEF SettingsInv, OneSave, Covers
  <2> QED BY <1>1, <2>1, <2>2 DEF SettingsInv, SavedHere
<1>2. \A k \in Key \ ui.typed : srv.values[k] = srv.others[k]
  BY DEF SettingsInv, UntypedIsUntouched
<1> QED BY <1>1, <1>2 DEF SettingsForms!SavedMeansStored

\* The invariant holds when the settings are opened.
LEMMA SettingsInit == ASSUME SettingsForms!Init PROVE SettingsInv
<1>0. PICK values \in SettingsValues, i \in CallId :
        /\ srv = [values |-> values, others |-> values, from |-> [k \in Key |-> "elsewhere"]]
        /\ ui = [screen |-> "loading", stored |-> values, draft |-> values,
                 saved |-> FALSE, saveError |-> FALSE, typed |-> {}]
        /\ calls = [c \in CallId |-> IF c = i THEN [kind |-> "load"] ELSE SettingsForms!NoCall]
  BY DEF SettingsForms!Init, SettingsValues
<1>1. values \in SettingsDrafts /\ {} \in SettingsKeys
        /\ [k \in Key |-> "elsewhere"] \in SettingsFrom
  BY DEF SettingsValues, SettingsDrafts, SettingsKeys, SettingsFrom
<1>2. ui \in SettingsScreen /\ srv \in SettingsServer
  BY <1>0, <1>1 DEF SettingsScreen, SettingsServer
<1>3. calls \in SettingsCalls
  BY <1>0 DEF SettingsCalls, SettingsForms!Call
<1>4. /\ OneLoad /\ BeforeTheForm /\ OneSave /\ LateIsTyped /\ UntypedIsUntouched
      /\ SavedHere
  BY <1>0 DEF OneLoad, BeforeTheForm, OneSave, LateIsTyped, UntypedIsUntouched, SavedHere,
     SettingsForms!NoCall
<1> QED BY <1>2, <1>3, <1>4 DEF SettingsInv

\* What a call knows, by its kind.
LEMMA SettingsCallKinds ==
    ASSUME NEW c \in SettingsForms!Call \cup {SettingsForms!NoCall}
    PROVE  /\ c.kind = "rows" => c.rows \in SettingsValues
           /\ c.kind = "save" => c.draft \in SettingsDrafts /\ c.keys \in SettingsKeys
             /\ c.done \in BOOLEAN
           /\ c.kind = "late" => c.draft \in SettingsDrafts /\ c.keys \in SettingsKeys
  BY DEF SettingsForms!Call, SettingsForms!NoCall, SettingsForms!Draft, SettingsValues,
     SettingsDrafts, SettingsKeys

\* The requests of the form are of its types.
LEMMA SettingsRequests ==
    /\ [kind |-> "load"] \in SettingsForms!Call
    /\ \A rows \in SettingsValues : [kind |-> "rows", rows |-> rows] \in SettingsForms!Call
    /\ \A d \in SettingsDrafts, ks \in SettingsKeys, done \in BOOLEAN :
          [kind |-> "save", draft |-> d, keys |-> ks, done |-> done] \in SettingsForms!Call
    /\ \A d \in SettingsDrafts, ks \in SettingsKeys :
          [kind |-> "late", draft |-> d, keys |-> ks] \in SettingsForms!Call
  BY DEF SettingsForms!Call, SettingsForms!Draft, SettingsValues, SettingsDrafts, SettingsKeys

\* The form loads.
LEMMA SettingsLoads ==
    ASSUME SettingsInv, NEW i \in CallId,
           \/ SettingsForms!LoadAnswered(i) \/ SettingsForms!LoadLands(i)
           \/ SettingsForms!LoadFails(i) \/ SettingsForms!TryAgain(i)
    PROVE  SettingsInv'
<1>0. /\ ui \in SettingsScreen /\ calls \in SettingsCalls /\ srv \in SettingsServer
      /\ calls[i] \in SettingsForms!Call \cup {SettingsForms!NoCall}
      /\ SettingsValues \subseteq SettingsDrafts
      /\ srv.values \in SettingsValues
  BY DEF SettingsInv, SettingsCalls, SettingsServer, SettingsValues, SettingsDrafts
<1>1. /\ ui.screen # "form"
      /\ \A j \in CallId : calls[j].kind # "save"
      /\ \A k \in Key : srv.from[k] # "here"
      /\ ~ui.saved
      /\ UNCHANGED srv
  BY DEF SettingsInv, OneLoad, BeforeTheForm, SettingsForms!LoadAnswered, SettingsForms!LoadLands,
     SettingsForms!LoadFails, SettingsForms!TryAgain
<1>2. /\ ui' \in SettingsScreen
      /\ ui'.typed = ui.typed /\ ~ui'.saved
      /\ \/ ui'.stored = ui.stored /\ ui'.draft = ui.draft
         \/ ui'.stored = ui'.draft
  <2>1. CASE SettingsForms!LoadLands(i)
    <3>1. calls[i].rows \in SettingsDrafts
      BY <1>0, <2>1, SettingsCallKinds DEF SettingsForms!LoadLands
    <3> QED BY <1>0, <1>1, <2>1, <3>1 DEF SettingsForms!LoadLands, SettingsScreen
  <2>2. CASE \/ SettingsForms!LoadAnswered(i) \/ SettingsForms!LoadFails(i) \/ SettingsForms!TryAgain(i)
    BY <1>0, <1>1, <2>2 DEF SettingsForms!LoadAnswered, SettingsForms!LoadFails,
       SettingsForms!TryAgain, SettingsScreen
  <2> QED BY <2>1, <2>2
<1>3. PICK c \in {SettingsForms!NoCall, [kind |-> "load"], [kind |-> "rows", rows |-> srv.values]} :
        calls' = [calls EXCEPT ![i] = c]
  BY DEF SettingsForms!LoadAnswered, SettingsForms!LoadLands,
     SettingsForms!LoadFails, SettingsForms!TryAgain
<1>4. calls' \in SettingsCalls
  BY <1>0, <1>3, SettingsRequests DEF SettingsCalls
<1>5. /\ \A j \in CallId : calls'[j].kind # "save"
      /\ \A j \in CallId : calls'[j].kind = "late" => calls'[j] = calls[j]
  BY <1>0, <1>1, <1>3 DEF SettingsCalls, SettingsForms!NoCall
<1>6. OneLoad'
  <2>1. CASE SettingsForms!LoadAnswered(i)
    <3>1. ui' = ui /\ ui.screen = "loading" /\ calls[i].kind = "load"
      BY <2>1 DEF SettingsForms!LoadAnswered, SettingsInv, OneLoad
    <3>2. \A j \in CallId \ {i} : calls'[j] = calls[j]
      BY <1>0, <1>3 DEF SettingsCalls
    <3> QED BY <3>1, <3>2 DEF SettingsInv, OneLoad
  <2>2. CASE SettingsForms!LoadLands(i) \/ SettingsForms!LoadFails(i)
    <3>1. calls[i].kind \in {"load", "rows"} /\ calls' = [calls EXCEPT ![i] = SettingsForms!NoCall]
      BY <2>2 DEF SettingsForms!LoadLands, SettingsForms!LoadFails
    <3>2. \A j \in CallId : calls'[j].kind \notin {"load", "rows"}
      BY <1>0, <3>1 DEF SettingsInv, OneLoad, SettingsCalls, SettingsForms!NoCall
    <3> QED BY <3>2 DEF OneLoad
  <2>3. CASE SettingsForms!TryAgain(i)
    <3>1. ui'.screen = "loading"
      BY <1>0, <2>3 DEF SettingsForms!TryAgain, SettingsScreen
    <3>2. \A j \in CallId \ {i} : calls'[j].kind \notin {"load", "rows"}
      BY <1>0, <2>3 DEF SettingsForms!TryAgain, SettingsInv, OneLoad, SettingsCalls
    <3> QED BY <3>1, <3>2 DEF OneLoad
  <2> QED BY <2>1, <2>2, <2>3
<1>7. BeforeTheForm' /\ OneSave' /\ SavedHere'
  BY <1>1, <1>2, <1>5 DEF BeforeTheForm, OneSave, SavedHere
<1>8. UntypedIsUntouched' /\ LateIsTyped'
  BY <1>1, <1>2, <1>5 DEF SettingsInv, UntypedIsUntouched, LateIsTyped
<1> QED BY <1>0, <1>1, <1>2, <1>4, <1>6, <1>7, <1>8 DEF SettingsInv

\* The draft is typed into, or put back to what is stored.
LEMMA SettingsEdits ==
    ASSUME SettingsInv,
           \/ \E key \in Key, value \in Value \cup {SettingsForms!Invalid} : SettingsForms!SetKey(key, value)
           \/ SettingsForms!Discard
    PROVE  SettingsInv'
<1>0. /\ ui \in SettingsScreen /\ calls \in SettingsCalls /\ srv \in SettingsServer
      /\ ui.stored \in SettingsDrafts /\ ui.draft \in SettingsDrafts /\ ui.typed \in SettingsKeys
      /\ ui.screen = "form"
      /\ UNCHANGED <<calls, srv>>
  BY DEF SettingsInv, SettingsScreen, SettingsForms!SetKey, SettingsForms!Discard
<1>1. /\ ui' \in SettingsScreen
      /\ ui'.screen = "form" /\ ui'.stored = ui.stored /\ ~ui'.saved /\ ui.typed \subseteq ui'.typed
      /\ \A k \in Key \ ui'.typed : ui'.draft[k] \in {ui.draft[k], ui.stored[k]}
  <2>1. CASE \E key \in Key, value \in Value \cup {SettingsForms!Invalid} : SettingsForms!SetKey(key, value)
    <3>1. PICK key \in Key, value \in Value \cup {SettingsForms!Invalid} : SettingsForms!SetKey(key, value)
      BY <2>1
    <3> DEFINE d == [ui.draft EXCEPT ![key] = value]
               t == ui.typed \cup {key}
    <3>2. d \in SettingsDrafts /\ t \in SettingsKeys /\ \A k \in Key \ t : d[k] = ui.draft[k]
      BY <1>0 DEF SettingsDrafts, SettingsKeys
    <3>3. ui' = [ui EXCEPT !.draft = d, !.saved = FALSE, !.saveError = FALSE, !.typed = t]
      BY <1>0, <3>1 DEF SettingsForms!SetKey, SettingsScreen
    <3>4. ui.typed \subseteq t
      OBVIOUS
    <3> HIDE DEF d, t
    <3> QED BY <1>0, <3>2, <3>3, <3>4 DEF SettingsScreen
  <2>2. CASE SettingsForms!Discard
    BY <1>0, <2>2 DEF SettingsForms!Discard, SettingsScreen
  <2> QED BY <2>1, <2>2
<1>2. OneLoad' /\ BeforeTheForm' /\ SavedHere'
  BY <1>0, <1>1 DEF SettingsInv, OneLoad, BeforeTheForm, SavedHere, Covers
<1>3. OneSave' /\ LateIsTyped'
  BY <1>0, <1>1 DEF SettingsInv, OneSave, LateIsTyped
<1>4. UntypedIsUntouched'
  BY <1>0, <1>1 DEF SettingsInv, UntypedIsUntouched
<1> QED BY <1>0, <1>1, <1>2, <1>3, <1>4 DEF SettingsInv

\* A save sends what moved, and no other save is in flight.
LEMMA SettingsSave ==
    ASSUME SettingsInv, NEW i \in CallId, SettingsForms!Save(i)
    PROVE  SettingsInv'
<1>0. /\ ui \in SettingsScreen /\ calls \in SettingsCalls /\ srv \in SettingsServer
      /\ ui.stored \in SettingsDrafts /\ ui.draft \in SettingsDrafts
      /\ ui.screen = "form" /\ UNCHANGED srv
      /\ \A j \in CallId : calls[j].kind # "save"
      /\ \A k \in Key : ui.draft[k] \in Value
  BY DEF SettingsInv, SettingsScreen, SettingsForms!Save, SettingsForms!CanSave,
     SettingsForms!Saving,
     SettingsDrafts
<1> DEFINE c == [kind |-> "save", draft |-> ui.draft,
                 keys |-> SettingsForms!Changed(ui.stored, ui.draft), done |-> FALSE]
<1>1. /\ c.kind = "save" /\ c.draft = ui.draft /\ ~c.done
      /\ c.keys = SettingsForms!Changed(ui.stored, ui.draft)
      /\ c \in SettingsForms!Call
  <2>1. SettingsForms!Changed(ui.stored, ui.draft) \in SettingsKeys
    BY DEF SettingsForms!Changed, SettingsKeys
  <2> QED BY <1>0, <2>1, SettingsRequests
<1>2. calls' = [calls EXCEPT ![i] = c]
  BY DEF SettingsForms!Save
<1> HIDE DEF c
<1>3. calls' \in SettingsCalls /\ calls'[i] = c /\ \A j \in CallId \ {i} : calls'[j] = calls[j]
  BY <1>0, <1>1, <1>2 DEF SettingsCalls
<1>4. /\ ui' \in SettingsScreen
      /\ ui'.screen = "form" /\ ui'.stored = ui.stored /\ ui'.draft = ui.draft
      /\ ui'.typed = ui.typed
  BY <1>0 DEF SettingsForms!Save, SettingsScreen
<1>5. OneLoad' /\ BeforeTheForm'
  BY <1>0, <1>1, <1>3, <1>4 DEF SettingsInv, OneLoad, BeforeTheForm
<1>6. SettingsForms!Changed(ui.stored, ui.draft) \subseteq ui.typed
  BY DEF SettingsInv, UntypedIsUntouched, SettingsForms!Changed
<1>7. OneSave' /\ LateIsTyped'
  BY <1>0, <1>1, <1>3, <1>4, <1>6 DEF SettingsInv, OneSave, LateIsTyped
<1>8. UntypedIsUntouched' /\ SavedHere'
  <2>1. \A j \in CallId, k \in Key : ~Covers(j, k) /\ ~Covers(j, k)'
    BY <1>0, <1>1, <1>3 DEF Covers
  <2> QED BY <1>0, <1>4, <2>1 DEF SettingsInv, UntypedIsUntouched, SavedHere
<1> QED BY <1>0, <1>3, <1>4, <1>5, <1>7, <1>8 DEF SettingsInv

\* The server takes what the save sent, and the answer is on its way.
LEMMA SettingsTaken ==
    ASSUME SettingsInv, NEW i \in CallId, SettingsForms!SaveTaken(i)
    PROVE  SettingsInv'
<1> DEFINE c == calls[i]
           v == [k \in Key |-> IF k \in c.keys THEN c.draft[k] ELSE srv.values[k]]
           f == [k \in Key |-> IF k \in c.keys THEN "here" ELSE srv.from[k]]
           d == [c EXCEPT !.done = TRUE]
<1>0. /\ ui \in SettingsScreen /\ calls \in SettingsCalls /\ srv \in SettingsServer
      /\ c \in SettingsForms!Call \cup {SettingsForms!NoCall}
      /\ srv.values \in SettingsValues /\ srv.from \in SettingsFrom
      /\ ui.screen = "form" /\ UNCHANGED ui
      /\ c.kind = "save" /\ ~c.done
      /\ \A j \in CallId : calls[j].kind = "save" => i = j
  BY DEF SettingsInv, SettingsForms!SaveTaken, SettingsCalls, SettingsServer, BeforeTheForm, OneSave
<1>1. /\ c.keys = SettingsForms!Changed(ui.stored, c.draft)
      /\ c.keys \subseteq ui.typed
      /\ \A k \in Key : c.draft[k] \in Value
      /\ ui.saved => ui.draft = c.draft
  BY <1>0 DEF SettingsInv, OneSave
<1>2. v \in SettingsValues /\ f \in SettingsFrom
  BY <1>0, <1>1 DEF SettingsValues, SettingsFrom
<1>3. srv' = [srv EXCEPT !.values = v, !.from = f]
  BY <1>0 DEF SettingsForms!SaveTaken, SettingsForms!Written, SettingsServer
<1>4. d \in SettingsForms!Call /\ d.kind = "save" /\ d.done /\ d.keys = c.keys /\ d.draft = c.draft
  <2>1. c \in [kind : {"save"}, draft : SettingsDrafts, keys : SettingsKeys, done : BOOLEAN]
    BY <1>0 DEF SettingsForms!Call, SettingsForms!NoCall, SettingsDrafts, SettingsKeys,
       SettingsForms!Draft
  <2> HIDE DEF c
  <2>2. /\ d \in [kind : {"save"}, draft : SettingsDrafts, keys : SettingsKeys, done : BOOLEAN]
        /\ d.kind = "save" /\ d.done /\ d.keys = c.keys /\ d.draft = c.draft
    BY <2>1
  <2>3. [kind : {"save"}, draft : SettingsDrafts, keys : SettingsKeys, done : BOOLEAN]
           \subseteq SettingsForms!Call
    BY DEF SettingsForms!Call, SettingsDrafts, SettingsKeys, SettingsForms!Draft
  <2> QED BY <2>2, <2>3
<1>5. calls' = [calls EXCEPT ![i] = d]
  BY DEF SettingsForms!SaveTaken
<1>6. /\ \A k \in Key : v[k] = IF k \in c.keys THEN c.draft[k] ELSE srv.values[k]
      /\ \A k \in Key : f[k] = IF k \in c.keys THEN "here" ELSE srv.from[k]
  OBVIOUS
<1> HIDE DEF v, f, d, c
<1>7. srv' \in SettingsServer /\ srv'.values = v /\ srv'.from = f /\ srv'.others = srv.others
  BY <1>0, <1>2, <1>3 DEF SettingsServer
<1>8. calls' \in SettingsCalls /\ calls'[i] = d /\ \A j \in CallId \ {i} : calls'[j] = calls[j]
  BY <1>0, <1>4, <1>5 DEF SettingsCalls
<1>9. OneLoad' /\ BeforeTheForm'
  BY <1>0, <1>4, <1>8 DEF SettingsInv, OneLoad, BeforeTheForm
<1>10. OneSave' /\ LateIsTyped'
  <2>1. \A j \in CallId : calls'[j].kind = "save" => i = j
    BY <1>0, <1>8
  <2> QED BY <1>0, <1>1, <1>4, <1>8, <2>1 DEF SettingsInv, OneSave, LateIsTyped
<1>11. UntypedIsUntouched'
  BY <1>0, <1>1, <1>6, <1>7 DEF SettingsInv, UntypedIsUntouched
<1>12. SavedHere'
  <2>1. \A j \in CallId, k \in Key : ~Covers(j, k)
    BY <1>0 DEF Covers, c
  <2>2. \A j \in CallId, k \in Key : Covers(j, k)' <=> j = i /\ k \in c.keys
    BY <1>0, <1>4, <1>8, <2>1 DEF Covers
  <2> QED BY <1>0, <1>4, <1>6, <1>7, <1>8, <2>1, <2>2 DEF SettingsInv, SavedHere
<1> QED BY <1>0, <1>7, <1>8, <1>9, <1>10, <1>11, <1>12 DEF SettingsInv

\* A save is answered, or fails.
LEMMA SettingsSaved ==
    ASSUME SettingsInv, NEW i \in CallId, SettingsForms!SaveLands(i) \/ SettingsForms!SaveFails(i)
    PROVE  SettingsInv'
<1> DEFINE c == calls[i]
<1>0. /\ ui \in SettingsScreen /\ calls \in SettingsCalls /\ srv \in SettingsServer
      /\ c \in SettingsForms!Call \cup {SettingsForms!NoCall}
      /\ srv.from \in SettingsFrom
      /\ ui.screen = "form" /\ c.kind = "save"
      /\ \A j \in CallId : calls[j].kind = "save" => i = j
  BY DEF SettingsInv, SettingsForms!SaveLands, SettingsForms!SaveFails, SettingsCalls,
     SettingsServer, BeforeTheForm, OneSave
<1>1. /\ c.keys = SettingsForms!Changed(ui.stored, c.draft)
      /\ c.keys \subseteq ui.typed
      /\ c.draft \in SettingsDrafts /\ c.keys \in SettingsKeys
      /\ \A k \in Key : c.draft[k] \in Value
  BY <1>0, SettingsCallKinds DEF SettingsInv, OneSave
<1>2. \A k \in Key \ c.keys : c.draft[k] = ui.stored[k]
  BY <1>1 DEF SettingsForms!Changed
<1> DEFINE late == [kind |-> "late", draft |-> c.draft, keys |-> c.keys]
<1>a. PICK e \in {SettingsForms!NoCall, late} : calls' = [calls EXCEPT ![i] = e]
  BY DEF SettingsForms!SaveLands, SettingsForms!SaveFails
<1>b. /\ e \in SettingsForms!Call \cup {SettingsForms!NoCall}
      /\ e.kind \notin {"save", "load", "rows"}
      /\ e.kind = "late" => e.draft = c.draft /\ e.keys = c.keys
  BY <1>1, SettingsRequests DEF SettingsForms!NoCall
<1> HIDE DEF late
<1>c. calls'[i] = e /\ \A j \in CallId \ {i} : calls'[j] = calls[j]
  BY <1>0, <1>a DEF SettingsCalls
<1>3. /\ calls' \in SettingsCalls
      /\ \A j \in CallId : calls'[j].kind # "save"
      /\ \A j \in CallId : calls'[j].kind \in {"load", "rows"} => calls'[j] = calls[j]
  BY <1>0, <1>a, <1>b, <1>c DEF SettingsCalls
<1>d. ui'.typed = ui.typed => LateIsTyped'
  BY <1>1, <1>b, <1>c DEF SettingsInv, LateIsTyped
<1>4. \A j \in CallId, k \in Key :
         /\ ~Covers(j, k)'
         /\ Covers(j, k) <=> j = i /\ c.done /\ k \in c.keys
  BY <1>0, <1>3 DEF Covers
<1>5. CASE SettingsForms!SaveLands(i)
  <2>1. /\ ui' \in SettingsScreen /\ ui'.screen = "form" /\ ui'.typed = ui.typed
        /\ ui'.draft = ui.draft /\ ui'.stored = c.draft /\ UNCHANGED srv /\ c.done
    BY <1>0, <1>1, <1>5 DEF SettingsForms!SaveLands, SettingsScreen
  <2> HIDE DEF c
  <2>2. OneLoad'
    BY <1>0, <1>3, <2>1 DEF SettingsInv, OneLoad
  <2>3. BeforeTheForm' /\ OneSave'
    BY <1>3, <2>1 DEF BeforeTheForm, OneSave
  <2>4. UntypedIsUntouched'
    BY <1>1, <1>2, <2>1 DEF SettingsInv, UntypedIsUntouched
  <2>5. SavedHere'
    <3>1. ASSUME NEW k \in Key, srv.from[k] = "here"
          PROVE  srv.values[k] = c.draft[k]
      BY <1>2, <1>4, <2>1, <3>1 DEF SettingsInv, SavedHere, c
    <3> QED BY <1>4, <2>1, <3>1 DEF SavedHere
  <2> QED BY <1>0, <1>3, <1>d, <2>1, <2>2, <2>3, <2>4, <2>5 DEF SettingsInv
<1>6. CASE SettingsForms!SaveFails(i)
  <2> DEFINE f == [k \in Key |-> IF c.done /\ k \in c.keys THEN "unknown" ELSE srv.from[k]]
  <2>1. f \in SettingsFrom /\ \A k \in Key : f[k] = IF c.done
          /\ k \in c.keys THEN "unknown" ELSE srv.from[k]
    BY <1>0 DEF SettingsFrom
  <2>2. srv' = [srv EXCEPT !.from = f]
    BY <1>0, <1>6 DEF SettingsForms!SaveFails, SettingsServer
  <2> HIDE DEF f, c
  <2>3. srv' \in SettingsServer /\ srv'.values = srv.values /\ srv'.others = srv.others
          /\ srv'.from = f
    BY <1>0, <2>1, <2>2 DEF SettingsServer
  <2>4. /\ ui' \in SettingsScreen /\ ui'.screen = "form" /\ ui'.typed = ui.typed
        /\ ui'.draft = ui.draft /\ ui'.stored = ui.stored
    BY <1>0, <1>6 DEF SettingsForms!SaveFails, SettingsScreen
  <2>5. OneLoad'
    BY <1>0, <1>3, <2>4 DEF SettingsInv, OneLoad
  <2>6. BeforeTheForm' /\ OneSave'
    BY <1>3, <2>4 DEF BeforeTheForm, OneSave
  <2>7. UntypedIsUntouched'
    BY <2>3, <2>4 DEF SettingsInv, UntypedIsUntouched
  <2>8. SavedHere'
    BY <1>4, <2>1, <2>3, <2>4 DEF SettingsInv, SavedHere
  <2> QED BY <1>0, <1>3, <1>d, <2>3, <2>4, <2>5, <2>6, <2>7, <2>8 DEF SettingsInv
<1> QED BY <1>5, <1>6

\* A save given up on overwrites what it was sent with, which is from here no
\* more.
LEMMA SettingsLate ==
    ASSUME SettingsInv, NEW i \in CallId, SettingsForms!LateSaveTaken(i)
    PROVE  SettingsInv'
<1> DEFINE c == calls[i]
           v == [k \in Key |-> IF k \in c.keys THEN c.draft[k] ELSE srv.values[k]]
           f == [k \in Key |-> IF k \in c.keys THEN "unknown" ELSE srv.from[k]]
<1>0. /\ ui \in SettingsScreen /\ calls \in SettingsCalls /\ srv \in SettingsServer
      /\ srv.values \in SettingsValues /\ srv.from \in SettingsFrom
      /\ UNCHANGED ui
      /\ c.keys \subseteq ui.typed /\ \A k \in Key : c.draft[k] \in Value
      /\ c.kind = "late" /\ calls' = [calls EXCEPT ![i] = SettingsForms!NoCall]
  BY DEF SettingsInv, SettingsForms!LateSaveTaken, SettingsServer, LateIsTyped
<1>1. v \in SettingsValues /\ f \in SettingsFrom
  BY <1>0 DEF SettingsValues, SettingsFrom
<1>2. srv' = [srv EXCEPT !.values = v, !.from = f]
  BY <1>0 DEF SettingsForms!LateSaveTaken, SettingsForms!Written, SettingsServer
<1>3. /\ \A k \in Key : v[k] = IF k \in c.keys THEN c.draft[k] ELSE srv.values[k]
      /\ \A k \in Key : f[k] = IF k \in c.keys THEN "unknown" ELSE srv.from[k]
  OBVIOUS
<1> HIDE DEF v, f
<1>4. srv' \in SettingsServer /\ srv'.values = v /\ srv'.from = f /\ srv'.others = srv.others
  BY <1>0, <1>1, <1>2 DEF SettingsServer
<1>5. /\ calls' \in SettingsCalls
      /\ \A j \in CallId : calls'[j] = calls[j] \/ calls'[j].kind = "none"
      /\ \A j \in CallId : calls[j].kind # "late" => calls'[j] = calls[j]
  BY <1>0 DEF SettingsCalls, SettingsForms!NoCall
<1> HIDE DEF c
<1>6. OneLoad' /\ OneSave' /\ LateIsTyped'
  BY <1>0, <1>5 DEF SettingsInv, OneLoad, OneSave, LateIsTyped
<1>7. BeforeTheForm' /\ UntypedIsUntouched'
  BY <1>0, <1>3, <1>4, <1>5 DEF SettingsInv, BeforeTheForm, UntypedIsUntouched
<1>8. SavedHere'
  <2>1. \A j \in CallId, k \in Key : Covers(j, k)' <=> Covers(j, k)
    BY <1>0, <1>5 DEF Covers
  <2>2. \A j \in CallId, k \in Key : Covers(j, k) => calls'[j] = calls[j]
    BY <1>5 DEF Covers
  <2> QED BY <1>0, <1>3, <1>4, <2>1, <2>2 DEF SettingsInv, SavedHere
<1> QED BY <1>0, <1>4, <1>5, <1>6, <1>7, <1>8 DEF SettingsInv

\* A value another administrator stores is not from here.
LEMMA SettingsElsewhere ==
    ASSUME SettingsInv, NEW key \in Key, NEW value \in Value, SettingsForms!ChangedElsewhere(key, value)
    PROVE  SettingsInv'
<1> DEFINE v == [srv.values EXCEPT ![key] = value]
           o == [srv.others EXCEPT ![key] = value]
           f == [srv.from EXCEPT ![key] = "elsewhere"]
<1>0. srv \in SettingsServer /\ srv.values \in SettingsValues /\ srv.others \in SettingsValues
      /\ srv.from \in SettingsFrom /\ UNCHANGED <<ui, calls>>
  BY DEF SettingsInv, SettingsServer, SettingsForms!ChangedElsewhere
<1>1. /\ v \in SettingsValues /\ o \in SettingsValues /\ f \in SettingsFrom
      /\ v[key] = o[key] /\ f[key] # "here"
      /\ \A k \in Key \ {key} : v[k] = srv.values[k] /\ o[k] = srv.others[k] /\ f[k] = srv.from[k]
  BY <1>0 DEF SettingsValues, SettingsFrom
<1>2. srv' = [srv EXCEPT !.values = v, !.others = o, !.from = f]
  BY <1>0 DEF SettingsForms!ChangedElsewhere, SettingsServer
<1> HIDE DEF v, o, f
<1>3. srv' \in SettingsServer /\ srv'.values = v /\ srv'.others = o /\ srv'.from = f
  BY <1>0, <1>1, <1>2 DEF SettingsServer
<1>4. OneLoad' /\ OneSave' /\ LateIsTyped'
  BY <1>0 DEF SettingsInv, OneLoad, OneSave, LateIsTyped
<1>5. BeforeTheForm' /\ UntypedIsUntouched'
  BY <1>0, <1>1, <1>3 DEF SettingsInv, BeforeTheForm, UntypedIsUntouched
<1>6. SavedHere'
  BY <1>0, <1>1, <1>3 DEF SettingsInv, SavedHere, Covers
<1> QED BY <1>0, <1>3, <1>4, <1>5, <1>6 DEF SettingsInv

\* Every step of the settings form keeps the invariant.
LEMMA SettingsStep == ASSUME SettingsInv, SettingsForms!Next PROVE SettingsInv'
  BY SettingsLoads, SettingsEdits, SettingsSave, SettingsTaken, SettingsSaved, SettingsLate,
     SettingsElsewhere
     DEF SettingsForms!Next

------------------------------------------------------------------------------
(* ---- the weekly menu ---- *)

MenuWeeks == SUBSET Week
MenuDates == SUBSET MenuDesks!Date
MenuMeals == SUBSET Meal
MenuPublications == SUBSET MenuDesks!Publication
MenuScreen ==
    [week : Week, day : Day, loading : BOOLEAN, rows : MenuWeeks,
     editing : MenuDates, draft : MenuMeals]
MenuCalls == [CallId -> MenuDesks!Call \cup {MenuDesks!NoCall}]
MenuServer == [last : MenuPublications, today : MenuDesks!Date]

\* The typing of the menu editor, with names for its sets.
LEMMA MenuTyped ==
    MenuDesks!TypeOK <=> ui \in MenuScreen /\ calls \in MenuCalls /\ srv \in MenuServer
  BY DEF MenuDesks!TypeOK, MenuScreen, MenuCalls, MenuServer, MenuWeeks, MenuDates, MenuMeals,
     MenuPublications

\* An open editor is the one of the day shown: whatever shows another day
\* closes it.
EditorIsOfDayShown == \A date \in ui.editing : date = MenuDesks!Shown

\* A save in flight goes to the day its editor was opened on.
SavesOnTheirDay == \A i \in CallId : calls[i].kind = "save" => calls[i].date = calls[i].typedFor

MenuInv ==
    /\ ui \in MenuScreen
    /\ calls \in MenuCalls
    /\ srv \in MenuServer
    /\ EditorIsOfDayShown
    /\ SavesOnTheirDay
    /\ MenuDesks!DraftOnItsDay

\* The invariant holds when the menu editor is opened.
LEMMA MenuInit == ASSUME MenuDesks!Init PROVE MenuInv
<1>0. PICK today \in MenuDesks!Date, i \in CallId :
        /\ srv = [last |-> {}, today |-> today]
        /\ ui = [week |-> today[1], day |-> today[2], loading |-> TRUE, rows |-> {},
                 editing |-> {}, draft |-> {}]
        /\ calls = [c \in CallId |->
                      IF c = i THEN [kind |-> "load", week |-> today[1], after |-> "nothing"]
                      ELSE MenuDesks!NoCall]
  BY DEF MenuDesks!Init
<1>1. today[1] \in Week /\ today[2] \in Day
  BY DEF MenuDesks!Date
<1>2. ui \in MenuScreen /\ ui.editing = {}
  BY <1>0, <1>1 DEF MenuScreen, MenuWeeks, MenuDates, MenuMeals
<1>3. [kind |-> "load", week |-> today[1], after |-> "nothing"] \in MenuDesks!Call
  BY <1>1 DEF MenuDesks!Call
<1>4. calls \in MenuCalls
  BY <1>0, <1>3 DEF MenuCalls
<1>5. srv \in MenuServer /\ srv.last = {}
  BY <1>0 DEF MenuServer, MenuPublications
<1>6. SavesOnTheirDay
  BY <1>0 DEF SavesOnTheirDay, MenuDesks!NoCall
<1> QED
  BY <1>2, <1>4, <1>5, <1>6 DEF MenuInv, EditorIsOfDayShown, MenuDesks!DraftOnItsDay

\* What a call knows, by its kind.
LEMMA MenuCallKinds ==
    ASSUME NEW c \in MenuDesks!Call \cup {MenuDesks!NoCall}
    PROVE  /\ c.kind \in {"load", "closure"} => c.week \in Week
           /\ c.kind = "save" => c.date \in MenuDesks!Date /\ c.typedFor \in MenuDesks!Date
                                 /\ c.left \in MenuMeals
  BY DEF MenuDesks!Call, MenuDesks!NoCall, MenuMeals

\* The calls that are no save, or a save to the day it was typed for.
SafeMenuCall ==
    {c \in MenuDesks!Call \cup {MenuDesks!NoCall} : c.kind = "save" => c.date = c.typedFor}

\* Every request the editor sends is one.
LEMMA SafeMenuCalls ==
    /\ MenuDesks!NoCall \in SafeMenuCall
    /\ \A w \in Week, after \in {"nothing", "save", "closure"} :
          [kind |-> "load", week |-> w, after |-> after] \in SafeMenuCall
    /\ \A w \in Week : [kind |-> "closure", week |-> w] \in SafeMenuCall
    /\ \A d \in MenuDesks!Date, left \in MenuMeals :
          [kind |-> "save", date |-> d, typedFor |-> d, left |-> left] \in SafeMenuCall
<1>1. MenuDesks!NoCall \in SafeMenuCall
  BY DEF SafeMenuCall, MenuDesks!NoCall
<1>2. \A w \in Week, after \in {"nothing", "save", "closure"} :
          [kind |-> "load", week |-> w, after |-> after] \in SafeMenuCall
  BY DEF SafeMenuCall, MenuDesks!Call
<1>3. \A w \in Week : [kind |-> "closure", week |-> w] \in SafeMenuCall
  BY DEF SafeMenuCall, MenuDesks!Call
<1>4. \A d \in MenuDesks!Date, left \in MenuMeals :
          [kind |-> "save", date |-> d, typedFor |-> d, left |-> left] \in SafeMenuCall
  BY DEF SafeMenuCall, MenuDesks!Call, MenuMeals
<1> QED BY <1>1, <1>2, <1>3, <1>4

\* A step that puts in a safe call, keeps what was published last, and leaves
\* the editor closed or on the day it was opened on.
LEMMA MenuSafeStep ==
    ASSUME MenuInv, NEW i \in CallId, NEW c \in SafeMenuCall,
           calls' = [calls EXCEPT ![i] = c],
           ui' \in MenuScreen, UNCHANGED srv, EditorIsOfDayShown'
    PROVE  MenuInv'
<1>1. calls' \in MenuCalls
  BY DEF MenuInv, MenuCalls, SafeMenuCall
<1>2. SavesOnTheirDay'
  BY DEF MenuInv, SavesOnTheirDay, MenuCalls, SafeMenuCall
<1> QED BY <1>1, <1>2 DEF MenuInv, MenuDesks!DraftOnItsDay

\* Every step of the menu editor keeps the invariant.
LEMMA MenuStep == ASSUME MenuInv, MenuDesks!Next PROVE MenuInv'
<1>0. /\ ui \in MenuScreen /\ calls \in MenuCalls /\ srv \in MenuServer
      /\ EditorIsOfDayShown
      /\ {} \in MenuWeeks /\ {} \in MenuDates /\ {} \in MenuMeals
      /\ \A w \in Week : {w} \in MenuWeeks
      /\ \A d \in MenuDesks!Date : {d} \in MenuDates
      /\ \A S \in MenuMeals, m \in Meal : S \ {m} \in MenuMeals /\ S \cup {m} \in MenuMeals
      /\ \A i \in CallId : calls[i] \in MenuDesks!Call \cup {MenuDesks!NoCall}
      /\ MenuDesks!Shown \in MenuDesks!Date
      /\ ui.week \in Week
  BY DEF MenuWeeks, MenuDates, MenuMeals, MenuCalls, MenuInv, MenuScreen, MenuDesks!Shown,
     MenuDesks!Date
<1>1. ASSUME NEW i \in CallId, NEW week \in Week, MenuDesks!ChangeWeek(i, week)
      PROVE  MenuInv'
  <2>1. ui' \in MenuScreen /\ ui'.editing = {}
    BY <1>0, <1>1 DEF MenuDesks!ChangeWeek, MenuDesks!Load, MenuScreen
  <2>2. calls' = [calls EXCEPT ![i] = [kind |-> "load", week |-> week, after |-> "nothing"]]
        /\ UNCHANGED srv
    BY <1>1 DEF MenuDesks!ChangeWeek, MenuDesks!Load
  <2> QED BY <2>1, <2>2, MenuSafeStep, SafeMenuCalls DEF EditorIsOfDayShown
\* Steps that keep the day and the editor, or close it.
<1>2. ASSUME NEW i \in CallId,
             \/ \E ok \in BOOLEAN : MenuDesks!LoadEnds(i, ok)
             \/ MenuDesks!Refresh(i) \/ MenuDesks!RequestFails(i)
             \/ MenuDesks!ChangeClosure(i) \/ MenuDesks!ClosureChanged(i)
      PROVE  MenuInv'
  <2>0. calls[i].kind \in {"load", "closure"} => calls[i].week \in Week
    BY <1>0, MenuCallKinds
  <2>1. /\ ui' \in MenuScreen /\ ui'.editing = ui.editing
        /\ ui'.week = ui.week /\ ui'.day = ui.day /\ UNCHANGED srv
    <3>1. CASE \E ok \in BOOLEAN : MenuDesks!LoadEnds(i, ok)
      <4>1. PICK rows \in MenuWeeks : ui' = [ui EXCEPT !.loading = FALSE, !.rows = rows] /\ UNCHANGED srv
        <5>1. PICK ok \in BOOLEAN : MenuDesks!LoadEnds(i, ok)
          BY <3>1
        <5>2. (IF ok THEN {calls[i].week} ELSE {}) \in MenuWeeks
          BY <1>0, <2>0, <5>1 DEF MenuDesks!LoadEnds
        <5> QED BY <5>1, <5>2 DEF MenuDesks!LoadEnds
      <4> QED BY <1>0, <4>1 DEF MenuScreen
    <3>2. CASE MenuDesks!Refresh(i) \/ MenuDesks!ClosureChanged(i)
      <4>1. ui' = [ui EXCEPT !.loading = TRUE] /\ UNCHANGED srv
        BY <3>2 DEF MenuDesks!Refresh, MenuDesks!ClosureChanged, MenuDesks!Load
      <4> QED BY <1>0, <4>1 DEF MenuScreen
    <3>3. CASE MenuDesks!RequestFails(i) \/ MenuDesks!ChangeClosure(i)
      BY <1>0, <3>3 DEF MenuDesks!RequestFails, MenuDesks!ChangeClosure
    <3> QED BY <1>2, <3>1, <3>2, <3>3
  <2>2. \/ calls' = [calls EXCEPT ![i] = MenuDesks!NoCall]
        \/ \E w \in Week, after \in {"nothing", "save", "closure"} :
              calls' = [calls EXCEPT ![i] = [kind |-> "load", week |-> w, after |-> after]]
        \/ \E w \in Week : calls' = [calls EXCEPT ![i] = [kind |-> "closure", week |-> w]]
    BY <1>0, <1>2, <2>0 DEF MenuDesks!LoadEnds, MenuDesks!Refresh, MenuDesks!RequestFails,
       MenuDesks!ChangeClosure, MenuDesks!ClosureChanged, MenuDesks!Load
  <2>3. EditorIsOfDayShown'
    BY <1>0, <2>1 DEF EditorIsOfDayShown, MenuDesks!Shown
  <2> QED BY <2>1, <2>2, <2>3, MenuSafeStep, SafeMenuCalls
<1>3. ASSUME NEW i \in CallId, MenuDesks!SaveDay(i)
      PROVE  MenuInv'
  <2>1. PICK date \in ui.editing :
           calls' = [calls EXCEPT ![i] = [kind |-> "save", date |-> MenuDesks!Shown, typedFor |-> date,
                                          left |-> ui.draft]]
    BY <1>3 DEF MenuDesks!SaveDay
  <2>2. date = MenuDesks!Shown /\ ui.draft \in MenuMeals /\ UNCHANGED <<ui, srv>>
    BY <1>0, <1>3, <2>1 DEF EditorIsOfDayShown, MenuScreen, MenuDesks!SaveDay
  <2>3. EditorIsOfDayShown'
    BY <1>0, <2>2 DEF EditorIsOfDayShown, MenuDesks!Shown
  <2> QED BY <1>0, <2>1, <2>2, <2>3, MenuSafeStep, SafeMenuCalls
<1>4. ASSUME NEW i \in CallId, MenuDesks!PublishMenu(i)
      PROVE  MenuInv'
  <2>0. /\ calls[i].kind = "save" /\ calls[i].date = calls[i].typedFor
        /\ calls[i].date \in MenuDesks!Date /\ calls[i].left \in MenuMeals
        /\ calls[i].date[1] \in Week
    BY <1>0, <1>4, MenuCallKinds DEF MenuDesks!PublishMenu, MenuInv, SavesOnTheirDay, MenuDesks!Date
  <2>1. PICK meal \in calls[i].left :
          /\ srv' = [srv EXCEPT !.last = {[date |-> calls[i].date, meal |-> meal,
                                           typedFor |-> calls[i].typedFor]}]
          /\ IF calls[i].left = {meal}
             THEN MenuDesks!Load(i, [ui EXCEPT !.editing = {}], calls[i].date[1], "save")
             ELSE /\ calls' = [calls EXCEPT ![i].left = @ \ {meal}]
                  /\ UNCHANGED ui
    BY <1>4 DEF MenuDesks!PublishMenu
  <2> DEFINE p == [date |-> calls[i].date, meal |-> meal, typedFor |-> calls[i].typedFor]
  <2>2. p \in MenuDesks!Publication /\ p.date = p.typedFor
    BY <2>0 DEF MenuDesks!Publication, MenuMeals
  <2>3. {p} \in MenuPublications
    BY <2>2 DEF MenuPublications
  <2>4. srv' = [srv EXCEPT !.last = {p}]
    BY <2>1
  <2> HIDE DEF p
  <2>5. srv' \in MenuServer /\ MenuDesks!DraftOnItsDay'
    BY <1>0, <2>2, <2>3, <2>4 DEF MenuServer, MenuDesks!DraftOnItsDay
  <2>6. /\ ui' \in MenuScreen
        /\ ui'.editing = {} \/ ui' = ui
    BY <1>0, <2>1 DEF MenuDesks!Load, MenuScreen
  <2>7. EditorIsOfDayShown'
    BY <1>0, <2>6 DEF EditorIsOfDayShown, MenuDesks!Shown
  <2>8. \E c \in SafeMenuCall : calls' = [calls EXCEPT ![i] = c]
    <3>1. CASE calls[i].left = {meal}
      BY <2>0, <2>1, <3>1, SafeMenuCalls DEF MenuDesks!Load
    <3>2. CASE calls[i].left # {meal}
      <4>1. calls[i] \in [kind : {"save"}, date : MenuDesks!Date, typedFor : MenuDesks!Date, left : MenuMeals]
        BY <1>0, <2>0 DEF MenuDesks!Call, MenuDesks!NoCall, MenuMeals
      <4>2. calls[i].left \ {meal} \in MenuMeals
        BY <2>0 DEF MenuMeals
      <4>3. [calls[i] EXCEPT !.left = calls[i].left \ {meal}]
               = [kind |-> "save", date |-> calls[i].date, typedFor |-> calls[i].date,
                  left |-> calls[i].left \ {meal}]
        BY <2>0, <4>1
      <4>4. calls' = [calls EXCEPT ![i] = [calls[i] EXCEPT !.left = calls[i].left \ {meal}]]
        BY <2>1, <3>2
      <4> QED BY <2>0, <4>2, <4>3, <4>4, SafeMenuCalls
    <3> QED BY <3>1, <3>2
  <2>9. calls' \in MenuCalls /\ SavesOnTheirDay'
    BY <1>0, <2>8 DEF MenuInv, MenuCalls, SafeMenuCall, SavesOnTheirDay
  <2> QED BY <2>5, <2>6, <2>7, <2>9 DEF MenuInv
\* The editor is opened, typed in or closed, or another day shown.
<1>5. ASSUME \/ \E day \in Day : MenuDesks!OpenDay(day)
             \/ \E published \in SUBSET Meal : MenuDesks!StartEditing(published)
             \/ \E meal \in Meal : MenuDesks!Type(meal)
             \/ MenuDesks!CancelEditing
      PROVE  MenuInv'
  <2>1. UNCHANGED <<calls, srv>>
    BY <1>5 DEF MenuDesks!OpenDay, MenuDesks!StartEditing, MenuDesks!Type, MenuDesks!CancelEditing
  <2>2. /\ ui' \in MenuScreen
        /\ \/ ui'.editing = {}
           \/ /\ ui'.editing \in {ui.editing, {MenuDesks!Shown}}
              /\ ui'.week = ui.week /\ ui'.day = ui.day
    <3>1. CASE \E day \in Day : MenuDesks!OpenDay(day)
      BY <1>0, <3>1 DEF MenuDesks!OpenDay, MenuScreen
    <3>2. CASE \E published \in MenuMeals : MenuDesks!StartEditing(published)
      BY <1>0, <3>2 DEF MenuDesks!StartEditing, MenuScreen
    <3>3. CASE \E meal \in Meal : MenuDesks!Type(meal)
      BY <1>0, <3>3 DEF MenuDesks!Type, MenuScreen
    <3>4. CASE MenuDesks!CancelEditing
      BY <1>0, <3>4 DEF MenuDesks!CancelEditing, MenuScreen
    <3> QED BY <1>5, <3>1, <3>2, <3>3, <3>4 DEF MenuMeals
  <2>3. EditorIsOfDayShown'
    BY <1>0, <2>2 DEF EditorIsOfDayShown, MenuDesks!Shown
  <2> QED BY <2>1, <2>2, <2>3 DEF MenuInv, SavesOnTheirDay, MenuDesks!DraftOnItsDay
<1> QED
  BY <1>1, <1>2, <1>3, <1>4, <1>5 DEF MenuDesks!Next
===============================================================================
