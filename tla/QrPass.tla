-------------------------------- MODULE QrPass --------------------------------
(***************************************************************************)
(* The student's pass (StudentQrView.tsx): which meal it is for, guessed   *)
(* from the serving windows (mealWindows.ts) until the student picks one,  *)
(* and the code the server last answered with, renewed when it runs out.   *)
(***************************************************************************)
EXTENDS Naturals, FiniteSets

CONSTANTS
    CallId,    \* bound: requests in flight at a time
    Clock      \* times of day that matter, in order

VARIABLES ui, calls, srv

vars == <<ui, calls, srv>>

MealType == {"breakfast", "lunch", "dinner"}
MealOrder == [breakfast |-> 1, lunch |-> 2, dinner |-> 3]

\* Serving windows as [first, last]; those the program falls back on, and
\* those of a mess that serves later.
ServingWindow == [first : Clock, last : Clock]
FallbackWindows ==
    [breakfast |-> [first |-> 1, last |-> 1], lunch |-> [first |-> 3, last |-> 3],
     dinner |-> [first |-> 5, last |-> 5]]
LaterWindows ==
    [breakfast |-> [first |-> 2, last |-> 2], lunch |-> [first |-> 4, last |-> 4],
     dinner |-> [first |-> 6, last |-> 6]]

IsServing(window, now) == window.first <= now /\ now <= window.last

First(meals) == CHOOSE m \in meals : \A n \in meals : MealOrder[m] <= MealOrder[n]

\* Slip: no meal once the day is over.
CurrentMealOrNone(windows, now) ==
    LET serving == {m \in MealType : IsServing(windows[m], now)}
        due == {m \in MealType : now < windows[m].first} IN
    IF serving \cup due = {} THEN "none" ELSE First(serving \cup due)

\* `currentMeal`: the meal being served, else the next one due today, and
\* dinner when the day is over.
CurrentMeal(windows, now) ==
    LET serving == {m \in MealType : IsServing(windows[m], now)}
        due == {m \in MealType : now < windows[m].first} IN
    IF serving # {} THEN First(serving)
    ELSE IF due # {} THEN First(due)
    ELSE "dinner"

NoCall == [kind |-> "none"]
Call == [kind : {"windows"}] \cup [kind : {"pass"}, meal : MealType]

\* `shown` is what the ticket shows: nothing yet, the code for a meal, that
\* the meal is recorded, or an error.  `picked` is the student's own choice.
TypeOK ==
    /\ ui \in [meal : MealType, picked : SUBSET MealType, pending : BOOLEAN, refreshing : BOOLEAN,
               shown : {"nothing", "code", "recorded", "error"}, of : SUBSET MealType,
               view : {"pass", "scanner"}]
    /\ calls \in [CallId -> Call \cup {NoCall}]
    /\ srv \in [now : Clock, windows : {FallbackWindows, LaterWindows}, canScan : BOOLEAN]

\* Mounted at any time of the day.  `pending` is the effect on the meal, due
\* to ask for its pass.
Init ==
    /\ srv \in [now : Clock, windows : {FallbackWindows, LaterWindows}, canScan : BOOLEAN]
    /\ ui = [meal |-> CurrentMeal(FallbackWindows, srv.now), picked |-> {}, pending |-> TRUE,
             refreshing |-> FALSE, shown |-> "nothing", of |-> {}, view |-> "pass"]
    /\ \E i \in CallId :
         calls = [c \in CallId |-> IF c = i THEN [kind |-> "windows"] ELSE NoCall]

TimePasses ==
    /\ srv.now + 1 \in Clock
    /\ srv' = [srv EXCEPT !.now = @ + 1]
    /\ UNCHANGED <<ui, calls>>

\* Changing the meal restarts its effects.
ShowMeal(screen, meal) ==
    [screen EXCEPT !.meal = meal, !.pending = @ \/ meal # screen.meal]

\* Slip: the guess is made again when the windows land.
WindowsLandAlways(i) ==
    /\ calls[i].kind = "windows"
    /\ ui' = ShowMeal(ui, CurrentMeal(srv.windows, srv.now))
    /\ calls' = [calls EXCEPT ![i] = NoCall]
    /\ UNCHANGED srv

\* The windows land, or fail and leave the fallback.
WindowsLand(i) ==
    /\ calls[i].kind = "windows"
    /\ ui' = IF ui.picked = {} THEN ShowMeal(ui, CurrentMeal(srv.windows, srv.now)) ELSE ui
    /\ calls' = [calls EXCEPT ![i] = NoCall]
    /\ UNCHANGED srv

WindowsFail(i) ==
    /\ calls[i].kind = "windows"
    /\ calls' = [calls EXCEPT ![i] = NoCall]
    /\ UNCHANGED <<ui, srv>>

PickMeal(meal) ==
    /\ ui.view = "pass"
    /\ ui' = [ShowMeal(ui, meal) EXCEPT !.picked = {meal}]
    /\ UNCHANGED <<calls, srv>>

\* `fetchQrToken`: what is shown is cleared until the answer lands.
FetchQrToken(i, screen) ==
    /\ calls[i] = NoCall
    /\ ui' = [screen EXCEPT !.refreshing = TRUE, !.shown = "nothing", !.of = {}]
    /\ calls' = [calls EXCEPT ![i] = [kind |-> "pass", meal |-> screen.meal]]
    /\ UNCHANGED srv

MealEffect(i) ==
    /\ ui.pending
    /\ FetchQrToken(i, [ui EXCEPT !.pending = FALSE])

\* The countdown runs out, or the student asks again: after an error, or with
\* the button, which is disabled while a code is being fetched.
RunsOut(i) == ~ui.pending /\ FetchQrToken(i, ui)

AskAgain(i) ==
    /\ ui.view = "pass" /\ ~ui.pending
    /\ ui.shown = "error" \/ ~ui.refreshing
    /\ FetchQrToken(i, ui)

\* Answers land in any order, on whichever meal is shown by then.
PassLands(i, shown) ==
    /\ calls[i].kind = "pass"
    /\ ui' = [ui EXCEPT !.refreshing = FALSE, !.shown = shown,
                        !.of = IF shown = "error" THEN {} ELSE {calls[i].meal}]
    /\ calls' = [calls EXCEPT ![i] = NoCall]
    /\ UNCHANGED srv

\* A committee member switches between the pass and the scanner.
SwitchView ==
    /\ srv.canScan
    /\ ui' = [ui EXCEPT !.view = IF @ = "pass" THEN "scanner" ELSE "pass"]
    /\ UNCHANGED <<calls, srv>>

Next ==
    \/ \E i \in CallId :
         \/ WindowsLand(i) \/ WindowsFail(i)
         \/ MealEffect(i) \/ RunsOut(i) \/ AskAgain(i)
         \/ \E shown \in {"code", "recorded", "error"} : PassLands(i, shown)
    \/ \E meal \in MealType : PickMeal(meal)
    \/ TimePasses \/ SwitchView

Spec == Init /\ [][Next]_vars

\* Once the student has picked a meal the screen stays on it, whenever the
\* windows land.
ChosenMealStays == ui.picked # {} => ui.meal \in ui.picked

=============================================================================
