------------------------------- MODULE MenuDesk -------------------------------
(***************************************************************************)
(* The weekly menu screen (WeeklyMenuView.tsx) with its closure panel      *)
(* (MessClosurePanel.tsx): a week, the day open in it, an editor whose     *)
(* meals are published one request after the other, and closures declared  *)
(* and cancelled for the day shown.  While a request is in flight nothing  *)
(* on the page waits for it but the buttons of its own panel.  What a      *)
(* closure shuts, and what it does to the selections, is in Meals.         *)
(***************************************************************************)
EXTENDS Naturals, FiniteSets

CONSTANTS
    Week,    \* weeks, numbered
    Day,     \* days of a week, numbered
    Meal,    \* meals of a day, numbered in the order they are published
    CallId   \* bound: requests in flight at a time

VARIABLES ui, calls, srv

vars == <<ui, calls, srv>>

Date == Week \X Day

\* A published menu: the date and meal it was sent for, and the date whose
\* editor it was typed into.
Publication == [date : Date, meal : Meal, typedFor : Date]

\* A handler keeps the day and week it was called on.  A publication has the
\* meals still to send; a save or a closure that succeeded goes on, in the same
\* handler, as a load.
NoCall == [kind |-> "none"]
Call ==
    [kind : {"load"}, week : Week, after : {"nothing", "save", "closure"}] \cup
    [kind : {"save"}, date : Date, typedFor : Date, left : SUBSET Meal] \cup
    [kind : {"closure"}, week : Week]

\* `rows` is the week whose menu and closures last landed; `editing` the date
\* the editor was opened on; `draft` the meals that have items in it.
TypeOK ==
    /\ ui \in [week : Week, day : Day, loading : BOOLEAN, rows : SUBSET Week,
               editing : SUBSET Date, draft : SUBSET Meal]
    /\ calls \in [CallId -> Call \cup {NoCall}]
    /\ srv \in [last : SUBSET Publication, today : Date]

Shown == <<ui.week, ui.day>>

\* `dayHasPassed`
HasPassed(date) ==
    \/ date[1] < srv.today[1]
    \/ date[1] = srv.today[1] /\ date[2] < srv.today[2]

Init ==
    \E today \in Date, i \in CallId :
        /\ srv = [last |-> {}, today |-> today]
        /\ ui = [week |-> today[1], day |-> today[2], loading |-> TRUE, rows |-> {},
                 editing |-> {}, draft |-> {}]
        /\ calls = [c \in CallId |->
                      IF c = i THEN [kind |-> "load", week |-> today[1], after |-> "nothing"]
                      ELSE NoCall]

(* ---- the week ---- *)

\* `load`, entered by a handler that closed over a week.
Load(i, screen, week, after) ==
    /\ ui' = [screen EXCEPT !.loading = TRUE]
    /\ calls' = [calls EXCEPT ![i] = [kind |-> "load", week |-> week, after |-> after]]

\* Another week is loaded; the editor closes.
ChangeWeek(i, week) ==
    /\ week \in {ui.week - 1, ui.week + 1}
    /\ calls[i] = NoCall
    /\ Load(i, [ui EXCEPT !.week = week, !.editing = {}], week, "nothing")
    /\ UNCHANGED srv

Refresh(i) ==
    /\ ~ui.loading
    /\ calls[i] = NoCall
    /\ Load(i, ui, ui.week, "nothing")
    /\ UNCHANGED srv

\* The rows land on whichever week is shown by then, or there are none.
LoadEnds(i, ok) ==
    /\ calls[i].kind = "load"
    /\ ui' = [ui EXCEPT !.loading = FALSE, !.rows = IF ok THEN {calls[i].week} ELSE {}]
    /\ calls' = [calls EXCEPT ![i] = NoCall]
    /\ UNCHANGED srv

\* Slip: the editor stays open on another day.
OpenDayKeeping(day) ==
    /\ day # ui.day
    /\ ui' = [ui EXCEPT !.day = day]
    /\ UNCHANGED <<calls, srv>>

OpenDay(day) ==
    /\ day # ui.day
    /\ ui' = [ui EXCEPT !.day = day, !.editing = {}]
    /\ UNCHANGED <<calls, srv>>

(* ---- the editor ---- *)

Publishing ==
    \E i \in CallId :
        \/ calls[i].kind = "save"
        \/ calls[i].kind = "load" /\ calls[i].after = "save"

\* The editor is offered until the day is over.  It starts from the rows of
\* that date, so blank while those of another week are held.
StartEditing(published) ==
    /\ ui.editing = {}
    /\ ~HasPassed(Shown)
    /\ ui' = [ui EXCEPT !.editing = {Shown},
                        !.draft = IF ui.week \in ui.rows THEN published ELSE {}]
    /\ UNCHANGED <<calls, srv>>

Type(meal) ==
    /\ ui.editing # {}
    /\ ui' = [ui EXCEPT !.draft = IF meal \in @ THEN @ \ {meal} ELSE @ \cup {meal}]
    /\ UNCHANGED <<calls, srv>>

CancelEditing ==
    /\ ui.editing # {} /\ ~Publishing
    /\ ui' = [ui EXCEPT !.editing = {}]
    /\ UNCHANGED <<calls, srv>>

\* Meals left blank are not sent.
SaveDay(i) ==
    /\ ~Publishing
    /\ ui.draft # {}
    /\ calls[i] = NoCall
    /\ \E date \in ui.editing :
         calls' = [calls EXCEPT ![i] = [kind |-> "save", date |-> Shown, typedFor |-> date,
                                        left |-> ui.draft]]
    /\ UNCHANGED <<ui, srv>>

\* One meal after the other.  The last answer closes the editor, on whatever
\* day it is by then, and reloads the week.  The server refuses a past day.
PublishMenu(i) ==
    /\ calls[i].kind = "save"
    /\ ~HasPassed(calls[i].date)
    /\ \E meal \in calls[i].left :
         /\ \A other \in calls[i].left : meal <= other
         /\ srv' = [srv EXCEPT !.last = {[date |-> calls[i].date, meal |-> meal,
                                          typedFor |-> calls[i].typedFor]}]
         /\ IF calls[i].left = {meal}
            THEN Load(i, [ui EXCEPT !.editing = {}], calls[i].date[1], "save")
            ELSE /\ calls' = [calls EXCEPT ![i].left = @ \ {meal}]
                 /\ UNCHANGED ui

\* A request that fails leaves what was published before it, and the editor.
RequestFails(i) ==
    /\ calls[i].kind \in {"save", "closure"}
    /\ calls' = [calls EXCEPT ![i] = NoCall]
    /\ UNCHANGED <<ui, srv>>

(* ---- the closure panel ---- *)

PanelBusy ==
    \E i \in CallId :
        \/ calls[i].kind = "closure"
        \/ calls[i].kind = "load" /\ calls[i].after = "closure"

\* A closure declared for the day shown, or one of it cancelled.
ChangeClosure(i) ==
    /\ ~PanelBusy
    /\ calls[i] = NoCall
    /\ calls' = [calls EXCEPT ![i] = [kind |-> "closure", week |-> ui.week]]
    /\ UNCHANGED <<ui, srv>>

ClosureChanged(i) ==
    /\ calls[i].kind = "closure"
    /\ Load(i, ui, calls[i].week, "closure")
    /\ UNCHANGED srv

Next ==
    \/ \E i \in CallId :
         \/ \E week \in Week : ChangeWeek(i, week)
         \/ \E ok \in BOOLEAN : LoadEnds(i, ok)
         \/ Refresh(i) \/ SaveDay(i) \/ PublishMenu(i) \/ RequestFails(i)
         \/ ChangeClosure(i) \/ ClosureChanged(i)
    \/ \E day \in Day : OpenDay(day)
    \/ \E published \in SUBSET Meal : StartEditing(published)
    \/ \E meal \in Meal : Type(meal)
    \/ CancelEditing

Spec == Init /\ [][Next]_vars

\* A menu is published to the day whose editor it was typed into, although
\* other days and weeks may be opened while its meals are being sent.
DraftOnItsDay == \A p \in srv.last : p.date = p.typedFor

=============================================================================
