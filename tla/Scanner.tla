------------------------------- MODULE Scanner -------------------------------
(***************************************************************************)
(* The scanning screen (AdminScannerView.tsx): a camera and a box for      *)
(* tokens, a form that marks a student by name, and the log of the         *)
(* check-ins made.  A pass is verified by one request and confirmed by a   *)
(* second; the answer to either may be lost after the server has acted.    *)
(***************************************************************************)
EXTENDS FiniteSets

CONSTANTS
    Student,  \* students
    Meal,     \* the day's meals
    CallId    \* bound: requests in flight at a time

VARIABLES ui, calls, srv

vars == <<ui, calls, srv>>

\* A check-in, and the pass that leads to it: a student and a meal.
CheckIn == Student \X Meal

\* `scan` is verifying or confirming, `manual` marking by name; `done` says
\* that the server has recorded the check-in and its answer is on the way.
NoCall == [kind |-> "none"]
Call ==
    [kind : {"recent"}] \cup [kind : {"recentRows"}, rows : SUBSET CheckIn] \cup
    [kind : {"verify"}, of : CheckIn] \cup
    [kind : {"confirm", "manual"}, of : CheckIn, done : BOOLEAN]

\* `logs` are the check-ins listed as successful, `last` the token that is
\* ignored for 4 seconds, `chosen` the student picked in the form.
TypeOK ==
    /\ ui \in [logs : SUBSET CheckIn, feedback : {"none", "ok", "failed"},
               camera : {"off", "starting", "live"}, last : SUBSET CheckIn,
               chosen : SUBSET Student, meal : Meal]
    /\ calls \in [CallId -> Call \cup {NoCall}]
    /\ srv \in [recorded : SUBSET CheckIn]

\* On mount the screen asks for the recent check-ins and starts the camera.
\* The meal pre-selected depends on the hour.
Init ==
    /\ \E m \in Meal :
         ui = [logs |-> {}, feedback |-> "none", camera |-> "starting",
               last |-> {}, chosen |-> {}, meal |-> m]
    /\ \E i \in CallId :
         calls = [c \in CallId |-> IF c = i THEN [kind |-> "recent"] ELSE NoCall]
    /\ \E rows \in SUBSET CheckIn : srv = [recorded |-> rows]

(* ---- the log as the server has it ---- *)

RecentAnswered(i) ==
    /\ calls[i].kind = "recent"
    /\ calls' = [calls EXCEPT ![i] = [kind |-> "recentRows", rows |-> srv.recorded]]
    /\ UNCHANGED <<ui, srv>>

\* The rows replace the log, whatever was scanned while they were on the way.
RecentLands(i) ==
    /\ calls[i].kind = "recentRows"
    /\ ui' = [ui EXCEPT !.logs = calls[i].rows]
    /\ calls' = [calls EXCEPT ![i] = NoCall]
    /\ UNCHANGED srv

RecentFails(i) ==
    /\ calls[i].kind \in {"recent", "recentRows"}
    /\ ui' = [ui EXCEPT !.feedback = "failed"]
    /\ calls' = [calls EXCEPT ![i] = NoCall]
    /\ UNCHANGED srv

(* ---- the camera ---- *)

CameraStarts ==
    /\ ui.camera = "starting"
    /\ \E state \in {"live", "off"} : ui' = [ui EXCEPT !.camera = state]
    /\ UNCHANGED <<calls, srv>>

\* The button stops a live camera and starts one that is off; while it is
\* starting `isScanningRef` makes the button do nothing.
ToggleCamera ==
    /\ ui.camera # "starting"
    /\ ui' = [ui EXCEPT !.camera = IF @ = "live" THEN "off" ELSE "starting"]
    /\ UNCHANGED <<calls, srv>>

(* ---- a pass ---- *)

\* `handleToken`, of what the camera reads or of a token typed in.
HandleToken(i, pass) ==
    /\ pass \notin ui.last
    /\ calls[i] = NoCall
    /\ ui' = [ui EXCEPT !.last = {pass}]
    /\ calls' = [calls EXCEPT ![i] = [kind |-> "verify", of |-> pass]]
    /\ UNCHANGED srv

FourSeconds ==
    /\ ui.last # {}
    /\ ui' = [ui EXCEPT !.last = {}]
    /\ UNCHANGED <<calls, srv>>

\* The server verifies a pass for a meal not yet collected.
Verified(i) ==
    /\ calls[i].kind = "verify"
    /\ calls[i].of \notin srv.recorded
    /\ calls' = [calls EXCEPT ![i] = [kind |-> "confirm", of |-> calls[i].of, done |-> FALSE]]
    /\ UNCHANGED <<ui, srv>>

\* The server records the check-in, once.
Record(i) ==
    /\ calls[i].kind \in {"confirm", "manual"} /\ ~calls[i].done
    /\ calls[i].of \notin srv.recorded
    /\ srv' = [srv EXCEPT !.recorded = @ \cup {calls[i].of}]
    /\ calls' = [calls EXCEPT ![i].done = TRUE]
    /\ UNCHANGED ui

Confirmed(i) ==
    /\ calls[i].kind = "confirm" /\ calls[i].done
    /\ ui' = [ui EXCEPT !.logs = @ \cup {calls[i].of}, !.feedback = "ok"]
    /\ calls' = [calls EXCEPT ![i] = NoCall]
    /\ UNCHANGED srv

\* Slip: a pass that cannot be verified shows as a check-in all the same.
ScanFailsAsSuccess(i) ==
    /\ calls[i].kind \in {"verify", "confirm"}
    /\ ui' = [ui EXCEPT !.logs = @ \cup {calls[i].of}, !.feedback = "ok"]
    /\ calls' = [calls EXCEPT ![i] = NoCall]
    /\ UNCHANGED srv

\* Refused, or not answered: a failure is reported as a failure, even when
\* only the answer was lost.
ScanFails(i) ==
    /\ calls[i].kind \in {"verify", "confirm"}
    /\ ui' = [ui EXCEPT !.feedback = "failed"]
    /\ calls' = [calls EXCEPT ![i] = NoCall]
    /\ UNCHANGED srv

FeedbackFades ==
    /\ ui.feedback # "none"
    /\ ui' = [ui EXCEPT !.feedback = "none"]
    /\ UNCHANGED <<calls, srv>>

(* ---- marking by name ---- *)

Choose(chosen) ==
    /\ chosen # ui.chosen
    /\ ui' = [ui EXCEPT !.chosen = chosen]
    /\ UNCHANGED <<calls, srv>>

PickMeal(m) ==
    /\ m # ui.meal
    /\ ui' = [ui EXCEPT !.meal = m]
    /\ UNCHANGED <<calls, srv>>

MarkManually(i) ==
    \E s \in ui.chosen :
        /\ \A c \in CallId : calls[c].kind # "manual"
        /\ calls[i] = NoCall
        /\ calls' = [calls EXCEPT ![i] = [kind |-> "manual", of |-> <<s, ui.meal>>, done |-> FALSE]]
        /\ UNCHANGED <<ui, srv>>

\* What is logged is what was sent; what the form holds by now is cleared.
Marked(i) ==
    /\ calls[i].kind = "manual" /\ calls[i].done
    /\ ui' = [ui EXCEPT !.logs = @ \cup {calls[i].of}, !.feedback = "ok", !.chosen = {}]
    /\ calls' = [calls EXCEPT ![i] = NoCall]
    /\ UNCHANGED srv

\* The form says why, and keeps what was entered.
MarkFails(i) ==
    /\ calls[i].kind = "manual"
    /\ calls' = [calls EXCEPT ![i] = NoCall]
    /\ UNCHANGED <<ui, srv>>

Next ==
    \/ \E i \in CallId :
         \/ RecentAnswered(i) \/ RecentLands(i) \/ RecentFails(i)
         \/ \E pass \in CheckIn : HandleToken(i, pass)
         \/ Verified(i) \/ Record(i) \/ Confirmed(i) \/ ScanFails(i)
         \/ MarkManually(i) \/ Marked(i) \/ MarkFails(i)
    \/ CameraStarts \/ ToggleCamera \/ FourSeconds \/ FeedbackFades
    \/ \E chosen \in {{}} \cup {{s} : s \in Student} : Choose(chosen)
    \/ \E m \in Meal : PickMeal(m)

Spec == Init /\ [][Next]_vars

\* Every check-in listed as successful was recorded by the server: no failure,
\* however it came about, looks like a check-in.
SuccessMeansRecorded == ui.logs \subseteq srv.recorded

=============================================================================
