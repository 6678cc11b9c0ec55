------------------------------- MODULE Overview -------------------------------
(***************************************************************************)
(* The administrator's dashboard (AdminOverviewView.tsx with               *)
(* DashboardSummary.tsx): today's figures, the history rows of a chosen    *)
(* window, the students behind a figure, and attendance recorded for all   *)
(* who are pending.  The four are asked for and answered independently.    *)
(***************************************************************************)
EXTENDS FiniteSets

CONSTANTS
    Window,    \* a length in days with a sitting, as the two selects make it
    Tile,      \* a meal with one of its figures
    CallId     \* bound: requests in flight at a time

VARIABLES ui, calls

vars == <<ui, calls>>

\* `current` is the flag the clean-up of the history effect resets; a load
\* that follows a recording keeps the button busy.
NoCall == [kind |-> "none"]
Call ==
    [kind : {"load"}, after : {"nothing", "record"}] \cup
    [kind : {"trends"}, window : Window, current : BOOLEAN] \cup
    [kind : {"drill"}, tile : Tile] \cup
    [kind : {"pending", "record"}]

\* `stats`: today's figures are held; `extras` those of menu and payments that
\* settled; `trends` the window of the history held; `drill` the figure opened
\* and `drillRows` the one whose students are held.
TypeOK ==
    /\ ui \in [stats : BOOLEAN, extras : SUBSET {"menu", "payments"},
               loading : BOOLEAN, failed : BOOLEAN, window : Window,
               trends : SUBSET Window, trendsLoading : BOOLEAN, trendsFailed : BOOLEAN,
               drill : SUBSET Tile, drillRows : SUBSET Tile, drillLoading : BOOLEAN]
    /\ calls \in [CallId -> Call \cup {NoCall}]

Init ==
    \E w \in Window, i \in CallId, j \in CallId :
        /\ i # j
        /\ ui = [stats |-> FALSE, extras |-> {}, loading |-> TRUE, failed |-> FALSE,
                 window |-> w, trends |-> {}, trendsLoading |-> TRUE, trendsFailed |-> FALSE,
                 drill |-> {}, drillRows |-> {}, drillLoading |-> FALSE]
        /\ calls = [c \in CallId |->
             CASE c = i -> [kind |-> "load", after |-> "nothing"]
               [] c = j -> [kind |-> "trends", window |-> w, current |-> TRUE]
               [] OTHER -> NoCall]

(* ---- today ---- *)

Load(i, after) ==
    /\ ui' = [ui EXCEPT !.loading = TRUE, !.failed = FALSE]
    /\ calls' = [calls EXCEPT ![i] = [kind |-> "load", after |-> after]]

Refresh(i) == ~ui.loading /\ calls[i] = NoCall /\ Load(i, "nothing")

\* Menu and payments settle apart: without them the figures are still shown.
LoadLands(i, extras) ==
    /\ calls[i].kind = "load"
    /\ ui' = [ui EXCEPT !.loading = FALSE, !.stats = TRUE, !.extras = extras]
    /\ calls' = [calls EXCEPT ![i] = NoCall]

\* Without the figures none are shown, rather than stale ones.
LoadFails(i) ==
    /\ calls[i].kind = "load"
    /\ ui' = [ui EXCEPT !.loading = FALSE, !.stats = FALSE, !.failed = TRUE]
    /\ calls' = [calls EXCEPT ![i] = NoCall]

(* ---- the history rows ---- *)

\* The old effect's flag is reset before the new one asks.
ChooseWindow(i, w) ==
    /\ w # ui.window
    /\ calls[i] = NoCall
    /\ ui' = [ui EXCEPT !.window = w, !.trendsLoading = TRUE, !.trendsFailed = FALSE]
    /\ calls' = [c \in CallId |->
         CASE c = i -> [kind |-> "trends", window |-> w, current |-> TRUE]
           [] calls[c].kind = "trends" -> [calls[c] EXCEPT !.current = FALSE]
           [] OTHER -> calls[c]]

TrendsLand(i) ==
    /\ calls[i].kind = "trends"
    /\ ui' = IF calls[i].current
             THEN [ui EXCEPT !.trends = {calls[i].window}, !.trendsLoading = FALSE]
             ELSE ui
    /\ calls' = [calls EXCEPT ![i] = NoCall]

TrendsFail(i) ==
    /\ calls[i].kind = "trends"
    /\ ui' = IF calls[i].current
             THEN [ui EXCEPT !.trends = {}, !.trendsFailed = TRUE, !.trendsLoading = FALSE]
             ELSE ui
    /\ calls' = [calls EXCEPT ![i] = NoCall]

(* ---- the students behind a figure ---- *)

OpenDrill(i, tile) ==
    /\ ui.stats /\ ui.drill = {}
    /\ calls[i] = NoCall
    /\ ui' = [ui EXCEPT !.drill = {tile}, !.drillRows = {}, !.drillLoading = TRUE]
    /\ calls' = [calls EXCEPT ![i] = [kind |-> "drill", tile |-> tile]]

CloseDrill ==
    /\ ui.drill # {}
    /\ ui' = [ui EXCEPT !.drill = {}]
    /\ UNCHANGED calls

\* The students land on whichever figure is open by then.
DrillEnds(i, ok) ==
    /\ calls[i].kind = "drill"
    /\ ui' = [ui EXCEPT !.drillRows = IF ok THEN {calls[i].tile} ELSE {},
                        !.drillLoading = FALSE]
    /\ calls' = [calls EXCEPT ![i] = NoCall]

(* ---- recording the pending as present ---- *)

Marking ==
    \E i \in CallId :
        \/ calls[i].kind \in {"pending", "record"}
        \/ calls[i].kind = "load" /\ calls[i].after = "record"

\* A meal is being served; the server is asked who is still pending for it.
AutoMarkPresent(i) ==
    /\ ui.stats /\ ~ui.loading /\ ~Marking
    /\ calls[i] = NoCall
    /\ calls' = [calls EXCEPT ![i] = [kind |-> "pending"]]
    /\ UNCHANGED ui

\* There are some, and the administrator confirms.
ConfirmMarking(i) ==
    /\ calls[i].kind = "pending"
    /\ calls' = [calls EXCEPT ![i] = [kind |-> "record"]]
    /\ UNCHANGED ui

Recorded(i) == calls[i].kind = "record" /\ Load(i, "record")

\* Nobody is pending, the administrator declines, or a request fails.
MarkingEnds(i) ==
    /\ calls[i].kind \in {"pending", "record"}
    /\ calls' = [calls EXCEPT ![i] = NoCall]
    /\ UNCHANGED ui

Next ==
    \/ \E i \in CallId :
         \/ Refresh(i) \/ LoadFails(i) \/ TrendsLand(i) \/ TrendsFail(i)
         \/ \E extras \in SUBSET {"menu", "payments"} : LoadLands(i, extras)
         \/ \E w \in Window : ChooseWindow(i, w)
         \/ \E tile \in Tile : OpenDrill(i, tile)
         \/ \E ok \in BOOLEAN : DrillEnds(i, ok)
         \/ AutoMarkPresent(i) \/ ConfirmMarking(i) \/ Recorded(i) \/ MarkingEnds(i)
    \/ CloseDrill

Spec == Init /\ [][Next]_vars

\* Once they have stopped loading, the history rows are of the window chosen,
\* or there are none and an error says so: a slow answer for another window
\* never shows as this one's.
ShownBelongsToChoice ==
    ~ui.trendsLoading =>
        \/ ui.trends = {ui.window}
        \/ ui.trends = {} /\ ui.trendsFailed

=============================================================================
