------------------------------- MODULE Settings -------------------------------
(***************************************************************************)
(* The settings screen (SettingsView.tsx) of one administrator while       *)
(* another may change the same settings: what was loaded, what is typed,   *)
(* and a save that sends the settings that moved and, when it is answered, *)
(* takes what it captured for stored.                                      *)
(***************************************************************************)
EXTENDS FiniteSets

CONSTANTS
    Key,     \* settings
    Value,   \* values the server accepts
    CallId   \* bound: requests in flight at a time

VARIABLES ui, calls, srv

vars == <<ui, calls, srv>>

\* What can be typed: `problemFor` and `ruleProblem` mirror the server's rules.
Invalid == "invalid"
Draft == [Key -> Value \cup {Invalid}]

\* A save carries the draft it was pressed on; `done` says the server has
\* taken it and its answer is on the way.  A late save is one the screen gave up
\* on after 15 seconds and the server may still take.
NoCall == [kind |-> "none"]
Call ==
    [kind : {"load"}] \cup
    [kind : {"rows"}, rows : [Key -> Value]] \cup
    [kind : {"save"}, draft : Draft, keys : SUBSET Key, done : BOOLEAN] \cup
    [kind : {"late"}, draft : Draft, keys : SUBSET Key]

\* `typed`: the settings this administrator has typed into, and who a value on
\* the server is from: "here", by a save that was or will be answered, elsewhere,
\* or a save that was given up on.
TypeOK ==
    /\ ui \in [screen : {"loading", "error", "form"}, stored : Draft, draft : Draft,
               saved : BOOLEAN, saveError : BOOLEAN, typed : SUBSET Key]
    /\ calls \in [CallId -> Call \cup {NoCall}]
    /\ srv \in [values : [Key -> Value], others : [Key -> Value],
                from : [Key -> {"here", "elsewhere", "unknown"}]]

Changed(stored, draft) == {k \in Key : draft[k] # stored[k]}
Saving == \E i \in CallId : calls[i].kind = "save"

\* Mounted, and loading.  A key without a row is shown with the default the
\* server uses for it, so every key has a value.
Init ==
    \E values \in [Key -> Value], i \in CallId :
        /\ srv = [values |-> values, others |-> values, from |-> [k \in Key |-> "elsewhere"]]
        /\ ui = [screen |-> "loading", stored |-> values, draft |-> values,
                 saved |-> FALSE, saveError |-> FALSE, typed |-> {}]
        /\ calls = [c \in CallId |-> IF c = i THEN [kind |-> "load"] ELSE NoCall]

(* ---- loading ---- *)

LoadAnswered(i) ==
    /\ calls[i].kind = "load"
    /\ calls' = [calls EXCEPT ![i] = [kind |-> "rows", rows |-> srv.values]]
    /\ UNCHANGED <<ui, srv>>

LoadLands(i) ==
    /\ calls[i].kind = "rows"
    /\ ui' = [ui EXCEPT !.screen = "form", !.stored = calls[i].rows, !.draft = calls[i].rows]
    /\ calls' = [calls EXCEPT ![i] = NoCall]
    /\ UNCHANGED srv

LoadFails(i) ==
    /\ calls[i].kind \in {"load", "rows"}
    /\ ui' = [ui EXCEPT !.screen = "error"]
    /\ calls' = [calls EXCEPT ![i] = NoCall]
    /\ UNCHANGED srv

TryAgain(i) ==
    /\ ui.screen = "error"
    /\ calls[i] = NoCall
    /\ ui' = [ui EXCEPT !.screen = "loading"]
    /\ calls' = [calls EXCEPT ![i] = [kind |-> "load"]]
    /\ UNCHANGED srv

(* ---- editing ---- *)

\* The fields stay open while a save is in flight.
SetKey(key, value) ==
    /\ ui.screen = "form"
    /\ value # ui.draft[key]
    /\ ui' = [ui EXCEPT !.draft[key] = value, !.saved = FALSE, !.saveError = FALSE,
                        !.typed = @ \cup {key}]
    /\ UNCHANGED <<calls, srv>>

Discard ==
    /\ ui.screen = "form"
    /\ Changed(ui.stored, ui.draft) # {} /\ ~Saving
    /\ ui' = [ui EXCEPT !.draft = ui.stored, !.saved = FALSE, !.saveError = FALSE]
    /\ UNCHANGED <<calls, srv>>

(* ---- saving ---- *)

CanSave ==
    /\ ui.screen = "form"
    /\ Changed(ui.stored, ui.draft) # {} /\ ~Saving
    /\ \A k \in Key : ui.draft[k] # Invalid

\* Only the settings that actually moved are sent.
Save(i) ==
    /\ CanSave
    /\ calls[i] = NoCall
    /\ ui' = [ui EXCEPT !.saveError = FALSE]
    /\ calls' = [calls EXCEPT ![i] = [kind |-> "save", draft |-> ui.draft,
                                      keys |-> Changed(ui.stored, ui.draft), done |-> FALSE]]
    /\ UNCHANGED srv

Written(save, from) ==
    [srv EXCEPT !.values = [k \in Key |-> IF k \in save.keys THEN save.draft[k] ELSE @[k]],
                !.from = [k \in Key |-> IF k \in save.keys THEN from ELSE @[k]]]

SaveTaken(i) ==
    /\ calls[i].kind = "save" /\ ~calls[i].done
    /\ srv' = Written(calls[i], "here")
    /\ calls' = [calls EXCEPT ![i].done = TRUE]
    /\ UNCHANGED ui

\* Slip: what is on the screen by now is taken for stored.
SaveLandsCurrent(i) ==
    /\ calls[i].kind = "save" /\ calls[i].done
    /\ ui' = [ui EXCEPT !.stored = ui.draft, !.saved = TRUE]
    /\ calls' = [calls EXCEPT ![i] = NoCall]
    /\ UNCHANGED srv

\* `setStored({ ...draft })`, the draft the handler closed over.
SaveLands(i) ==
    /\ calls[i].kind = "save" /\ calls[i].done
    /\ ui' = [ui EXCEPT !.stored = calls[i].draft, !.saved = TRUE]
    /\ calls' = [calls EXCEPT ![i] = NoCall]
    /\ UNCHANGED srv

\* Refused, never arrived, its answer lost after the server took it, or given
\* up on before the server takes it.
SaveFails(i) ==
    /\ calls[i].kind = "save"
    /\ ui' = [ui EXCEPT !.saveError = TRUE]
    /\ calls' \in {[calls EXCEPT ![i] = c] :
                     c \in {NoCall} \cup
                           IF calls[i].done THEN {}
                           ELSE {[kind |-> "late", draft |-> calls[i].draft, keys |-> calls[i].keys]}}
    /\ srv' = [srv EXCEPT !.from =
                 [k \in Key |-> IF calls[i].done /\ k \in calls[i].keys THEN "unknown" ELSE @[k]]]

LateSaveTaken(i) ==
    /\ calls[i].kind = "late"
    /\ srv' = Written(calls[i], "unknown")
    /\ calls' = [calls EXCEPT ![i] = NoCall]
    /\ UNCHANGED ui

ChangedElsewhere(key, value) ==
    /\ value # srv.values[key]
    /\ srv' = [srv EXCEPT !.values[key] = value, !.others[key] = value, !.from[key] = "elsewhere"]
    /\ UNCHANGED <<ui, calls>>

Next ==
    \/ \E i \in CallId :
         \/ LoadAnswered(i) \/ LoadLands(i) \/ LoadFails(i) \/ TryAgain(i)
         \/ Save(i) \/ SaveTaken(i) \/ SaveLands(i) \/ SaveFails(i)
         \/ LateSaveTaken(i)
    \/ \E key \in Key :
         \/ \E value \in Value \cup {Invalid} : SetKey(key, value)
         \/ \E value \in Value : ChangedElsewhere(key, value)
    \/ Discard

Spec == Init /\ [][Next]_vars

(* ---- properties ---- *)

\* While the screen says "Saved" every setting is on the server as it is shown,
\* unless another administrator or a save the screen had given up on wrote it
\* since; and a setting nobody typed into here is as the other administrators
\* left it, whatever was saved here and however late.
SavedMeansStored ==
    /\ ui.saved /\ Changed(ui.stored, ui.draft) = {} =>
         \A k \in Key : srv.from[k] = "here" => srv.values[k] = ui.draft[k]
    /\ \A k \in Key \ ui.typed : srv.values[k] = srv.others[k]

=============================================================================
