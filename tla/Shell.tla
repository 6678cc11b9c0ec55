-------------------------------- MODULE Shell --------------------------------
(***************************************************************************)
(* The application shell: signing in (LoginModal.tsx), what the shell then *)
(* sets of itself in steps around its requests for the profile (App.tsx),  *)
(* and the tabs the navigation offers (navigation.ts, SideNav, BottomNav,  *)
(* Header).  A profile asked for by one login may land during the next.    *)
(***************************************************************************)
EXTENDS FiniteSets

CONSTANT CallId   \* bound: requests in flight at a time

VARIABLES ui, calls

vars == <<ui, calls>>

\* What the server says of an account: its role, and whether a student's
\* committee work includes scanning.
Account == {"STUDENT", "COMMITTEE", "ADMIN", "SUPER_ADMIN"}
RoleOf(account) == IF account \in {"ADMIN", "SUPER_ADMIN"} THEN "admin" ELSE "student"

(* ---- navigation ---- *)

StudentTabs == {"home", "calendar", "qr", "alerts", "bill", "profile"}
AdminTabs == {"admin-dashboard", "admin-scanner", "admin-menu", "admin-students",
              "admin-ledger", "admin-billing", "admin-payments", "admin-settings",
              "alerts", "profile"}
ActiveTab == StudentTabs \cup AdminTabs

\* `groupsFor`: what the side bar lists.
Entries(role, canScan) ==
    IF role # "student" THEN AdminTabs
    ELSE StudentTabs \cup IF canScan THEN {"admin-scanner"} ELSE {}

\* `barEntries` and `overflowGroups`: what a phone shows in its bar, and in
\* the sheet behind "More".  Alerts and profile are in the header.
BarEntries(role, canScan) ==
    IF role # "student" THEN {"admin-dashboard", "admin-scanner", "admin-students", "admin-billing"}
    ELSE {"home", "qr", "bill"} \cup {IF canScan THEN "admin-scanner" ELSE "calendar"}

Overflow(role, canScan) ==
    (Entries(role, canScan) \ BarEntries(role, canScan)) \ {"alerts", "profile"}

\* The header: a way back, the alerts and the profile.
HomeOf(role) == IF role = "student" THEN "home" ELSE "admin-dashboard"
HeaderTabs(role) == {HomeOf(role), "alerts", "profile"}

Offered(role, canScan) ==
    Entries(role, canScan) \cup BarEntries(role, canScan)
        \cup Overflow(role, canScan) \cup HeaderTabs(role)

\* Slip: the view is looked up by the tab alone.
ViewByTab(role, tab, canScan) ==
    {tab} \cap (Entries(role, canScan) \cup {"alerts", "profile"})

\* The view switcher: the view for a tab, none for a tab of the other role.
\* Home and the overview stand in for one another.
View(role, tab, canScan) ==
    IF tab \in {"home", "admin-dashboard"} THEN {HomeOf(role)}
    ELSE IF tab = "admin-scanner" /\ role = "student" /\ ~canScan THEN {}
    ELSE {tab} \cap (Entries(role, canScan) \cup {"alerts", "profile"})

(* ---- the shell ---- *)

NoCall == [kind |-> "none"]
Call ==
    [kind : {"session"}, shortcut : SUBSET {"calendar", "qr"}] \cup
    [kind : {"setPassword"}, mode : {"activate", "reset"}] \cup
    [kind : {"login"}] \cup
    [kind : {"verify", "profile"}, account : Account]

\* `stored` is the tab remembered in localStorage, `link` says that the address
\* carries a setup code.
TypeOK ==
    /\ ui \in [checking : BOOLEAN, loggedIn : BOOLEAN, role : {"student", "admin"},
               tab : ActiveTab, canScan : BOOLEAN, serverRole : {"STUDENT", "ADMIN", "SUPER_ADMIN"},
               stored : SUBSET ActiveTab, link : BOOLEAN,
               mode : {"login", "activate", "reset"}, resetBy : {"dob", "code"}, fromLink : BOOLEAN]
    /\ calls \in [CallId -> Call \cup {NoCall}]

\* `requestedTab`
OpensOn(shortcut, stored) ==
    IF shortcut # {} THEN shortcut ELSE IF stored # {} THEN stored ELSE {"home"}

\* The page just loaded: `checkSession` asks for a session and its profile,
\* one request here, and nothing is remembered but what is stored.
Fresh(shortcut, stored, link) ==
    [checking : {TRUE}, loggedIn : {FALSE}, role : {"student"},
     tab : OpensOn(shortcut, stored), canScan : {FALSE}, serverRole : {"STUDENT"},
     stored : {stored}, link : {link}, mode : {"login"}, resetBy : {"dob"}, fromLink : {FALSE}]

CheckSession(shortcut, i) ==
    [c \in CallId |-> IF c = i THEN [kind |-> "session", shortcut |-> shortcut] ELSE NoCall]

Shortcuts == {{}, {"calendar"}, {"qr"}}

\* Tabs an earlier visit may have left: none, a student's, an administrator's.
Init ==
    \E i \in CallId, shortcut \in Shortcuts, link \in BOOLEAN,
       stored \in {{}, {"bill"}, {"admin-menu"}} :
        /\ ui \in Fresh(shortcut, stored, link)
        /\ calls = CheckSession(shortcut, i)

\* Reloading, by hand or by a shortcut of the installed app.
Reload(i, shortcut) ==
    /\ ui' \in Fresh(shortcut, ui.stored, ui.link)
    /\ calls' = CheckSession(shortcut, i)

\* The session was restored: the shell is set up in one go.
SessionRestored(i, account) ==
    /\ calls[i].kind = "session"
    /\ \E tab \in IF RoleOf(account) = "student" /\ calls[i].shortcut # {}
                  THEN calls[i].shortcut ELSE {HomeOf(RoleOf(account))} :
         ui' = [ui EXCEPT !.checking = FALSE, !.loggedIn = TRUE,
                          !.role = RoleOf(account), !.tab = tab,
                          !.canScan = account = "COMMITTEE",
                          !.serverRole = IF account = "COMMITTEE" THEN "STUDENT" ELSE account]
    /\ calls' = [calls EXCEPT ![i] = NoCall]

\* The sign-in form as it appears: a link in the address fills it in for an
\* activation and is taken out of the address.
FormAppears(screen) ==
    [screen EXCEPT !.link = FALSE, !.fromLink = screen.link, !.resetBy = "dob",
                   !.mode = IF screen.link THEN "activate" ELSE "login"]

\* No session, or one whose profile could not be had, which also forgets the
\* stored tab.
SessionRefused(i, restored) ==
    /\ calls[i].kind = "session"
    /\ ui' = FormAppears([ui EXCEPT !.checking = FALSE,
                                    !.stored = IF restored THEN {} ELSE @])
    /\ calls' = [calls EXCEPT ![i] = NoCall]

(* ---- the sign-in form ---- *)

FormOpen == ~ui.checking /\ ~ui.loggedIn
FormBusy == \E i \in CallId : calls[i].kind \in {"setPassword", "login", "verify"}

SwitchMode(mode) ==
    /\ FormOpen
    /\ \/ ui.mode = "login" /\ mode \in {"activate", "reset"}
       \/ ui.mode # "login" /\ mode = "login"
       \/ ui.mode = "activate" /\ ~ui.fromLink /\ mode = "reset"
    /\ ui' = [ui EXCEPT !.mode = mode]
    /\ UNCHANGED calls

SwitchResetBy ==
    /\ FormOpen /\ ui.mode = "reset"
    /\ ui' = [ui EXCEPT !.resetBy = IF @ = "dob" THEN "code" ELSE "dob"]
    /\ UNCHANGED calls

\* A password too short, or repeated wrongly, goes no further than the form.
Submit(i) ==
    /\ FormOpen /\ ~FormBusy
    /\ calls[i] = NoCall
    /\ calls' = [calls EXCEPT ![i] =
                   IF ui.mode = "login" THEN [kind |-> "login"]
                   ELSE [kind |-> "setPassword", mode |-> ui.mode]]
    /\ UNCHANGED ui

\* After a reset the form asks for a sign-in; an activation goes on to it.
PasswordSet(i) ==
    /\ calls[i].kind = "setPassword"
    /\ \/ /\ calls[i].mode = "reset"
          /\ ui' = [ui EXCEPT !.mode = "login"]
          /\ calls' = [calls EXCEPT ![i] = NoCall]
       \/ /\ calls[i].mode = "activate"
          /\ calls' = [calls EXCEPT ![i] = [kind |-> "login"]]
          /\ UNCHANGED ui

LoggedIn(i, account) ==
    /\ calls[i].kind = "login"
    /\ calls' = [calls EXCEPT ![i] = [kind |-> "verify", account |-> account]]
    /\ UNCHANGED ui

FormFails(i) ==
    /\ calls[i].kind \in {"setPassword", "login", "verify"}
    /\ calls' = [calls EXCEPT ![i] = NoCall]
    /\ UNCHANGED ui

\* `handleLoginSuccess`: the shell appears, on whatever tab is current, and
\* asks for the profile once more.  The form is gone.
Verified(i) ==
    /\ calls[i].kind = "verify"
    /\ ui' = [ui EXCEPT !.loggedIn = TRUE, !.role = RoleOf(calls[i].account)]
    /\ calls' = [calls EXCEPT ![i].kind = "profile"]

\* The rest of it, when the profile lands or fails, whoever is signed in now.
\* A student's answer says whether they scan, an administrator's which role.
ProfileLands(i, ok) ==
    /\ calls[i].kind = "profile"
    /\ LET account == calls[i].account
           home == HomeOf(RoleOf(account)) IN
       ui' = [ui EXCEPT
                !.tab = home, !.stored = {home},
                !.canScan = IF RoleOf(account) = "student" /\ ok
                            THEN account = "COMMITTEE" ELSE @,
                !.serverRole = IF RoleOf(account) = "admin"
                               THEN IF ok THEN account ELSE "ADMIN" ELSE @]
    /\ calls' = [calls EXCEPT ![i] = NoCall]

(* ---- signed in ---- *)

OpenTab(tab) ==
    /\ ui.loggedIn
    /\ tab \in Offered(ui.role, ui.canScan) \ {ui.tab}
    /\ ui' = [ui EXCEPT !.tab = tab, !.stored = {tab}]
    /\ UNCHANGED calls

\* Signing out succeeds on the screen whatever becomes of its request.
Logout ==
    /\ ui.loggedIn
    /\ ui' = FormAppears([ui EXCEPT !.loggedIn = FALSE, !.role = "student", !.tab = "home",
                                    !.canScan = FALSE, !.serverRole = "STUDENT", !.stored = {}])
    /\ UNCHANGED calls

Next ==
    \/ \E i \in CallId :
         \/ \E shortcut \in Shortcuts : Reload(i, shortcut)
         \/ \E account \in Account : SessionRestored(i, account) \/ LoggedIn(i, account)
         \/ \E restored \in BOOLEAN : SessionRefused(i, restored)
         \/ \E ok \in BOOLEAN : ProfileLands(i, ok)
         \/ Submit(i) \/ PasswordSet(i) \/ FormFails(i) \/ Verified(i)
    \/ \E mode \in {"login", "activate", "reset"} : SwitchMode(mode)
    \/ \E tab \in ActiveTab : OpenTab(tab)
    \/ SwitchResetBy \/ Logout

Spec == Init /\ [][Next]_vars

(* ---- properties ---- *)

\* Someone signed in sees a view, of their own role, on every tab they can
\* reach, in whatever order logins, logouts and late profiles follow each
\* other: the shell is blank at most while a profile is still to land.
NeverBlank ==
    /\ ui.loggedIn /\ (\A i \in CallId : calls[i].kind # "profile")
    => View(ui.role, ui.tab, ui.canScan) # {}

=============================================================================
