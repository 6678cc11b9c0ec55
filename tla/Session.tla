------------------------------- MODULE Session -------------------------------
(***************************************************************************)
(* The sessions of one account, in one browser: the refresh cookie its     *)
(* tabs share, the access token each tab keeps in memory, the requests and *)
(* token refreshes in flight (services/api.ts), and the rows and columns   *)
(* of the server that decide about them (auth_service.py, dependencies.py, *)
(* operations.py).                                                         *)
(*                                                                         *)
(* A login or a refresh issues one pair, an access and a refresh token.    *)
(* The network may lose a request, or the answer to one already executed,  *)
(* and a refresh or a logout the page gave up on may be executed later.  A *)
(* refusal changes nothing on the server, so deciding and delivering it is *)
(* one step.  Whatever issues or revokes tokens locks the users row first, *)
(* and so is one step too.                                                 *)
(***************************************************************************)
EXTENDS Naturals, FiniteSets

CONSTANTS
    Tab,        \* tabs of the browser
    CallId,     \* bound: requests in flight at a time
    MaxPair,    \* bound: token pairs issued
    MaxVersion  \* bound: session_version

VARIABLES
    ui,     \* per tab, [signedIn, checking, access]
    calls,  \* the requests, and what the server did of each
    srv     \* the server's rows, the cookie jar, the refreshes in flight, and the
            \* refreshes and logouts nobody waits for any more

vars == <<ui, calls, srv>>

(***************************************************************************)
(* A token pair: its number, session_version when its session logged in    *)
(* (`login`, for the properties; a refresh hands it on) and the version    *)
(* its access token carries (`sv`).                                        *)
(***************************************************************************)
Pair == [n : 1..MaxPair, login : 0..MaxVersion, sv : 0..MaxVersion]
Status == {"ACTIVE", "SUSPENDED"}

\* A request of tab `tab` carries a token or none.  It is sent a first time,
\* perhaps `waiting` for restoreSession and sent a second time; `ran` is one
\* the server has executed and whose answer is still to come.
NoCall == [phase |-> "none"]
Request == [phase : {"first", "waiting", "second", "ran"}, tab : Tab,
            token : SUBSET Pair, runs : Nat]

\* A refresh in flight; `answer` is what the server decided of it, once it has.
Refresh == [by : CallId \cup {"load"}, tab : Tab, cookie : SUBSET Pair,
            answer : {"none", "dead", "suspended", "exchanged"}, pair : SUBSET Pair]

\* A refresh or a logout that the page gave up on and the server may still run;
\* once its cookie is dead it changes nothing and is forgotten.
Stray == [asks : {"refresh", "logout"}, cookie : Pair]

\* What became of a refresh token: still good, ended by a logout or a new
\* password, exchanged by a tab that waited for the answer or has it, or
\* exchanged by a request that was given up on.
Fate == {"good", "ended", "lost"} \cup Tab

TypeOK ==
    /\ ui \in [Tab -> [signedIn : BOOLEAN, checking : BOOLEAN, access : SUBSET Pair]]
    /\ calls \in [CallId -> Request \cup {NoCall}]
    /\ srv \in [status : Status, sv : 0..MaxVersion, resetAt : 0..MaxVersion,
                issued : 0..MaxPair, live : SUBSET Pair, fate : [1..MaxPair -> Fate],
                expired : SUBSET (1..MaxPair), jar : SUBSET Pair, refreshes : SUBSET Refresh,
                stray : SUBSET Stray]

Init ==
    /\ ui = [t \in Tab |-> [signedIn |-> FALSE, checking |-> FALSE, access |-> {}]]
    /\ calls = [c \in CallId |-> NoCall]
    /\ srv = [status |-> "ACTIVE", sv |-> 0, resetAt |-> 0, issued |-> 0, live |-> {},
              fate |-> [n \in 1..MaxPair |-> "good"], expired |-> {}, jar |-> {},
              refreshes |-> {}, stray |-> {}]

NewPair(login) == [n |-> srv.issued + 1, login |-> login, sv |-> srv.sv]

(* ---- the account ---- *)

\* get_current_user: 401 unless the token is neither expired nor of an older
\* session_version; a suspended account is told so with a 403.
Usable(token) ==
    \E p \in token : p.n \notin srv.expired /\ p.sv = srv.sv

Accepted(token) == srv.status = "ACTIVE" /\ Usable(token)

\* The access token expires long before its refresh token.
Expire(n) ==
    /\ n <= srv.issued /\ n \notin srv.expired
    /\ srv' = [srv EXCEPT !.expired = @ \cup {n}]
    /\ UNCHANGED <<ui, calls>>

Suspend ==
    /\ srv.status = "ACTIVE"
    /\ srv.sv < MaxVersion
    /\ srv' = [srv EXCEPT !.status = "SUSPENDED", !.sv = @ + 1]
    /\ UNCHANGED <<ui, calls>>

Reinstate ==
    /\ srv.status = "SUSPENDED"
    /\ srv' = [srv EXCEPT !.status = "ACTIVE"]
    /\ UNCHANGED <<ui, calls>>

\* Tokens are revoked, and with them what strays with their cookies.
Revoked(tokens) ==
    [srv EXCEPT !.live = @ \ tokens, !.stray = {x \in @ : x.cookie \notin tokens}]

Ended(fate, pairs) ==
    [n \in 1..MaxPair |-> IF \E p \in pairs : p.n = n THEN "ended" ELSE fate[n]]

\* Slip: only the access tokens end with the old password.
ResetPasswordKeepingRefresh ==
    /\ srv.status = "ACTIVE"
    /\ srv.sv < MaxVersion
    /\ srv' = [srv EXCEPT !.sv = @ + 1, !.resetAt = srv.sv + 1]
    /\ UNCHANGED <<ui, calls>>

\* Setting a password revokes every refresh token of the account.
ResetPassword ==
    /\ srv.status = "ACTIVE"
    /\ srv.sv < MaxVersion
    /\ srv' = [Revoked(srv.live) EXCEPT !.sv = @ + 1, !.resetAt = srv.sv + 1,
                                        !.fate = Ended(@, srv.live)]
    /\ UNCHANGED <<ui, calls>>

(* ---- signing in and out ---- *)

Login(t) ==
    /\ ~ui[t].signedIn /\ ~ui[t].checking
    /\ srv.status = "ACTIVE"
    /\ srv.issued < MaxPair
    /\ LET p == NewPair(srv.sv) IN
         /\ srv' = [srv EXCEPT !.issued = p.n, !.live = @ \cup {p}, !.jar = {p}]
         /\ ui' = [ui EXCEPT ![t].signedIn = TRUE, ![t].access = {p}]
    /\ UNCHANGED calls

Strays(asks, cookies) == {[asks |-> asks, cookie |-> p] : p \in cookies}

\* `reached` says whether the answer came; the tab signs out anyway.
Logout(t, reached) ==
    /\ ui[t].signedIn
    /\ ui' = [ui EXCEPT ![t].signedIn = FALSE, ![t].access = {}]
    /\ srv' = IF reached
              THEN [Revoked(srv.jar) EXCEPT !.jar = {}, !.fate = Ended(@, srv.jar \cap srv.live)]
              ELSE [srv EXCEPT !.stray = @ \cup Strays("logout", srv.jar \cap srv.live)]
    /\ UNCHANGED calls

(* ---- refreshing ---- *)

\* Slip: every caller sends a refresh of its own.
RestoreSessionEach(t, by, server) ==
    [server EXCEPT !.refreshes =
        @ \cup {[by |-> by, tab |-> t, cookie |-> server.jar, answer |-> "none", pair |-> {}]}]

\* `restoreSession`: a second caller of the same page joins the refresh in
\* flight.
RestoreSession(t, by, server) ==
    IF \E r \in server.refreshes : r.tab = t
    THEN server
    ELSE [server EXCEPT !.refreshes =
            @ \cup {[by |-> by, tab |-> t, cookie |-> server.jar,
                    answer |-> "none", pair |-> {}]}]

\* The cookie a browser holds when it gives up on refreshes: it may or may not
\* have stored the one in an answer that was on its way.
Jars(server, gone) == {server.jar} \cup ({r.pair : r \in gone} \ {{}})

\* Nobody waits for these refreshes any more: what they exchanged is lost, and
\* those the server has not seen yet may still reach it.
Unheard(server, gone, jar) ==
    [server EXCEPT
        !.refreshes = @ \ gone,
        !.jar = jar,
        !.stray = @ \cup UNION {Strays("refresh", r.cookie \cap server.live) :
                                r \in {g \in gone : g.answer = "none"}},
        !.fate = [n \in 1..MaxPair |->
                    IF \E r \in gone : r.pair # {} /\ \E p \in r.cookie : p.n = n
                    THEN "lost" ELSE @[n]]]

\* A page that is loaded again forgets its requests and its access token, and
\* asks for a session before it shows anything.
Reload(t) ==
    /\ ui' = [ui EXCEPT ![t] = [signedIn |-> FALSE, checking |-> TRUE, access |-> {}]]
    /\ calls' = [c \in CallId |->
                   IF calls[c] # NoCall /\ calls[c].tab = t THEN NoCall ELSE calls[c]]
    /\ LET gone == {r \in srv.refreshes : r.tab = t} IN
       \E jar \in Jars(srv, gone) : srv' = RestoreSession(t, "load", Unheard(srv, gone, jar))

Answered(r, answer, pair) ==
    (srv.refreshes \ {r}) \cup {[r EXCEPT !.answer = answer, !.pair = pair]}

\* `refresh_tokens` refuses a cookie that is missing or no longer live, and a
\* suspended account; the mark it puts on the token before raising is rolled
\* back with the request.
RefuseRefresh(r) ==
    /\ r.answer = "none"
    /\ \/ r.cookie \cap srv.live = {}
       \/ srv.status # "ACTIVE"
    /\ srv' = [srv EXCEPT !.refreshes =
                 Answered(r, IF r.cookie \cap srv.live = {} THEN "dead" ELSE "suspended", {})]
    /\ UNCHANGED <<ui, calls>>

\* Rotation: the old token is revoked, a new pair of the same session issued.
RotateRefresh(r) ==
    /\ r.answer = "none"
    /\ srv.status = "ACTIVE"
    /\ srv.issued < MaxPair
    /\ \E old \in r.cookie \cap srv.live :
         LET new == NewPair(old.login) IN
         srv' = [Revoked({old}) EXCEPT !.issued = new.n,
                                       !.live = @ \cup {new},
                                       !.fate[old.n] = r.tab,
                                       !.refreshes = Answered(r, "exchanged", {new})]
    /\ UNCHANGED <<ui, calls>>

\* When the page hears of its refresh every request waiting for it goes on:
\* sent again with the new token, or failed.
Resume(t, token, ok) ==
    [c \in CallId |->
        IF calls[c] # NoCall /\ calls[c].tab = t /\ calls[c].phase = "waiting"
        THEN IF ok THEN [calls[c] EXCEPT !.phase = "second", !.token = token] ELSE NoCall
        ELSE calls[c]]

\* The answer lands.  A refusal forgets the access token; a new pair replaces
\* it and the cookie.  On load this decides whether the page shows the app.
RefreshLands(r) ==
    /\ r.answer # "none"
    /\ ui' = [ui EXCEPT ![r.tab].access = r.pair, ![r.tab].checking = FALSE,
                        ![r.tab].signedIn = IF ui[r.tab].checking THEN r.pair # {} ELSE @]
    /\ srv' = [srv EXCEPT !.refreshes = @ \ {r}, !.jar = IF r.pair # {} THEN r.pair ELSE @]
    /\ calls' = Resume(r.tab, r.pair, r.pair # {})

\* No answer within 15 seconds: the page gives up, its access token as it was.
RefreshLost(r) ==
    /\ ui' = [ui EXCEPT ![r.tab].checking = FALSE]
    /\ \E jar \in Jars(srv, {r}) : srv' = Unheard(srv, {r}, jar)
    /\ calls' = Resume(r.tab, {}, FALSE)

\* A refresh given up on reaches the server after all and takes the cookie; the
\* browser may still store the new one.
StrayRefresh(p) ==
    /\ [asks |-> "refresh", cookie |-> p] \in srv.stray
    /\ srv.status = "ACTIVE"
    /\ srv.issued < MaxPair
    /\ LET new == NewPair(p.login) IN
       \E jar \in {srv.jar, {new}} :
         srv' = [Revoked({p}) EXCEPT !.issued = new.n,
                                     !.live = @ \cup {new},
                                     !.fate[p.n] = "lost",
                                     !.jar = jar]
    /\ UNCHANGED <<ui, calls>>

\* A logout given up on, the same.
StrayLogout(p) ==
    /\ [asks |-> "logout", cookie |-> p] \in srv.stray
    /\ \E jar \in {srv.jar, {}} :
         srv' = [Revoked({p}) EXCEPT !.jar = jar, !.fate = Ended(@, {p})]
    /\ UNCHANGED <<ui, calls>>

(* ---- requests ---- *)

\* A signed-in screen asks the server to change something.
Send(c, t) ==
    /\ ui[t].signedIn
    /\ calls[c] = NoCall
    /\ calls' = [calls EXCEPT ![c] = [phase |-> "first", tab |-> t,
                                      token |-> ui[t].access, runs |-> 0]]
    /\ UNCHANGED <<ui, srv>>

OnItsWay(c) == calls[c].phase \in {"first", "second"}

Execute(c) ==
    /\ OnItsWay(c)
    /\ Accepted(calls[c].token)
    /\ calls' = [calls EXCEPT ![c].phase = "ran", ![c].runs = @ + 1]
    /\ UNCHANGED <<ui, srv>>

\* 401, only before the handler runs.  The first time the request is sent
\* again, with the token another request has obtained meanwhile or after a
\* refresh; the second time it fails.
Unauthorized(c) ==
    /\ OnItsWay(c)
    /\ ~Usable(calls[c].token)
    /\ calls[c].token = {} \/ srv.status = "ACTIVE"
    /\ LET t == calls[c].tab IN
       \/ /\ calls[c].phase = "second"
          /\ calls' = [calls EXCEPT ![c] = NoCall]
          /\ UNCHANGED srv
       \/ /\ calls[c].phase = "first"
          /\ ui[t].access # {} /\ ui[t].access # calls[c].token
          /\ calls' = [calls EXCEPT ![c].phase = "second", ![c].token = ui[t].access]
          /\ UNCHANGED srv
       \/ /\ calls[c].phase = "first"
          /\ ui[t].access = {} \/ ui[t].access = calls[c].token
          /\ calls' = [calls EXCEPT ![c].phase = "waiting"]
          /\ srv' = RestoreSession(t, c, srv)
    /\ UNCHANGED ui

\* Slip: an answer that never came is taken for a 401 and the request sent again.
SettlesRetrying(c) ==
    /\ calls[c] # NoCall
    /\ calls' = [calls EXCEPT ![c] = IF @.phase = "ran" THEN [@ EXCEPT !.phase = "second"]
                                     ELSE NoCall]
    /\ UNCHANGED <<ui, srv>>

\* The answer, a 403 for a suspended account, or nothing at all for 15
\* seconds: whatever it was, the request is not sent again.  (One that was given
\* up on may still be executed, once; nothing here depends on it.)
Settles(c) ==
    /\ OnItsWay(c) \/ calls[c].phase = "ran"
    /\ calls' = [calls EXCEPT ![c] = NoCall]
    /\ UNCHANGED <<ui, srv>>

Next ==
    \/ \E n \in 1..MaxPair : Expire(n)
    \/ Suspend \/ Reinstate \/ ResetPassword
    \/ \E t \in Tab : Login(t) \/ Reload(t) \/ \E reached \in BOOLEAN : Logout(t, reached)
    \/ \E r \in srv.refreshes :
         RefuseRefresh(r) \/ RotateRefresh(r) \/ RefreshLands(r) \/ RefreshLost(r)
    \/ \E p \in srv.live : StrayRefresh(p) \/ StrayLogout(p)
    \/ \E c \in CallId :
         \/ \E t \in Tab : Send(c, t)
         \/ Execute(c) \/ Unauthorized(c) \/ Settles(c)

Spec == Init /\ [][Next]_vars

(* ---- properties ---- *)

\* A write that was retried by the client is executed at most once: only a
\* 401, which precedes the handler, is ever retried.
ExecutedAtMostOnce == \A c \in CallId : calls[c] # NoCall => calls[c].runs <= 1

\* A page whose refresh is refused was not refused by a refresh it was itself
\* waiting for, or had an answer to: the requests of one page never exchange the
\* same cookie twice.  (An exchange it gave up on, by a reload or after 15
\* seconds, is another matter: it may still take the cookie the page sends again.)
RefusedOnlyForCause ==
    \A r \in srv.refreshes : r.answer = "dead" =>
        \A p \in r.cookie : srv.fate[p.n] # r.tab

\* Setting a password ends every session begun before it: no access token of
\* one is accepted any more and no refresh token of one can be exchanged.
ResetEndsSessions ==
    /\ \A t \in Tab : Accepted(ui[t].access) => \A p \in ui[t].access : p.login >= srv.resetAt
    /\ \A p \in srv.live : p.login >= srv.resetAt

=============================================================================
