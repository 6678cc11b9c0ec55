---------------------------- MODULE SessionProofs -----------------------------
(***************************************************************************)
(* The sessions and the shell. For any number of tabs, requests, token     *)
(* pairs and versions a request is executed once, a page is not refused by *)
(* a refresh it waits for, and a new password ends what was begun before   *)
(* it. The invariant keeps the books of the token pairs: which are issued, *)
(* which are still in an answer that has not landed, which page exchanged  *)
(* the one in the jar, and what strays with a cookie.                      *)
(***************************************************************************)
EXTENDS Frontend, TLAPS

------------------------------------------------------------------------------
(* ---- typing ---- *)

SessionTokens == SUBSET Sessions!Pair
SessionNumbers == SUBSET (1..MaxPair)
SessionFates == [1..MaxPair -> Sessions!Fate]
SessionTab == [signedIn : BOOLEAN, checking : BOOLEAN, access : SessionTokens]
SessionScreen == [Tab -> SessionTab]
SessionRequest ==
    [phase : {"first", "waiting", "second", "ran"}, tab : Tab, token : SessionTokens, runs : Nat]
SessionCalls == [CallId -> SessionRequest \cup {Sessions!NoCall}]
SessionRefresh ==
    [by : CallId \cup {"load"}, tab : Tab, cookie : SessionTokens,
     answer : {"none", "dead", "suspended", "exchanged"}, pair : SessionTokens]
SessionRefreshes == SUBSET SessionRefresh
SessionStrays == SUBSET Sessions!Stray
SessionVersions == 0..MaxVersion
SessionIssued == 0..MaxPair
SessionServer ==
    [status : Sessions!Status, sv : SessionVersions, resetAt : SessionVersions,
     issued : SessionIssued, live : SessionTokens, fate : SessionFates,
     expired : SessionNumbers, jar : SessionTokens, refreshes : SessionRefreshes,
     stray : SessionStrays]

\* The typing of the sessions, with names for its sets.
LEMMA SessionTyped ==
    Sessions!TypeOK <=> ui \in SessionScreen /\ calls \in SessionCalls /\ srv \in SessionServer
  BY DEF Sessions!TypeOK, Sessions!Request, Sessions!Refresh, SessionScreen, SessionTab,
     SessionCalls,
     SessionRequest, SessionServer, SessionRefreshes, SessionRefresh, SessionStrays, SessionTokens,
     SessionNumbers, SessionFates, SessionVersions, SessionIssued

\* What the typing of the server's record says of its parts.
LEMMA ServerParts ==
    ASSUME NEW s \in SessionServer
    PROVE  /\ s.sv \in Nat /\ s.resetAt \in Nat /\ s.issued \in Nat
           /\ s.sv \in SessionVersions /\ s.resetAt \in SessionVersions
             /\ s.issued \in SessionIssued
           /\ s.issued <= MaxPair /\ s.sv <= MaxVersion
           /\ s.live \in SessionTokens /\ s.jar \in SessionTokens
           /\ s.expired \in SessionNumbers
           /\ s.fate \in SessionFates
           /\ s.refreshes \in SessionRefreshes
           /\ s.stray \in SessionStrays
           /\ \A x \in s.stray :
                x \in Sessions!Stray /\ x.cookie \in Sessions!Pair /\ x.cookie.n \in 1..MaxPair
           /\ \A r \in s.refreshes :
                r \in SessionRefresh /\ r.tab \in Tab /\ r.cookie \in SessionTokens
                  /\ r.pair \in SessionTokens
           /\ \A p \in s.live \cup s.jar : p \in Sessions!Pair /\ p.n \in 1..MaxPair
           /\ \A r \in s.refreshes : \A p \in r.cookie \cup r.pair :
                p \in Sessions!Pair /\ p.n \in 1..MaxPair
<1>1. /\ s.sv \in SessionVersions /\ s.resetAt \in SessionVersions /\ s.issued \in SessionIssued
      /\ s.live \in SessionTokens /\ s.jar \in SessionTokens /\ s.expired \in SessionNumbers
      /\ s.fate \in SessionFates /\ s.refreshes \in SessionRefreshes
      /\ s.stray \in SessionStrays
  BY DEF SessionServer
<1>2. \A r \in s.refreshes :
         r \in SessionRefresh /\ r.tab \in Tab /\ r.cookie \in SessionTokens
           /\ r.pair \in SessionTokens
  BY <1>1 DEF SessionRefreshes, SessionRefresh
<1>3. \A T \in SessionTokens : \A p \in T : p \in Sessions!Pair /\ p.n \in 1..MaxPair
  BY DEF SessionTokens, Sessions!Pair
<1>4. /\ s.sv \in Nat /\ s.resetAt \in Nat /\ s.issued \in Nat
      /\ s.issued <= MaxPair /\ s.sv <= MaxVersion
  BY <1>1, BoundsAssumption DEF SessionVersions, SessionIssued
<1>5. \A x \in s.stray :
         x \in Sessions!Stray /\ x.cookie \in Sessions!Pair /\ x.cookie.n \in 1..MaxPair
  BY <1>1 DEF SessionStrays, Sessions!Stray, Sessions!Pair
<1> QED BY <1>1, <1>2, <1>3, <1>4, <1>5

------------------------------------------------------------------------------
(* ---- what holds of the server's record ---- *)

\* A page has one refresh in flight.
OneRefreshPerTab(s) == \A q, r \in s.refreshes : q.tab = r.tab => q = r

\* An exchange, and nothing else, answers with a pair.
ExchangedHasPair(s) == \A r \in s.refreshes : r.answer = "exchanged" <=> r.pair # {}

\* Pairs are numbered as they are issued, and nothing has become of a number
\* still to be issued.
NumbersIssued(s) ==
    /\ \A p \in s.live \cup s.jar : p.n <= s.issued
    /\ \A r \in s.refreshes : \A p \in r.cookie \cup r.pair : p.n <= s.issued
    /\ \A x \in s.stray : x.cookie.n <= s.issued
    /\ \A n \in 1..MaxPair : n > s.issued => s.fate[n] = "good"

\* A pair whose answer has not landed is in no cookie, that of a request given
\* up on included, and nobody exchanged it.
UndeliveredIsFresh(s) ==
    \A r \in s.refreshes : \A q \in r.pair :
        /\ s.fate[q.n] \in {"good", "ended"}
        /\ \A p \in s.jar : p.n # q.n
        /\ \A x \in s.stray : x.cookie.n # q.n
        /\ \A o \in s.refreshes : \A p \in o.cookie : p.n # q.n
        /\ \A o \in s.refreshes \ {r} : \A p \in o.pair : p.n # q.n

\* A refresh that was not answered with a pair did not exchange its cookie,
\* and neither did its page before it.
NotByItself(s) ==
    \A r \in s.refreshes : r.answer # "exchanged" => \A p \in r.cookie : s.fate[p.n] # r.tab

\* A token still in the jar that a page exchanged is the one of an answer that
\* is still to land there.
ExchangeInFlight(s) ==
    \A p \in s.jar, t \in Tab : s.fate[p.n] = t =>
        \E r \in s.refreshes : r.tab = t /\ r.answer = "exchanged" /\ \E q \in r.cookie : q.n = p.n

Books(s) ==
    /\ OneRefreshPerTab(s)
    /\ ExchangedHasPair(s)
    /\ NumbersIssued(s)
    /\ UndeliveredIsFresh(s)
    /\ NotByItself(s)
    /\ ExchangeInFlight(s)

\* A pair is of an older session_version, or of a session begun since the
\* password was last set.
CurrentOrOld(p, s) == p.sv <= s.sv /\ (p.sv = s.sv => p.login >= s.resetAt)

Versions(s) ==
    /\ s.resetAt <= s.sv
    /\ \A p \in s.live : p.login >= s.resetAt
    /\ \A r \in s.refreshes : \A p \in r.pair : CurrentOrOld(p, s)
    /\ \A r \in s.refreshes : \A p, q \in r.pair : p = q

\* The same of the access token a page holds, of which there is one.
AccessIsCurrent(t) ==
    /\ \A p \in ui[t].access : CurrentOrOld(p, srv)
    /\ \A p, q \in ui[t].access : p = q

\* A request runs once it is on its way no more.
NotYetRun ==
    \A c \in CallId : calls[c] # Sessions!NoCall =>
        calls[c].runs <= 1 /\ (calls[c].phase # "ran" => calls[c].runs = 0)

SessionInv ==
    /\ ui \in SessionScreen
    /\ calls \in SessionCalls
    /\ srv \in SessionServer
    /\ Books(srv)
    /\ Versions(srv)
    /\ \A t \in Tab : AccessIsCurrent(t)
    /\ NotYetRun

\* The three properties follow from the invariant.
LEMMA SessionProperties ==
    ASSUME SessionInv
    PROVE  /\ Sessions!ExecutedAtMostOnce
           /\ Sessions!RefusedOnlyForCause
           /\ Sessions!ResetEndsSessions
<1>1. Sessions!ExecutedAtMostOnce
  BY DEF SessionInv, NotYetRun, Sessions!ExecutedAtMostOnce
<1>2. Sessions!RefusedOnlyForCause
  BY DEF SessionInv, Books, NotByItself, Sessions!RefusedOnlyForCause
<1>3. ASSUME NEW t \in Tab, Sessions!Accepted(ui[t].access), NEW p \in ui[t].access
      PROVE  p.login >= srv.resetAt
  <2>1. PICK q \in ui[t].access : q.sv = srv.sv
    BY <1>3 DEF Sessions!Accepted, Sessions!Usable
  <2>2. p = q /\ CurrentOrOld(q, srv)
    BY <2>1 DEF SessionInv, AccessIsCurrent
  <2> QED BY <2>1, <2>2 DEF CurrentOrOld
<1>4. \A p \in srv.live : p.login >= srv.resetAt
  BY DEF SessionInv, Versions
<1> QED BY <1>1, <1>2, <1>3, <1>4 DEF Sessions!ResetEndsSessions

\* The invariant holds when no tab is signed in yet.
LEMMA SessionInit == ASSUME Sessions!Init PROVE SessionInv
<1>1. {} \in SessionTokens /\ {} \in SessionNumbers /\ {} \in SessionRefreshes
      /\ {} \in SessionStrays
      /\ 0 \in SessionVersions /\ 0 \in SessionIssued
      /\ [n \in 1..MaxPair |-> "good"] \in SessionFates
  BY BoundsAssumption DEF SessionTokens, SessionNumbers, SessionRefreshes, SessionStrays,
     SessionVersions, SessionIssued, SessionFates, Sessions!Fate
<1>2. ui \in SessionScreen /\ \A t \in Tab : ui[t].access = {}
  BY <1>1 DEF Sessions!Init, SessionScreen, SessionTab
<1>3. calls \in SessionCalls /\ \A c \in CallId : calls[c] = Sessions!NoCall
  BY DEF Sessions!Init, SessionCalls
<1>4. /\ srv.sv = 0 /\ srv.resetAt = 0 /\ srv.issued = 0 /\ srv.live = {} /\ srv.jar = {}
      /\ srv.refreshes = {} /\ srv.stray = {} /\ \A n \in 1..MaxPair : srv.fate[n] = "good"
  BY DEF Sessions!Init
<1>5. srv \in SessionServer
  BY <1>1 DEF Sessions!Init, SessionServer, Sessions!Status
<1>6. Books(srv)
  BY <1>4 DEF Books, OneRefreshPerTab, ExchangedHasPair, NumbersIssued, UndeliveredIsFresh,
     NotByItself, ExchangeInFlight
<1>7. Versions(srv)
  BY <1>4 DEF Versions
<1> QED BY <1>2, <1>3, <1>5, <1>6, <1>7 DEF SessionInv, AccessIsCurrent, NotYetRun

------------------------------------------------------------------------------
(* ---- the operators the steps are built from ---- *)

\* A refresh is asked for by a page that has none in flight, with the jar's
\* cookie: none of its own exchanges took it, for their answers have landed.
LEMMA RestoreSessionKeeps ==
    ASSUME NEW s \in SessionServer, Books(s), Versions(s),
           NEW t \in Tab, NEW by \in CallId \cup {"load"}
    PROVE  LET new == Sessions!RestoreSession(t, by, s) IN
           /\ new \in SessionServer /\ Books(new) /\ Versions(new)
           /\ new.sv = s.sv /\ new.resetAt = s.resetAt
<1> DEFINE r == [by |-> by, tab |-> t, cookie |-> s.jar, answer |-> "none", pair |-> {}]
           new == [s EXCEPT !.refreshes = s.refreshes \cup {r}]
<1>1. CASE \E q \in s.refreshes : q.tab = t
  BY <1>1 DEF Sessions!RestoreSession
<1>2. CASE ~\E q \in s.refreshes : q.tab = t
  <2>0. Sessions!RestoreSession(t, by, s) = new
    BY <1>2 DEF Sessions!RestoreSession
  <2>1. {} \in SessionTokens /\ s.jar \in SessionTokens
    BY ServerParts DEF SessionTokens
  <2>2. r \in SessionRefresh /\ r.tab = t /\ r.cookie = s.jar /\ r.answer = "none" /\ r.pair = {}
    BY <2>1 DEF SessionRefresh
  <2>3. s.refreshes \cup {r} \in SessionRefreshes
    BY <2>2, ServerParts DEF SessionRefreshes
  <2>4. /\ new \in SessionServer
        /\ new.sv = s.sv /\ new.resetAt = s.resetAt /\ new.issued = s.issued /\ new.live = s.live
        /\ new.fate = s.fate /\ new.jar = s.jar /\ new.refreshes = s.refreshes \cup {r}
        /\ new.stray = s.stray
    BY <2>3 DEF SessionServer
  <2> HIDE DEF r, new
  <2>5. OneRefreshPerTab(new) /\ ExchangedHasPair(new)
    BY <1>2, <2>2, <2>4 DEF Books, OneRefreshPerTab, ExchangedHasPair
  <2>6. NumbersIssued(new)
    BY <2>2, <2>4 DEF Books, NumbersIssued
  <2>7. UndeliveredIsFresh(new)
    BY <2>2, <2>4 DEF Books, UndeliveredIsFresh
  <2>8. NotByItself(new)
    <3>1. \A p \in s.jar : s.fate[p.n] # t
      BY <1>2 DEF Books, ExchangeInFlight
    <3> QED BY <2>2, <2>4, <3>1 DEF Books, NotByItself
  <2>9. ExchangeInFlight(new)
    BY <2>4 DEF Books, ExchangeInFlight
  <2>10. Versions(new)
    BY <2>2, <2>4 DEF Versions, CurrentOrOld
  <2> QED BY <2>0, <2>4, <2>5, <2>6, <2>7, <2>8, <2>9, <2>10 DEF Books
<1> QED BY <1>1, <1>2

\* Answers that will never land leave their trace in what became of their
\* cookies, and refreshes still to be executed leave theirs astray. What is in
\* the jar was there, or comes from one of those answers.
LEMMA UnheardKeeps ==
    ASSUME NEW s \in SessionServer, Books(s), Versions(s), NEW gone \in SUBSET s.refreshes,
           NEW jar \in Sessions!Jars(s, gone)
    PROVE  LET new == Sessions!Unheard(s, gone, jar) IN
           /\ new \in SessionServer /\ Books(new) /\ Versions(new)
           /\ new.sv = s.sv /\ new.resetAt = s.resetAt
<1> DEFINE Lost(n) == \E r \in gone : r.pair # {} /\ \E p \in r.cookie : p.n = n
           f == [n \in 1..MaxPair |-> IF Lost(n) THEN "lost" ELSE s.fate[n]]
           astray == s.stray \cup UNION {Sessions!Strays("refresh", r.cookie \cap s.live) :
                                        r \in {g \in gone : g.answer = "none"}}
           new == [s EXCEPT !.refreshes = s.refreshes \ gone, !.jar = jar, !.stray = astray,
                            !.fate = f]
<1>0. Sessions!Unheard(s, gone, jar) = new
  BY DEF Sessions!Unheard, SessionServer
<1>a. jar = s.jar \/ \E r \in gone : jar = r.pair
  BY DEF Sessions!Jars
<1>b. jar \in SessionTokens
  BY <1>a, ServerParts
<1>c. \A x \in astray : x \in s.stray \/ \E r \in gone : x.cookie \in r.cookie
  BY DEF Sessions!Strays
<1>d. astray \in SessionStrays
  <2>1. ASSUME NEW r \in gone, NEW x \in Sessions!Strays("refresh", r.cookie \cap s.live)
        PROVE  x \in Sessions!Stray
    <3>1. PICK p \in r.cookie : x = [asks |-> "refresh", cookie |-> p]
      BY DEF Sessions!Strays
    <3>2. p \in Sessions!Pair
      BY ServerParts
    <3> QED BY <3>1, <3>2 DEF Sessions!Stray
  <2>2. \A x \in s.stray : x \in Sessions!Stray
    BY ServerParts
  <2>3. ASSUME NEW x \in astray PROVE x \in Sessions!Stray
    BY <2>1, <2>2
  <2> HIDE DEF astray
  <2> QED BY <2>3 DEF SessionStrays
<1> HIDE DEF astray
<1>1. f \in SessionFates
  BY ServerParts DEF SessionFates, Sessions!Fate
<1>2. s.refreshes \ gone \in SessionRefreshes
  BY ServerParts DEF SessionRefreshes
<1>3. \A n \in 1..MaxPair : f[n] = IF Lost(n) THEN "lost" ELSE s.fate[n]
  OBVIOUS
<1> HIDE DEF f
<1>4. /\ new \in SessionServer
      /\ new.sv = s.sv /\ new.resetAt = s.resetAt /\ new.issued = s.issued /\ new.live = s.live
      /\ new.fate = f /\ new.jar = jar /\ new.refreshes = s.refreshes \ gone
      /\ new.stray = astray
  BY <1>1, <1>2, <1>b, <1>d DEF SessionServer
<1> HIDE DEF new
<1>5. OneRefreshPerTab(new) /\ ExchangedHasPair(new)
  BY <1>4 DEF Books, OneRefreshPerTab, ExchangedHasPair
<1>6. NumbersIssued(new)
  <2>1. ASSUME NEW n \in 1..MaxPair, n > s.issued
        PROVE  f[n] = "good"
    <3>1. ~Lost(n)
      <4>1. \A r \in gone : \A p \in r.cookie : p.n <= s.issued /\ p.n \in Nat
        BY ServerParts DEF Books, NumbersIssued
      <4> QED BY <2>1, <4>1, ServerParts
    <3> QED BY <1>3, <2>1, <3>1 DEF Books, NumbersIssued
  <2>2. \A p \in jar : p.n <= s.issued
    BY <1>a DEF Books, NumbersIssued
  <2>3. \A x \in astray : x.cookie.n <= s.issued
    BY <1>c DEF Books, NumbersIssued
  <2> QED BY <1>4, <2>1, <2>2, <2>3 DEF Books, NumbersIssued
<1>7. UndeliveredIsFresh(new)
  <2>1. ASSUME NEW r \in s.refreshes \ gone, NEW q \in r.pair
        PROVE  f[q.n] \in {"good", "ended"}
    <3>1. ~Lost(q.n)
      BY DEF Books, UndeliveredIsFresh
    <3>2. q.n \in 1..MaxPair
      BY ServerParts
    <3> QED BY <1>3, <3>1, <3>2 DEF Books, UndeliveredIsFresh
  <2>2. ASSUME NEW r \in s.refreshes \ gone, NEW q \in r.pair
        PROVE  /\ \A p \in jar : p.n # q.n
               /\ \A x \in astray : x.cookie.n # q.n
               /\ \A o \in s.refreshes : \A p \in o.cookie : p.n # q.n
               /\ \A o \in s.refreshes \ {r} : \A p \in o.pair : p.n # q.n
    <3>1. /\ \A p \in s.jar : p.n # q.n
          /\ \A x \in s.stray : x.cookie.n # q.n
          /\ \A o \in s.refreshes : \A p \in o.cookie : p.n # q.n
          /\ \A o \in s.refreshes \ {r} : \A p \in o.pair : p.n # q.n
      BY DEF Books, UndeliveredIsFresh
    <3> QED BY <1>a, <1>c, <3>1
  <2> QED BY <1>4, <2>1, <2>2 DEF UndeliveredIsFresh
<1>8. NotByItself(new)
  <2>1. ASSUME NEW r \in s.refreshes \ gone, r.answer # "exchanged", NEW p \in r.cookie
        PROVE  f[p.n] # r.tab
    <3>1. p.n \in 1..MaxPair /\ r.tab \in Tab
      BY ServerParts
    <3>2. s.fate[p.n] # r.tab
      BY <2>1 DEF Books, NotByItself
    <3> QED BY <1>3, <3>1, <3>2, TabAssumption
  <2> QED BY <1>4, <2>1 DEF NotByItself
<1>9. ExchangeInFlight(new)
  <2>1. ASSUME NEW p \in jar, NEW t \in Tab, f[p.n] = t
        PROVE  \E r \in s.refreshes \ gone :
                  r.tab = t /\ r.answer = "exchanged" /\ \E q \in r.cookie : q.n = p.n
    <3>1. p.n \in 1..MaxPair
      BY <1>a, ServerParts
    <3>2. ~Lost(p.n) /\ s.fate[p.n] = t
      BY <1>3, <2>1, <3>1, TabAssumption
    <3>3. p \in s.jar
      <4>1. \A r \in gone : \A q \in r.pair : s.fate[q.n] \notin Tab
        BY TabAssumption DEF Books, UndeliveredIsFresh
      <4> QED BY <1>a, <3>2, <4>1
    <3>4. PICK r \in s.refreshes : r.tab = t /\ r.answer = "exchanged"
            /\ \E q \in r.cookie : q.n = p.n
      BY <3>2, <3>3 DEF Books, ExchangeInFlight
    <3>5. r \notin gone
      BY <3>2, <3>4 DEF Books, ExchangedHasPair
    <3> QED BY <3>4, <3>5
  <2> QED BY <1>4, <2>1 DEF ExchangeInFlight
<1>10. Versions(new)
  BY <1>4 DEF Versions, CurrentOrOld
<1> QED BY <1>0, <1>4, <1>5, <1>6, <1>7, <1>8, <1>9, <1>10 DEF Books

\* Tokens that end belong to nobody.
LEMMA EndedFates ==
    ASSUME NEW f \in SessionFates, NEW S
    PROVE  /\ Sessions!Ended(f, S) \in SessionFates
           /\ \A n \in 1..MaxPair :
                Sessions!Ended(f, S)[n] = IF \E p \in S : p.n = n THEN "ended" ELSE f[n]
  BY DEF Sessions!Ended, SessionFates, Sessions!Fate

\* Ending tokens that were issued keeps the books, whatever becomes of the
\* rows of those that live and of the jar, unless something is put in them.
LEMMA EndingKeeps ==
    ASSUME NEW s \in SessionServer, Books(s), NEW new \in SessionServer, NEW S \in SUBSET s.live,
           new.issued = s.issued, new.refreshes = s.refreshes,
           new.fate = Sessions!Ended(s.fate, S),
           new.live \subseteq s.live, new.jar \subseteq s.jar, new.stray \subseteq s.stray
    PROVE  Books(new)
<1>1. \A n \in 1..MaxPair : new.fate[n] = IF \E p \in S : p.n = n THEN "ended" ELSE s.fate[n]
  BY EndedFates, ServerParts
<1>2. OneRefreshPerTab(new) /\ ExchangedHasPair(new)
  BY DEF Books, OneRefreshPerTab, ExchangedHasPair
<1>3. NumbersIssued(new)
  <2>1. ASSUME NEW n \in 1..MaxPair, n > s.issued
        PROVE  new.fate[n] = "good"
    <3>1. \A p \in S : p.n # n
      BY <2>1, ServerParts DEF Books, NumbersIssued
    <3> QED BY <1>1, <2>1, <3>1 DEF Books, NumbersIssued
  <2> QED BY <2>1 DEF Books, NumbersIssued
<1>4. UndeliveredIsFresh(new)
  <2>1. ASSUME NEW r \in s.refreshes, NEW q \in r.pair
        PROVE  new.fate[q.n] \in {"good", "ended"}
    BY <1>1, ServerParts DEF Books, UndeliveredIsFresh
  <2> QED BY <2>1 DEF Books, UndeliveredIsFresh
<1>5. NotByItself(new)
  BY <1>1, ServerParts, TabAssumption DEF Books, NotByItself
<1>6. ExchangeInFlight(new)
  BY <1>1, ServerParts, TabAssumption DEF Books, ExchangeInFlight
<1> QED BY <1>2, <1>3, <1>4, <1>5, <1>6 DEF Books
------------------------------------------------------------------------------
(* ---- the steps ---- *)

\* The next pair's number is new, and it is of the version that is current.
LEMMA NewPairs ==
    ASSUME NEW s \in SessionServer, s = srv, srv.issued < MaxPair, NEW login \in SessionVersions
    PROVE  LET p == Sessions!NewPair(login) IN
           /\ p \in Sessions!Pair /\ {p} \in SessionTokens
           /\ p.n = srv.issued + 1 /\ p.login = login /\ p.sv = srv.sv
           /\ p.n \in SessionIssued /\ p.n \in 1..MaxPair
<1> DEFINE p == Sessions!NewPair(login)
<1>1. srv.issued \in Nat /\ srv.sv \in SessionVersions
  BY ServerParts
<1>2. srv.issued + 1 \in 1..MaxPair /\ srv.issued + 1 \in SessionIssued
  BY <1>1, BoundsAssumption DEF SessionIssued
<1>3. /\ p \in Sessions!Pair
      /\ p.n = srv.issued + 1 /\ p.login = login /\ p.sv = srv.sv
  BY <1>1, <1>2 DEF Sessions!NewPair, Sessions!Pair, SessionVersions
<1> HIDE DEF p
<1>4. {p} \in SessionTokens
  BY <1>3 DEF SessionTokens
<1> QED BY <1>2, <1>3, <1>4 DEF p

\* Requests that wait for a refresh go on or fail; none of them has run.
LEMMA ResumeKeeps ==
    ASSUME calls \in SessionCalls, NotYetRun, NEW t \in Tab, NEW token \in SessionTokens,
           NEW ok \in BOOLEAN, calls' = Sessions!Resume(t, token, ok)
    PROVE  calls' \in SessionCalls /\ NotYetRun'
<1>1. ASSUME NEW c \in CallId, calls[c] \in SessionRequest
      PROVE  LET d == [calls[c] EXCEPT !.phase = "second", !.token = token] IN
             d \in SessionRequest /\ d.runs = calls[c].runs /\ d.phase = "second"
  BY <1>1 DEF SessionRequest
<1>2. \A c \in CallId : calls[c] \in SessionRequest \cup {Sessions!NoCall}
  BY DEF SessionCalls
<1>3. ASSUME NEW c \in CallId
      PROVE  /\ calls'[c] \in SessionRequest \cup {Sessions!NoCall}
             /\ calls'[c] # Sessions!NoCall =>
                  calls'[c].runs <= 1 /\ (calls'[c].phase # "ran" => calls'[c].runs = 0)
  <2>1. CASE calls[c] # Sessions!NoCall /\ calls[c].tab = t /\ calls[c].phase = "waiting"
    <3>1. CASE ok
      <4>1. calls'[c] = [calls[c] EXCEPT !.phase = "second", !.token = token]
        BY <2>1, <3>1 DEF Sessions!Resume
      <4> QED BY <1>1, <1>2, <2>1, <4>1 DEF NotYetRun
    <3>2. CASE ~ok
      BY <2>1, <3>2 DEF Sessions!Resume
    <3> QED BY <3>1, <3>2
  <2>2. CASE ~(calls[c] # Sessions!NoCall /\ calls[c].tab = t /\ calls[c].phase = "waiting")
    <3>1. calls'[c] = calls[c]
      BY <2>2 DEF Sessions!Resume
    <3> QED BY <1>2, <3>1 DEF NotYetRun
  <2> QED BY <2>1, <2>2
<1>4. calls' = [c \in CallId |-> calls'[c]]
  BY DEF Sessions!Resume
<1>5. calls' \in SessionCalls
  BY <1>3, <1>4 DEF SessionCalls
<1> QED BY <1>3, <1>5 DEF NotYetRun

\* One request is put in, sent again, or done with.
LEMMA RequestKeeps ==
    ASSUME SessionInv, NEW c \in CallId, NEW d \in SessionRequest \cup {Sessions!NoCall},
           d # Sessions!NoCall => d.runs <= 1 /\ (d.phase # "ran" => d.runs = 0),
           calls' = [calls EXCEPT ![c] = d]
    PROVE  calls' \in SessionCalls /\ NotYetRun'
  BY DEF SessionInv, SessionCalls, NotYetRun

\* A request is sent, executed or settled.
LEMMA RequestStep ==
    ASSUME SessionInv, NEW c \in CallId,
           (\E t \in Tab : Sessions!Send(c, t)) \/ Sessions!Execute(c) \/ Sessions!Settles(c)
    PROVE  SessionInv'
<1>0. calls[c] \in SessionRequest \cup {Sessions!NoCall} /\ UNCHANGED <<ui, srv>>
  BY DEF SessionInv, SessionCalls, Sessions!Send, Sessions!Execute, Sessions!Settles
<1>1. PICK d \in SessionRequest \cup {Sessions!NoCall} :
        /\ d # Sessions!NoCall => d.runs <= 1 /\ (d.phase # "ran" => d.runs = 0)
        /\ calls' = [calls EXCEPT ![c] = d]
  <2>1. CASE \E t \in Tab : Sessions!Send(c, t)
    <3>1. PICK t \in Tab : Sessions!Send(c, t)
      BY <2>1
    <3> DEFINE e == [phase |-> "first", tab |-> t, token |-> ui[t].access, runs |-> 0]
    <3>2. ui[t].access \in SessionTokens
      BY DEF SessionInv, SessionScreen, SessionTab
    <3>3. e \in SessionRequest /\ e.runs = 0
      BY <3>2 DEF SessionRequest
    <3>4. calls' = [calls EXCEPT ![c] = e]
      BY <3>1 DEF Sessions!Send
    <3> HIDE DEF e
    <3>5. e \in SessionRequest \cup {Sessions!NoCall} /\ e.runs <= 1 /\ (e.phase # "ran"
            => e.runs = 0)
      BY <3>3
    <3> QED BY <3>4, <3>5
  <2>2. CASE Sessions!Execute(c)
    <3> DEFINE e == [calls[c] EXCEPT !.phase = "ran", !.runs = calls[c].runs + 1]
    <3>1. calls[c] # Sessions!NoCall /\ calls[c].phase \in {"first", "second"}
      BY <2>2 DEF Sessions!Execute, Sessions!OnItsWay, Sessions!NoCall
    <3>2. calls[c] \in SessionRequest /\ calls[c].runs = 0
      <4>1. calls[c].runs = 0
        BY <3>1 DEF SessionInv, NotYetRun
      <4> QED BY <1>0, <3>1, <4>1
    <3>3. e \in SessionRequest /\ e.runs = 1 /\ e.phase = "ran"
      <4>1. e = [calls[c] EXCEPT !.phase = "ran", !.runs = 1]
        BY <3>2
      <4> HIDE DEF e
      <4> QED BY <3>2, <4>1 DEF SessionRequest
    <3>4. calls' = [calls EXCEPT ![c] = e]
      BY <1>0, <2>2 DEF Sessions!Execute, SessionInv, SessionCalls
    <3> HIDE DEF e
    <3>5. e \in SessionRequest \cup {Sessions!NoCall} /\ e.runs <= 1 /\ (e.phase # "ran"
            => e.runs = 0)
      BY <3>3
    <3> QED BY <3>4, <3>5
  <2>3. CASE Sessions!Settles(c)
    <3>1. calls' = [calls EXCEPT ![c] = Sessions!NoCall] /\ Sessions!NoCall \in {Sessions!NoCall}
      BY <2>3 DEF Sessions!Settles
    <3> QED BY <3>1
  <2> QED BY <2>1, <2>2, <2>3
<1>2. calls' \in SessionCalls /\ NotYetRun'
  BY <1>1, RequestKeeps
<1> QED BY <1>0, <1>2 DEF SessionInv, AccessIsCurrent

\* A 401: the request is given up, sent again, or waits for a refresh.
LEMMA UnauthorizedStep ==
    ASSUME SessionInv, NEW c \in CallId, Sessions!Unauthorized(c)
    PROVE  SessionInv'
<1> DEFINE t == calls[c].tab
<1>0. /\ calls[c] \in SessionRequest /\ t \in Tab /\ calls[c].phase \in {"first", "second"}
      /\ calls[c].runs = 0 /\ ui[t].access \in SessionTokens
      /\ UNCHANGED ui
  <2>1. calls[c] # Sessions!NoCall /\ calls[c].phase \in {"first", "second"}
    BY DEF Sessions!Unauthorized, Sessions!OnItsWay, Sessions!NoCall
  <2>2. calls[c] \in SessionRequest /\ t \in Tab
    BY <2>1 DEF SessionInv, SessionCalls, SessionRequest
  <2> QED BY <2>1, <2>2 DEF SessionInv, NotYetRun, SessionScreen, SessionTab, Sessions!Unauthorized
<1>1. PICK d \in SessionRequest \cup {Sessions!NoCall} :
        /\ d # Sessions!NoCall => d.runs <= 1 /\ (d.phase # "ran" => d.runs = 0)
        /\ calls' = [calls EXCEPT ![c] = d]
  <2> DEFINE again == [calls[c] EXCEPT !.phase = "second", !.token = ui[t].access]
             waits == [calls[c] EXCEPT !.phase = "waiting"]
  <2>1. /\ again \in SessionRequest /\ again.runs = 0
        /\ waits \in SessionRequest /\ waits.runs = 0
    BY <1>0 DEF SessionRequest
  <2>2. calls' \in {[calls EXCEPT ![c] = Sessions!NoCall], [calls EXCEPT ![c] = again],
                    [calls EXCEPT ![c] = waits]}
    BY <1>0 DEF Sessions!Unauthorized, SessionInv, SessionCalls
  <2> HIDE DEF again, waits
  <2>3. PICK d \in {Sessions!NoCall, again, waits} : calls' = [calls EXCEPT ![c] = d]
    BY <2>2
  <2>4. d \in SessionRequest \cup {Sessions!NoCall}
        /\ (d # Sessions!NoCall => d.runs <= 1 /\ (d.phase # "ran" => d.runs = 0))
    BY <2>1
  <2> QED BY <2>3, <2>4
<1>2. calls' \in SessionCalls /\ NotYetRun'
  BY <1>1, RequestKeeps
<1>3. srv' = srv \/ srv' = Sessions!RestoreSession(t, c, srv)
  BY DEF Sessions!Unauthorized
<1>4. /\ srv' \in SessionServer /\ Books(srv') /\ Versions(srv')
      /\ srv'.sv = srv.sv /\ srv'.resetAt = srv.resetAt
  BY <1>0, <1>3, RestoreSessionKeeps DEF SessionInv
<1>5. \A u \in Tab : AccessIsCurrent(u)'
  BY <1>0, <1>4 DEF SessionInv, AccessIsCurrent, CurrentOrOld
<1> QED BY <1>0, <1>2, <1>4, <1>5 DEF SessionInv

\* Tokens expire; the account is suspended, reinstated, or given a password.
LEMMA AccountStep ==
    ASSUME SessionInv,
           \/ \E n \in 1..MaxPair : Sessions!Expire(n)
           \/ Sessions!Suspend \/ Sessions!Reinstate \/ Sessions!ResetPassword
    PROVE  SessionInv'
<1>0. srv \in SessionServer /\ UNCHANGED <<ui, calls>>
  BY DEF SessionInv, Sessions!Expire, Sessions!Suspend, Sessions!Reinstate, Sessions!ResetPassword
<1>1. CASE (\E n \in 1..MaxPair : Sessions!Expire(n)) \/ Sessions!Suspend \/ Sessions!Reinstate
  <2>1. /\ srv' \in SessionServer
        /\ srv'.sv \in {srv.sv, srv.sv + 1} /\ srv'.resetAt = srv.resetAt
        /\ srv'.live = srv.live /\ srv'.jar = srv.jar /\ srv'.fate = srv.fate
        /\ srv'.issued = srv.issued /\ srv'.refreshes = srv.refreshes /\ srv'.stray = srv.stray
    <3>1. CASE \E n \in 1..MaxPair : Sessions!Expire(n)
      <4>1. PICK n \in 1..MaxPair : srv' = [srv EXCEPT !.expired = srv.expired \cup {n}]
        BY <1>0, <3>1 DEF Sessions!Expire, SessionServer
      <4>2. srv.expired \cup {n} \in SessionNumbers
        BY <1>0, ServerParts DEF SessionNumbers
      <4> QED BY <1>0, <4>1, <4>2 DEF SessionServer
    <3>2. CASE Sessions!Suspend
      <4>1. srv.sv + 1 \in SessionVersions
        BY <1>0, <3>2, ServerParts, BoundsAssumption DEF Sessions!Suspend, SessionVersions
      <4>2. srv' = [srv EXCEPT !.status = "SUSPENDED", !.sv = srv.sv + 1]
        BY <1>0, <3>2 DEF Sessions!Suspend, SessionServer
      <4> QED BY <1>0, <4>1, <4>2 DEF SessionServer, Sessions!Status
    <3>3. CASE Sessions!Reinstate
      BY <1>0, <3>3 DEF Sessions!Reinstate, SessionServer, Sessions!Status
    <3> QED BY <1>1, <3>1, <3>2, <3>3
  <2>2. Books(srv')
    BY <2>1 DEF SessionInv, Books, OneRefreshPerTab, ExchangedHasPair, NumbersIssued,
       UndeliveredIsFresh, NotByItself, ExchangeInFlight
  <2>3. \A p \in Sessions!Pair : CurrentOrOld(p, srv) => CurrentOrOld(p, srv')
    BY <1>0, <2>1, ServerParts, BoundsAssumption DEF CurrentOrOld, Sessions!Pair
  <2>4. Versions(srv')
    <3>1. srv'.resetAt <= srv'.sv
      BY <1>0, <2>1, ServerParts DEF SessionInv, Versions
    <3> QED BY <1>0, <2>1, <2>3, <3>1, ServerParts DEF SessionInv, Versions
  <2>5. \A t \in Tab : AccessIsCurrent(t)'
    <3>1. \A t \in Tab : \A p \in ui[t].access : p \in Sessions!Pair
      BY DEF SessionInv, SessionScreen, SessionTab, SessionTokens
    <3> QED BY <1>0, <2>3, <3>1 DEF SessionInv, AccessIsCurrent
  <2> QED BY <1>0, <2>1, <2>2, <2>4, <2>5 DEF SessionInv, NotYetRun
<1>2. CASE Sessions!ResetPassword
  <2> DEFINE f == Sessions!Ended(srv.fate, srv.live)
  <2>1. srv.sv + 1 \in SessionVersions /\ srv.sv \in Nat
    BY <1>0, <1>2, ServerParts, BoundsAssumption DEF Sessions!ResetPassword, SessionVersions
  <2> DEFINE astray == {x \in srv.stray : x.cookie \notin srv.live}
  <2>2. f \in SessionFates /\ {} \in SessionTokens /\ astray \in SessionStrays
        /\ astray \subseteq srv.stray
    BY <1>0, EndedFates, ServerParts DEF SessionTokens, SessionStrays
  <2>3. srv' = [srv EXCEPT !.sv = srv.sv + 1, !.resetAt = srv.sv + 1, !.fate = f, !.live = {},
                           !.stray = astray]
    BY <1>0, <1>2 DEF Sessions!ResetPassword, Sessions!Revoked, SessionServer
  <2> HIDE DEF f, astray
  <2>4. /\ srv' \in SessionServer
        /\ srv'.sv = srv.sv + 1 /\ srv'.resetAt = srv.sv + 1
        /\ srv'.live = {} /\ srv'.jar = srv.jar /\ srv'.fate = f
        /\ srv'.issued = srv.issued /\ srv'.refreshes = srv.refreshes /\ srv'.stray = astray
    BY <1>0, <2>1, <2>2, <2>3 DEF SessionServer
  <2>5. Books(srv')
    BY <1>0, <2>2, <2>4, EndingKeeps DEF SessionInv, f
  <2>6. \A p \in Sessions!Pair : CurrentOrOld(p, srv) => CurrentOrOld(p, srv')
    BY <2>1, <2>4, BoundsAssumption DEF CurrentOrOld, Sessions!Pair
  <2>7. Versions(srv')
    BY <1>0, <2>1, <2>4, <2>6, ServerParts DEF SessionInv, Versions
  <2>8. \A t \in Tab : AccessIsCurrent(t)'
    <3>1. \A t \in Tab : \A p \in ui[t].access : p \in Sessions!Pair
      BY DEF SessionInv, SessionScreen, SessionTab, SessionTokens
    <3> QED BY <1>0, <2>6, <3>1 DEF SessionInv, AccessIsCurrent
  <2> QED BY <1>0, <2>4, <2>5, <2>7, <2>8 DEF SessionInv, NotYetRun
<1> QED BY <1>1, <1>2

\* What a page holds after it signs in or out, or hears of a refresh.
LEMMA PageKeeps ==
    ASSUME SessionInv, NEW t \in Tab, NEW page \in SessionTab, ui' = [ui EXCEPT ![t] = page],
           \A p \in page.access : CurrentOrOld(p, srv'),
           \A p, q \in page.access : p = q,
           srv'.sv = srv.sv, srv'.resetAt = srv.resetAt
    PROVE  ui' \in SessionScreen /\ \A u \in Tab : AccessIsCurrent(u)'
<1>1. ui' \in SessionScreen
  BY DEF SessionInv, SessionScreen
<1>2. /\ ui'[t] = page
      /\ \A u \in Tab \ {t} : ui'[u] = ui[u]
  BY DEF SessionInv, SessionScreen
<1>3. \A u \in Tab \ {t} : AccessIsCurrent(u)'
  BY <1>2 DEF SessionInv, AccessIsCurrent, CurrentOrOld
<1>4. AccessIsCurrent(t)'
  BY <1>2 DEF AccessIsCurrent
<1> QED BY <1>1, <1>3, <1>4

\* A login issues a pair whose number nothing in the books has.
LEMMA LoginStep ==
    ASSUME SessionInv, NEW t \in Tab, Sessions!Login(t)
    PROVE  SessionInv'
<1> DEFINE p == Sessions!NewPair(srv.sv)
           page == [ui[t] EXCEPT !.signedIn = TRUE, !.access = {p}]
<1>0. srv \in SessionServer /\ srv.issued < MaxPair /\ UNCHANGED calls /\ ui[t] \in SessionTab
  BY DEF SessionInv, Sessions!Login, SessionScreen
<1>1. /\ p \in Sessions!Pair /\ {p} \in SessionTokens
      /\ p.n = srv.issued + 1 /\ p.login = srv.sv /\ p.sv = srv.sv
      /\ p.n \in SessionIssued /\ p.n \in 1..MaxPair
  BY <1>0, NewPairs, ServerParts
<1>2. /\ srv' = [srv EXCEPT !.issued = p.n, !.live = srv.live \cup {p}, !.jar = {p}]
      /\ ui' = [ui EXCEPT ![t] = page]
  BY <1>0 DEF Sessions!Login, SessionInv, SessionScreen, SessionServer
<1> HIDE DEF p
<1>3. srv.live \cup {p} \in SessionTokens
  BY <1>0, <1>1, ServerParts DEF SessionTokens
<1>4. /\ srv' \in SessionServer
      /\ srv'.sv = srv.sv /\ srv'.resetAt = srv.resetAt /\ srv'.issued = p.n
      /\ srv'.live = srv.live \cup {p} /\ srv'.jar = {p} /\ srv'.fate = srv.fate
      /\ srv'.refreshes = srv.refreshes /\ srv'.stray = srv.stray
  BY <1>0, <1>1, <1>2, <1>3 DEF SessionServer
<1>5. srv.issued \in Nat /\ srv.resetAt <= srv.sv /\ srv.sv \in Nat /\ srv.resetAt \in Nat
  BY <1>0, ServerParts DEF SessionInv, Versions
<1>6. Books(srv')
  <2>0. /\ \A q \in srv.live \cup srv.jar : q.n <= srv.issued /\ q.n \in Nat
        /\ \A r \in srv.refreshes : \A q \in r.cookie \cup r.pair : q.n <= srv.issued /\ q.n \in Nat
        /\ \A x \in srv.stray : x.cookie.n <= srv.issued /\ x.cookie.n \in Nat
    BY <1>0, ServerParts DEF SessionInv, Books, NumbersIssued
  <2>1. OneRefreshPerTab(srv') /\ ExchangedHasPair(srv') /\ NotByItself(srv')
    BY <1>4 DEF SessionInv, Books, OneRefreshPerTab, ExchangedHasPair, NotByItself
  <2>2. NumbersIssued(srv')
    BY <1>1, <1>4, <1>5, <2>0 DEF SessionInv, Books, NumbersIssued
  <2>3. UndeliveredIsFresh(srv')
    BY <1>1, <1>4, <1>5, <2>0 DEF SessionInv, Books, UndeliveredIsFresh
  <2>4. ExchangeInFlight(srv')
    <3>1. srv.fate[p.n] = "good"
      BY <1>1, <1>5 DEF SessionInv, Books, NumbersIssued
    <3> QED BY <1>4, <3>1, TabAssumption DEF ExchangeInFlight
  <2> QED BY <2>1, <2>2, <2>3, <2>4 DEF Books
<1>7. Versions(srv')
  BY <1>1, <1>4, <1>5 DEF SessionInv, Versions, CurrentOrOld
<1>8. page \in SessionTab /\ page.access = {p}
  BY <1>0, <1>1 DEF SessionTab
<1> HIDE DEF page
<1>9. ui' \in SessionScreen /\ \A u \in Tab : AccessIsCurrent(u)'
  <2>1. \A q \in page.access : CurrentOrOld(q, srv')
    BY <1>1, <1>4, <1>5, <1>8 DEF CurrentOrOld
  <2>2. \A q, o \in page.access : q = o
    BY <1>8
  <2> QED BY <1>2, <1>4, <1>8, <2>1, <2>2, PageKeeps
<1> QED BY <1>0, <1>4, <1>6, <1>7, <1>9 DEF SessionInv, NotYetRun

\* A logout ends what the jar holds, when the request gets through.
LEMMA LogoutStep ==
    ASSUME SessionInv, NEW t \in Tab, NEW reached \in BOOLEAN, Sessions!Logout(t, reached)
    PROVE  SessionInv'
<1> DEFINE page == [ui[t] EXCEPT !.signedIn = FALSE, !.access = {}]
           f == Sessions!Ended(srv.fate, srv.jar \cap srv.live)
<1>0. srv \in SessionServer /\ UNCHANGED calls /\ ui[t] \in SessionTab
      /\ ui' = [ui EXCEPT ![t] = page] /\ {} \in SessionTokens
  BY DEF SessionInv, Sessions!Logout, SessionScreen, SessionTokens
<1>1. page \in SessionTab /\ page.access = {}
  BY <1>0 DEF SessionTab
<1>2. /\ srv' \in SessionServer /\ srv'.sv = srv.sv /\ srv'.resetAt = srv.resetAt
      /\ Books(srv') /\ Versions(srv')
  <2>1. CASE reached
    <3> DEFINE astray == {x \in srv.stray : x.cookie \notin srv.jar}
    <3>1. f \in SessionFates /\ srv.live \ srv.jar \in SessionTokens
          /\ astray \in SessionStrays /\ astray \subseteq srv.stray
      BY <1>0, EndedFates, ServerParts DEF SessionTokens, SessionStrays
    <3>2. srv' = [srv EXCEPT !.live = srv.live \ srv.jar, !.jar = {}, !.fate = f, !.stray = astray]
      BY <1>0, <2>1 DEF Sessions!Logout, Sessions!Revoked, SessionServer
    <3> HIDE DEF f, astray
    <3>3. /\ srv' \in SessionServer
          /\ srv'.sv = srv.sv /\ srv'.resetAt = srv.resetAt
          /\ srv'.live = srv.live \ srv.jar /\ srv'.jar = {} /\ srv'.fate = f
          /\ srv'.issued = srv.issued /\ srv'.refreshes = srv.refreshes /\ srv'.stray = astray
      BY <1>0, <3>1, <3>2 DEF SessionServer
    <3>4. Books(srv')
      BY <1>0, <3>1, <3>3, EndingKeeps DEF SessionInv, f
    <3>5. Versions(srv')
      BY <3>3 DEF SessionInv, Versions, CurrentOrOld
    <3> QED BY <3>3, <3>4, <3>5
  <2>2. CASE ~reached
    <3> DEFINE astray == srv.stray \cup Sessions!Strays("logout", srv.jar \cap srv.live)
    <3>1. \A x \in Sessions!Strays("logout", srv.jar \cap srv.live) : x \in Sessions!Stray /\ x.cookie \in srv.jar
      <4>1. ASSUME NEW x \in Sessions!Strays("logout", srv.jar \cap srv.live)
            PROVE  x \in Sessions!Stray /\ x.cookie \in srv.jar
        <5>1. PICK p \in srv.jar : x = [asks |-> "logout", cookie |-> p]
          BY DEF Sessions!Strays
        <5>2. p \in Sessions!Pair
          BY <1>0, ServerParts
        <5> QED BY <5>1, <5>2 DEF Sessions!Stray
      <4> QED BY <4>1
    <3>2. astray \in SessionStrays
      BY <1>0, <3>1, ServerParts DEF SessionStrays
    <3>3. srv' = [srv EXCEPT !.stray = astray]
      BY <1>0, <2>2 DEF Sessions!Logout, SessionServer
    <3>4. \A x \in astray : x \in srv.stray \/ x.cookie \in srv.jar
      BY <3>1
    <3> HIDE DEF astray
    <3>5. /\ srv' \in SessionServer
          /\ srv'.sv = srv.sv /\ srv'.resetAt = srv.resetAt
          /\ srv'.live = srv.live /\ srv'.jar = srv.jar /\ srv'.fate = srv.fate
          /\ srv'.issued = srv.issued /\ srv'.refreshes = srv.refreshes /\ srv'.stray = astray
      BY <1>0, <3>2, <3>3 DEF SessionServer
    <3>6. OneRefreshPerTab(srv') /\ ExchangedHasPair(srv') /\ NotByItself(srv')
          /\ ExchangeInFlight(srv')
      BY <3>5 DEF SessionInv, Books, OneRefreshPerTab, ExchangedHasPair, NotByItself,
         ExchangeInFlight
    <3>7. NumbersIssued(srv')
      BY <3>4, <3>5 DEF SessionInv, Books, NumbersIssued
    <3>8. UndeliveredIsFresh(srv')
      BY <3>4, <3>5 DEF SessionInv, Books, UndeliveredIsFresh
    <3>9. Versions(srv')
      BY <3>5 DEF SessionInv, Versions, CurrentOrOld
    <3> QED BY <3>5, <3>6, <3>7, <3>8, <3>9 DEF Books
  <2> QED BY <2>1, <2>2
<1> HIDE DEF page
<1>3. ui' \in SessionScreen /\ \A u \in Tab : AccessIsCurrent(u)'
  BY <1>0, <1>1, <1>2, PageKeeps
<1> QED BY <1>0, <1>2, <1>3 DEF SessionInv, NotYetRun

\* An answer put in the place of a refresh leaves its page and its cookie.
LEMMA AnsweredParts ==
    ASSUME srv \in SessionServer, NEW r \in srv.refreshes, NEW pair \in SessionTokens,
           NEW answer \in {"none", "dead", "suspended", "exchanged"}
    PROVE  \E done \in SessionRefresh :
           /\ Sessions!Answered(r, answer, pair) \in SessionRefreshes
           /\ Sessions!Answered(r, answer, pair) = (srv.refreshes \ {r}) \cup {done}
           /\ done.tab = r.tab /\ done.cookie = r.cookie /\ done.answer = answer /\ done.pair = pair
<1> DEFINE done == [r EXCEPT !.answer = answer, !.pair = pair]
<1>1. r \in SessionRefresh /\ srv.refreshes \in SessionRefreshes
  BY ServerParts
<1>2. /\ done \in SessionRefresh
      /\ done.tab = r.tab /\ done.cookie = r.cookie /\ done.answer = answer /\ done.pair = pair
  BY <1>1 DEF SessionRefresh
<1>3. Sessions!Answered(r, answer, pair) = (srv.refreshes \ {r}) \cup {done}
  BY DEF Sessions!Answered
<1> HIDE DEF done
<1>4. (srv.refreshes \ {r}) \cup {done} \in SessionRefreshes
  BY <1>1, <1>2 DEF SessionRefreshes
<1> QED BY <1>2, <1>3, <1>4

\* A refusal exchanges nothing.
LEMMA RefuseStep ==
    ASSUME SessionInv, NEW r \in srv.refreshes, Sessions!RefuseRefresh(r)
    PROVE  SessionInv'
<1> DEFINE answer == IF r.cookie \cap srv.live = {} THEN "dead" ELSE "suspended"
<1>0. srv \in SessionServer /\ UNCHANGED <<ui, calls>> /\ r.answer = "none" /\ {} \in SessionTokens
  BY DEF SessionInv, Sessions!RefuseRefresh, SessionTokens
<1>1. answer \in {"dead", "suspended"}
  OBVIOUS
<1>2. srv' = [srv EXCEPT !.refreshes = Sessions!Answered(r, answer, {})]
  BY DEF Sessions!RefuseRefresh
<1> HIDE DEF answer
<1>3. PICK done \in SessionRefresh :
        /\ Sessions!Answered(r, answer, {}) \in SessionRefreshes
        /\ Sessions!Answered(r, answer, {}) = (srv.refreshes \ {r}) \cup {done}
        /\ done.tab = r.tab /\ done.cookie = r.cookie /\ done.answer = answer /\ done.pair = {}
  <2>1. answer \in {"none", "dead", "suspended", "exchanged"}
    BY <1>1
  <2> QED BY <1>0, <2>1, AnsweredParts
<1> DEFINE all == (srv.refreshes \ {r}) \cup {done}
<1>4. /\ srv' \in SessionServer
      /\ srv'.sv = srv.sv /\ srv'.resetAt = srv.resetAt /\ srv'.issued = srv.issued
      /\ srv'.live = srv.live /\ srv'.jar = srv.jar /\ srv'.fate = srv.fate
      /\ srv'.refreshes = all /\ srv'.stray = srv.stray
  BY <1>0, <1>2, <1>3 DEF SessionServer
<1>5. Books(srv')
  <2>1. OneRefreshPerTab(srv') /\ ExchangedHasPair(srv') /\ NotByItself(srv')
    BY <1>0, <1>1, <1>3, <1>4 DEF SessionInv, Books, OneRefreshPerTab, ExchangedHasPair, NotByItself
  <2>2. NumbersIssued(srv')
    BY <1>3, <1>4 DEF SessionInv, Books, NumbersIssued
  <2>3. UndeliveredIsFresh(srv')
    BY <1>3, <1>4 DEF SessionInv, Books, UndeliveredIsFresh
  <2>4. ExchangeInFlight(srv')
    BY <1>0, <1>4 DEF SessionInv, Books, ExchangeInFlight
  <2> QED BY <2>1, <2>2, <2>3, <2>4 DEF Books
<1>6. Versions(srv')
  BY <1>3, <1>4 DEF SessionInv, Versions, CurrentOrOld
<1>7. \A t \in Tab : AccessIsCurrent(t)'
  BY <1>0, <1>4 DEF SessionInv, AccessIsCurrent, CurrentOrOld
<1> QED BY <1>0, <1>4, <1>5, <1>6, <1>7 DEF SessionInv, NotYetRun

\* A rotation marks the cookie with the page that exchanged it, whose answer
\* it leaves to land.
LEMMA RotateStep ==
    ASSUME SessionInv, NEW r \in srv.refreshes, Sessions!RotateRefresh(r)
    PROVE  SessionInv'
<1>0. srv \in SessionServer /\ UNCHANGED <<ui, calls>> /\ r.answer = "none" /\ srv.issued < MaxPair
  BY DEF SessionInv, Sessions!RotateRefresh
<1>1. PICK old \in r.cookie \cap srv.live :
        LET new == Sessions!NewPair(old.login) IN
        srv' = [Sessions!Revoked({old}) EXCEPT !.issued = new.n, !.live = @ \cup {new},
                           !.fate[old.n] = r.tab,
                           !.refreshes = Sessions!Answered(r, "exchanged", {new})]
  BY DEF Sessions!RotateRefresh
<1> DEFINE new == Sessions!NewPair(old.login)
           live == (srv.live \ {old}) \cup {new}
           f == [srv.fate EXCEPT ![old.n] = r.tab]
           astray == {x \in srv.stray : x.cookie \notin {old}}
<1>2. /\ old \in Sessions!Pair /\ old.n \in 1..MaxPair /\ old.n <= srv.issued /\ r.tab \in Tab
      /\ old.login \in SessionVersions /\ srv.issued \in Nat /\ old.login >= srv.resetAt
  <2>1. /\ old \in Sessions!Pair /\ old.n \in 1..MaxPair /\ r.tab \in Tab /\ srv.issued \in Nat
    BY <1>0, ServerParts
  <2>2. old.n <= srv.issued /\ old.login >= srv.resetAt
    BY DEF SessionInv, Books, NumbersIssued, Versions
  <2> QED BY <2>1, <2>2 DEF Sessions!Pair, SessionVersions
<1>3. /\ new \in Sessions!Pair /\ {new} \in SessionTokens
      /\ new.n = srv.issued + 1 /\ new.login = old.login /\ new.sv = srv.sv
      /\ new.n \in SessionIssued /\ new.n \in 1..MaxPair
  BY <1>0, <1>2, NewPairs
<1>4. srv' = [srv EXCEPT !.issued = new.n, !.live = live, !.fate = f, !.stray = astray,
                         !.refreshes = Sessions!Answered(r, "exchanged", {new})]
  BY <1>0, <1>1 DEF Sessions!Revoked, SessionServer
<1> HIDE DEF new
<1>5. PICK done \in SessionRefresh :
        /\ Sessions!Answered(r, "exchanged", {new}) \in SessionRefreshes
        /\ Sessions!Answered(r, "exchanged", {new}) = (srv.refreshes \ {r}) \cup {done}
        /\ done.tab = r.tab /\ done.cookie = r.cookie /\ done.answer = "exchanged"
          /\ done.pair = {new}
  <2>1. "exchanged" \in {"none", "dead", "suspended", "exchanged"}
    OBVIOUS
  <2> DEFINE fresh == {new}
  <2>2. fresh \in SessionTokens
    BY <1>3
  <2> HIDE DEF fresh
  <2>3. \E done \in SessionRefresh :
          /\ Sessions!Answered(r, "exchanged", fresh) \in SessionRefreshes
          /\ Sessions!Answered(r, "exchanged", fresh) = (srv.refreshes \ {r}) \cup {done}
          /\ done.tab = r.tab /\ done.cookie = r.cookie /\ done.answer = "exchanged"
            /\ done.pair = fresh
    BY <1>0, <2>1, <2>2, AnsweredParts
  <2> QED BY <2>3 DEF fresh
<1> DEFINE all == (srv.refreshes \ {r}) \cup {done}
<1>6. live \in SessionTokens /\ astray \in SessionStrays /\ astray \subseteq srv.stray
  BY <1>0, <1>3, ServerParts DEF SessionTokens, SessionStrays
<1>7. /\ f \in SessionFates
      /\ \A n \in 1..MaxPair : f[n] = IF n = old.n THEN r.tab ELSE srv.fate[n]
  BY <1>0, <1>2, ServerParts DEF SessionFates, Sessions!Fate
<1> HIDE DEF live, f, astray
<1>8. /\ srv' \in SessionServer
      /\ srv'.sv = srv.sv /\ srv'.resetAt = srv.resetAt /\ srv'.issued = new.n
      /\ srv'.live = live /\ srv'.jar = srv.jar /\ srv'.fate = f
      /\ srv'.refreshes = all /\ srv'.stray = astray
  BY <1>0, <1>3, <1>4, <1>5, <1>6, <1>7 DEF SessionServer
<1>9. /\ \A p \in srv.live \cup srv.jar : p.n <= srv.issued /\ p.n \in 1..MaxPair
      /\ \A o \in srv.refreshes : \A p \in o.cookie \cup o.pair : p.n <= srv.issued
        /\ p.n \in 1..MaxPair
      /\ \A x \in srv.stray : x.cookie.n <= srv.issued /\ x.cookie.n \in 1..MaxPair
      /\ \A o \in srv.refreshes : o.tab \in Tab
  BY <1>0, ServerParts DEF SessionInv, Books, NumbersIssued
<1>10. OneRefreshPerTab(srv') /\ ExchangedHasPair(srv')
  BY <1>0, <1>5, <1>8 DEF SessionInv, Books, OneRefreshPerTab, ExchangedHasPair
<1>11. NumbersIssued(srv')
  <2>1. \A p \in live \cup srv.jar : p.n <= new.n
    BY <1>2, <1>3, <1>9 DEF live
  <2>2. \A o \in all : \A p \in o.cookie \cup o.pair : p.n <= new.n
    BY <1>2, <1>3, <1>5, <1>9
  <2>3. \A n \in 1..MaxPair : n > new.n => f[n] = "good"
    BY <1>2, <1>3, <1>7 DEF SessionInv, Books, NumbersIssued
  <2>4. \A x \in astray : x.cookie.n <= new.n
    BY <1>2, <1>3, <1>6, <1>9
  <2> QED BY <1>8, <2>1, <2>2, <2>3, <2>4 DEF NumbersIssued
<1>12. UndeliveredIsFresh(srv')
  <2>1. ASSUME NEW o \in srv.refreshes, NEW q \in o.pair
        PROVE  f[q.n] \in {"good", "ended"} /\ q.n # new.n
    <3>1. q.n # old.n /\ srv.fate[q.n] \in {"good", "ended"}
      BY DEF SessionInv, Books, UndeliveredIsFresh
    <3> QED BY <1>2, <1>3, <1>7, <1>9, <3>1
  <2>2. /\ f[new.n] = "good"
        /\ \A p \in srv.jar : p.n # new.n
        /\ \A x \in srv.stray : x.cookie.n # new.n
        /\ \A o \in srv.refreshes : \A p \in o.cookie \cup o.pair : p.n # new.n
    <3>1. srv.fate[new.n] = "good"
      BY <1>2, <1>3 DEF SessionInv, Books, NumbersIssued
    <3> QED BY <1>2, <1>3, <1>7, <1>9, <3>1
  <2>3. ASSUME NEW o \in srv.refreshes \ {r}, NEW q \in o.pair
        PROVE  /\ f[q.n] \in {"good", "ended"}
               /\ \A p \in srv.jar : p.n # q.n
               /\ \A x \in srv.stray : x.cookie.n # q.n
               /\ \A u \in all : \A p \in u.cookie : p.n # q.n
               /\ \A u \in all \ {o} : \A p \in u.pair : p.n # q.n
    <3>1. /\ \A p \in srv.jar : p.n # q.n
          /\ \A x \in srv.stray : x.cookie.n # q.n
          /\ \A u \in srv.refreshes : \A p \in u.cookie : p.n # q.n
          /\ \A u \in srv.refreshes \ {o} : \A p \in u.pair : p.n # q.n
      BY DEF SessionInv, Books, UndeliveredIsFresh
    <3> QED BY <1>5, <2>1, <3>1
  <2>4. /\ f[new.n] \in {"good", "ended"}
        /\ \A p \in srv.jar : p.n # new.n
        /\ \A x \in srv.stray : x.cookie.n # new.n
        /\ \A u \in all : \A p \in u.cookie : p.n # new.n
        /\ \A u \in all \ {done} : \A p \in u.pair : p.n # new.n
    BY <1>5, <2>2
  <2> QED BY <1>5, <1>6, <1>8, <2>3, <2>4 DEF UndeliveredIsFresh
<1>13. NotByItself(srv')
  <2>1. ASSUME NEW o \in srv.refreshes \ {r}, o.answer # "exchanged", NEW p \in o.cookie
        PROVE  f[p.n] # o.tab
    <3>1. srv.fate[p.n] # o.tab
      BY <2>1 DEF SessionInv, Books, NotByItself
    <3>2. o.tab # r.tab
      BY DEF SessionInv, Books, OneRefreshPerTab
    <3> QED BY <1>7, <1>9, <3>1, <3>2
  <2> QED BY <1>5, <1>8, <2>1 DEF NotByItself
<1>14. ExchangeInFlight(srv')
  <2>1. ASSUME NEW p \in srv.jar, NEW t \in Tab, f[p.n] = t
        PROVE  \E o \in all : o.tab = t /\ o.answer = "exchanged" /\ \E q \in o.cookie : q.n = p.n
    <3>1. CASE p.n = old.n
      <4>1. t = r.tab
        BY <1>2, <1>7, <2>1, <3>1
      <4> QED BY <1>5, <3>1, <4>1
    <3>2. CASE p.n # old.n
      <4>1. srv.fate[p.n] = t
        BY <1>7, <1>9, <2>1, <3>2
      <4>2. PICK o \in srv.refreshes :
              o.tab = t /\ o.answer = "exchanged" /\ \E q \in o.cookie : q.n = p.n
        BY <4>1 DEF SessionInv, Books, ExchangeInFlight
      <4> QED BY <1>0, <4>2
    <3> QED BY <3>1, <3>2
  <2> QED BY <1>8, <2>1 DEF ExchangeInFlight
<1>15. Versions(srv')
  <2>1. \A p \in live : p.login >= srv.resetAt
    BY <1>2, <1>3 DEF SessionInv, Versions, live
  <2>2. srv.resetAt \in Nat /\ srv.sv \in Nat
    BY <1>0, ServerParts
  <2>3. CurrentOrOld(new, srv)
    BY <1>2, <1>3, <2>2 DEF CurrentOrOld
  <2>4. \A o \in all : \A p \in o.pair : CurrentOrOld(p, srv)
    BY <1>5, <2>3 DEF SessionInv, Versions
  <2>5. \A o \in all : \A p, q \in o.pair : p = q
    BY <1>5 DEF SessionInv, Versions
  <2> QED BY <1>8, <2>1, <2>4, <2>5 DEF SessionInv, Versions, CurrentOrOld
<1>16. \A t \in Tab : AccessIsCurrent(t)'
  BY <1>0, <1>8 DEF SessionInv, AccessIsCurrent, CurrentOrOld
<1> QED BY <1>0, <1>8, <1>10, <1>11, <1>12, <1>13, <1>14, <1>15, <1>16 DEF SessionInv, Books,
           NotYetRun

\* An answer lands: the pair it brings, if any, is the page's and the jar's.
LEMMA LandsStep ==
    ASSUME SessionInv, NEW r \in srv.refreshes, Sessions!RefreshLands(r)
    PROVE  SessionInv'
<1> DEFINE t == r.tab
           page == [ui[t] EXCEPT !.access = r.pair, !.checking = FALSE,
                                 !.signedIn = IF ui[t].checking THEN r.pair # {} ELSE ui[t].signedIn]
           jar == IF r.pair # {} THEN r.pair ELSE srv.jar
<1>0. srv \in SessionServer /\ r.answer # "none" /\ t \in Tab /\ r.pair \in SessionTokens
      /\ ui[t] \in SessionTab /\ srv.jar \in SessionTokens
  <2>1. srv \in SessionServer /\ r.answer # "none"
    BY DEF SessionInv, Sessions!RefreshLands
  <2> QED BY <2>1, ServerParts DEF SessionInv, SessionScreen
<1>1. /\ srv' = [srv EXCEPT !.refreshes = srv.refreshes \ {r}, !.jar = jar]
      /\ ui' = [ui EXCEPT ![t] = page]
      /\ calls' = Sessions!Resume(t, r.pair, r.pair # {})
  BY <1>0 DEF Sessions!RefreshLands, SessionServer, SessionInv, SessionScreen, SessionTab
<1>2. page \in SessionTab /\ page.access = r.pair
  BY <1>0 DEF SessionTab
<1>3. srv.refreshes \ {r} \in SessionRefreshes /\ jar \in SessionTokens
  BY <1>0, ServerParts DEF SessionRefreshes
<1> HIDE DEF page, jar
<1>4. /\ srv' \in SessionServer
      /\ srv'.sv = srv.sv /\ srv'.resetAt = srv.resetAt /\ srv'.issued = srv.issued
      /\ srv'.live = srv.live /\ srv'.jar = jar /\ srv'.fate = srv.fate
      /\ srv'.refreshes = srv.refreshes \ {r} /\ srv'.stray = srv.stray
  BY <1>0, <1>1, <1>3 DEF SessionServer
<1>5. Books(srv')
  <2>1. OneRefreshPerTab(srv') /\ ExchangedHasPair(srv') /\ NotByItself(srv')
    BY <1>4 DEF SessionInv, Books, OneRefreshPerTab, ExchangedHasPair, NotByItself
  <2>2. NumbersIssued(srv')
    BY <1>4 DEF SessionInv, Books, NumbersIssued, jar
  <2>3. UndeliveredIsFresh(srv')
    <3>1. ASSUME NEW o \in srv.refreshes \ {r}, NEW q \in o.pair
          PROVE  \A p \in jar : p.n # q.n
      BY DEF SessionInv, Books, UndeliveredIsFresh, jar
    <3> QED BY <1>4, <3>1 DEF SessionInv, Books, UndeliveredIsFresh
  <2>4. ExchangeInFlight(srv')
    <3>1. CASE r.pair # {}
      <4>1. \A p \in r.pair : srv.fate[p.n] \in {"good", "ended"}
        BY DEF SessionInv, Books, UndeliveredIsFresh
      <4> QED BY <1>4, <3>1, <4>1, TabAssumption DEF ExchangeInFlight, jar
    <3>2. CASE r.pair = {}
      <4>1. r.answer # "exchanged"
        BY <3>2 DEF SessionInv, Books, ExchangedHasPair
      <4> QED BY <1>4, <3>2, <4>1 DEF SessionInv, Books, ExchangeInFlight, jar
    <3> QED BY <3>1, <3>2
  <2> QED BY <2>1, <2>2, <2>3, <2>4 DEF Books
<1>6. Versions(srv')
  BY <1>4 DEF SessionInv, Versions, CurrentOrOld
<1>7. calls' \in SessionCalls /\ NotYetRun'
  <2>1. (r.pair # {}) \in BOOLEAN
    OBVIOUS
  <2> QED BY <1>0, <1>1, <2>1, ResumeKeeps DEF SessionInv
<1>8. ui' \in SessionScreen /\ \A u \in Tab : AccessIsCurrent(u)'
  <2>1. \A p \in page.access : CurrentOrOld(p, srv')
    BY <1>2, <1>4 DEF SessionInv, Versions, CurrentOrOld
  <2>2. \A p, q \in page.access : p = q
    BY <1>2 DEF SessionInv, Versions
  <2> QED BY <1>0, <1>1, <1>2, <1>4, <2>1, <2>2, PageKeeps
<1> QED BY <1>4, <1>5, <1>6, <1>7, <1>8 DEF SessionInv

\* No answer comes: the page keeps the access token it had.
LEMMA LostStep ==
    ASSUME SessionInv, NEW r \in srv.refreshes, Sessions!RefreshLost(r)
    PROVE  SessionInv'
<1> DEFINE t == r.tab
           page == [ui[t] EXCEPT !.checking = FALSE]
<1>0. srv \in SessionServer /\ t \in Tab /\ ui[t] \in SessionTab
      /\ {} \in SessionTokens /\ {r} \in SUBSET srv.refreshes
  <2>1. srv \in SessionServer
    BY DEF SessionInv
  <2> QED BY <2>1, ServerParts DEF SessionInv, SessionScreen, SessionTokens
<1>a. PICK jar \in Sessions!Jars(srv, {r}) : srv' = Sessions!Unheard(srv, {r}, jar)
  BY DEF Sessions!RefreshLost
<1>1. /\ ui' = [ui EXCEPT ![t] = page]
      /\ calls' = Sessions!Resume(t, {}, FALSE)
  BY <1>0 DEF Sessions!RefreshLost, SessionInv, SessionScreen
<1>2. page \in SessionTab /\ page.access = ui[t].access
  BY <1>0 DEF SessionTab
<1> HIDE DEF page
<1>3. /\ srv' \in SessionServer /\ Books(srv') /\ Versions(srv')
      /\ srv'.sv = srv.sv /\ srv'.resetAt = srv.resetAt
  BY <1>0, <1>a, UnheardKeeps DEF SessionInv
<1>4. calls' \in SessionCalls /\ NotYetRun'
  BY <1>0, <1>1, ResumeKeeps DEF SessionInv
<1>5. ui' \in SessionScreen /\ \A u \in Tab : AccessIsCurrent(u)'
  <2>1. \A p \in page.access : CurrentOrOld(p, srv')
    BY <1>0, <1>2, <1>3 DEF SessionInv, AccessIsCurrent, CurrentOrOld
  <2>2. \A p, q \in page.access : p = q
    BY <1>0, <1>2 DEF SessionInv, AccessIsCurrent
  <2> QED BY <1>0, <1>1, <1>2, <1>3, <2>1, <2>2, PageKeeps
<1> QED BY <1>3, <1>4, <1>5 DEF SessionInv

\* A page loaded again has no token and no request, and asks for a session.
LEMMA ReloadStep ==
    ASSUME SessionInv, NEW t \in Tab, Sessions!Reload(t)
    PROVE  SessionInv'
<1> DEFINE page == [signedIn |-> FALSE, checking |-> TRUE, access |-> {}]
           gone == {r \in srv.refreshes : r.tab = t}
<1>a. PICK jar \in Sessions!Jars(srv, gone) :
        srv' = Sessions!RestoreSession(t, "load", Sessions!Unheard(srv, gone, jar))
  BY DEF Sessions!Reload
<1> DEFINE mid == Sessions!Unheard(srv, gone, jar)
<1>0. srv \in SessionServer /\ gone \in SUBSET srv.refreshes /\ {} \in SessionTokens
      /\ ui' = [ui EXCEPT ![t] = page]
      /\ srv' = Sessions!RestoreSession(t, "load", mid)
      /\ "load" \in CallId \cup {"load"}
  BY <1>a DEF SessionInv, Sessions!Reload, SessionTokens
<1>1. page \in SessionTab /\ page.access = {}
  BY <1>0 DEF SessionTab
<1> HIDE DEF page, gone
<1>2. /\ mid \in SessionServer /\ Books(mid) /\ Versions(mid)
      /\ mid.sv = srv.sv /\ mid.resetAt = srv.resetAt
  BY <1>0, UnheardKeeps DEF SessionInv
<1> HIDE DEF mid
<1>3. /\ srv' \in SessionServer /\ Books(srv') /\ Versions(srv')
      /\ srv'.sv = srv.sv /\ srv'.resetAt = srv.resetAt
  BY <1>0, <1>2, RestoreSessionKeeps
<1>4. calls' \in SessionCalls /\ NotYetRun'
  BY DEF SessionInv, SessionCalls, NotYetRun, Sessions!Reload
<1>5. ui' \in SessionScreen /\ \A u \in Tab : AccessIsCurrent(u)'
  BY <1>0, <1>1, <1>3, PageKeeps
<1> QED BY <1>3, <1>4, <1>5 DEF SessionInv

\* A refresh nobody waits for any more takes its cookie: no page did, and the
\* pair it issues has a number nothing in the books has.
LEMMA StrayRefreshStep ==
    ASSUME SessionInv, NEW p \in srv.live, Sessions!StrayRefresh(p)
    PROVE  SessionInv'
<1> DEFINE new == Sessions!NewPair(p.login)
           live == (srv.live \ {p}) \cup {new}
           f == [srv.fate EXCEPT ![p.n] = "lost"]
           astray == {x \in srv.stray : x.cookie \notin {p}}
<1>0. /\ srv \in SessionServer /\ UNCHANGED <<ui, calls>> /\ srv.issued < MaxPair
      /\ p \in Sessions!Pair /\ p.n \in 1..MaxPair /\ p.n <= srv.issued
      /\ p.login \in SessionVersions /\ srv.issued \in Nat /\ p.login >= srv.resetAt
      /\ [asks |-> "refresh", cookie |-> p] \in srv.stray
  <2>1. srv \in SessionServer /\ UNCHANGED <<ui, calls>> /\ srv.issued < MaxPair
        /\ [asks |-> "refresh", cookie |-> p] \in srv.stray
    BY DEF SessionInv, Sessions!StrayRefresh
  <2>2. p \in Sessions!Pair /\ p.n \in 1..MaxPair /\ srv.issued \in Nat
    BY <2>1, ServerParts
  <2>3. p.n <= srv.issued /\ p.login >= srv.resetAt
    BY DEF SessionInv, Books, NumbersIssued, Versions
  <2> QED BY <2>1, <2>2, <2>3 DEF Sessions!Pair, SessionVersions
<1>1. /\ new \in Sessions!Pair /\ {new} \in SessionTokens
      /\ new.n = srv.issued + 1 /\ new.login = p.login /\ new.sv = srv.sv
      /\ new.n \in SessionIssued /\ new.n \in 1..MaxPair
  BY <1>0, NewPairs
<1>a. PICK jar \in {srv.jar, {new}} :
        srv' = [Sessions!Revoked({p}) EXCEPT !.issued = new.n, !.live = @ \cup {new},
                                             !.fate[p.n] = "lost", !.jar = jar]
  BY DEF Sessions!StrayRefresh
<1>2. srv' = [srv EXCEPT !.issued = new.n, !.live = live, !.fate = f, !.jar = jar,
                         !.stray = astray]
  BY <1>0, <1>a DEF Sessions!Revoked, SessionServer
<1> HIDE DEF new
<1>3. live \in SessionTokens /\ jar \in SessionTokens /\ astray \in SessionStrays
  BY <1>0, <1>1, ServerParts DEF SessionTokens, SessionStrays
<1>4. /\ f \in SessionFates
      /\ \A n \in 1..MaxPair : f[n] = IF n = p.n THEN "lost" ELSE srv.fate[n]
  BY <1>0, ServerParts DEF SessionFates, Sessions!Fate
<1>5. \A x \in astray : x \in srv.stray
  OBVIOUS
<1>6. /\ \A q \in live : q \in srv.live \/ q = new
      /\ \A q \in jar : q \in srv.jar \/ q = new
  OBVIOUS
<1> HIDE DEF live, f, astray
<1>7. /\ srv' \in SessionServer
      /\ srv'.sv = srv.sv /\ srv'.resetAt = srv.resetAt /\ srv'.issued = new.n
      /\ srv'.live = live /\ srv'.jar = jar /\ srv'.fate = f
      /\ srv'.refreshes = srv.refreshes /\ srv'.stray = astray
  BY <1>0, <1>1, <1>2, <1>3, <1>4 DEF SessionServer
<1>8. /\ \A q \in srv.live \cup srv.jar : q.n <= srv.issued /\ q.n \in 1..MaxPair
      /\ \A r \in srv.refreshes : \A q \in r.cookie \cup r.pair :
           q.n <= srv.issued /\ q.n \in 1..MaxPair
      /\ \A x \in srv.stray : x.cookie.n <= srv.issued /\ x.cookie.n \in 1..MaxPair
      /\ \A r \in srv.refreshes : r.tab \in Tab
  BY <1>0, ServerParts DEF SessionInv, Books, NumbersIssued
<1>9. OneRefreshPerTab(srv') /\ ExchangedHasPair(srv')
  BY <1>7 DEF SessionInv, Books, OneRefreshPerTab, ExchangedHasPair
<1>10. NumbersIssued(srv')
  <2>1. \A q \in live \cup jar : q.n <= new.n
    BY <1>0, <1>1, <1>6, <1>8
  <2>2. \A r \in srv.refreshes : \A q \in r.cookie \cup r.pair : q.n <= new.n
    BY <1>0, <1>1, <1>8
  <2>3. \A x \in astray : x.cookie.n <= new.n
    BY <1>0, <1>1, <1>5, <1>8
  <2>4. \A n \in 1..MaxPair : n > new.n => f[n] = "good"
    BY <1>0, <1>1, <1>4 DEF SessionInv, Books, NumbersIssued
  <2> QED BY <1>7, <2>1, <2>2, <2>3, <2>4 DEF NumbersIssued
<1>11. UndeliveredIsFresh(srv')
  <2>1. ASSUME NEW r \in srv.refreshes, NEW q \in r.pair
        PROVE  /\ f[q.n] \in {"good", "ended"}
               /\ \A o \in jar : o.n # q.n
               /\ \A x \in astray : x.cookie.n # q.n
               /\ \A o \in srv.refreshes : \A u \in o.cookie : u.n # q.n
               /\ \A o \in srv.refreshes \ {r} : \A u \in o.pair : u.n # q.n
    <3>1. /\ srv.fate[q.n] \in {"good", "ended"}
          /\ \A o \in srv.jar : o.n # q.n
          /\ \A x \in srv.stray : x.cookie.n # q.n
          /\ \A o \in srv.refreshes : \A u \in o.cookie : u.n # q.n
          /\ \A o \in srv.refreshes \ {r} : \A u \in o.pair : u.n # q.n
      BY DEF SessionInv, Books, UndeliveredIsFresh
    <3>2. q.n # p.n
      <4> DEFINE x == [asks |-> "refresh", cookie |-> p]
      <4>1. x \in srv.stray /\ x.cookie = p
        BY <1>0
      <4> HIDE DEF x
      <4> QED BY <3>1, <4>1
    <3>3. new.n # q.n /\ q.n \in 1..MaxPair
      BY <1>0, <1>1, <1>8
    <3> QED BY <1>4, <1>5, <1>6, <3>1, <3>2, <3>3
  <2> QED BY <1>7, <2>1 DEF UndeliveredIsFresh
<1>12. NotByItself(srv')
  <2>1. ASSUME NEW r \in srv.refreshes, r.answer # "exchanged", NEW q \in r.cookie
        PROVE  f[q.n] # r.tab
    <3>1. srv.fate[q.n] # r.tab
      BY <2>1 DEF SessionInv, Books, NotByItself
    <3> QED BY <1>4, <1>8, <3>1, TabAssumption
  <2> QED BY <1>7, <2>1 DEF NotByItself
<1>13. ExchangeInFlight(srv')
  <2>1. ASSUME NEW q \in jar, NEW t \in Tab, f[q.n] = t
        PROVE  \E r \in srv.refreshes :
                 r.tab = t /\ r.answer = "exchanged" /\ \E o \in r.cookie : o.n = q.n
    <3>1. srv.fate[new.n] = "good" /\ new.n # p.n
      BY <1>0, <1>1 DEF SessionInv, Books, NumbersIssued
    <3>2. f[new.n] = "good"
      BY <1>1, <1>4, <3>1
    <3>3. q # new
      BY <2>1, <3>2, TabAssumption
    <3>4. q \in srv.jar /\ q.n \in 1..MaxPair
      BY <1>6, <1>8, <3>3
    <3>5. srv.fate[q.n] = t
      BY <1>4, <2>1, <3>4, TabAssumption
    <3> QED BY <3>4, <3>5 DEF SessionInv, Books, ExchangeInFlight
  <2> QED BY <1>7, <2>1 DEF ExchangeInFlight
<1>14. Versions(srv')
  <2>1. \A q \in live : q.login >= srv.resetAt
    BY <1>0, <1>1, <1>6 DEF SessionInv, Versions
  <2> QED BY <1>7, <2>1 DEF SessionInv, Versions, CurrentOrOld
<1>15. \A t \in Tab : AccessIsCurrent(t)'
  BY <1>0, <1>7 DEF SessionInv, AccessIsCurrent, CurrentOrOld
<1> QED BY <1>0, <1>7, <1>9, <1>10, <1>11, <1>12, <1>13, <1>14, <1>15 DEF SessionInv, Books,
           NotYetRun

\* A logout nobody waits for any more ends its cookie.
LEMMA StrayLogoutStep ==
    ASSUME SessionInv, NEW p \in srv.live, Sessions!StrayLogout(p)
    PROVE  SessionInv'
<1> DEFINE f == Sessions!Ended(srv.fate, {p})
           live == srv.live \ {p}
           astray == {x \in srv.stray : x.cookie \notin {p}}
<1>0. srv \in SessionServer /\ UNCHANGED <<ui, calls>> /\ {p} \in SUBSET srv.live
  BY DEF SessionInv, Sessions!StrayLogout
<1>1. PICK jar \in {srv.jar, {}} :
        srv' = [srv EXCEPT !.live = live, !.jar = jar, !.fate = f, !.stray = astray]
  BY <1>0 DEF Sessions!StrayLogout, Sessions!Revoked, SessionServer
<1>2. /\ f \in SessionFates /\ live \in SessionTokens /\ jar \in SessionTokens
      /\ astray \in SessionStrays
  BY <1>0, EndedFates, ServerParts DEF SessionTokens, SessionStrays
<1>3. live \subseteq srv.live /\ jar \subseteq srv.jar /\ astray \subseteq srv.stray
  OBVIOUS
<1> HIDE DEF f, live, astray
<1>4. /\ srv' \in SessionServer
      /\ srv'.sv = srv.sv /\ srv'.resetAt = srv.resetAt
      /\ srv'.live = live /\ srv'.jar = jar /\ srv'.fate = f
      /\ srv'.issued = srv.issued /\ srv'.refreshes = srv.refreshes /\ srv'.stray = astray
  BY <1>0, <1>1, <1>2 DEF SessionServer
<1>5. Books(srv')
  BY <1>0, <1>3, <1>4, EndingKeeps DEF SessionInv, f
<1>6. Versions(srv')
  BY <1>3, <1>4 DEF SessionInv, Versions, CurrentOrOld
<1>7. \A t \in Tab : AccessIsCurrent(t)'
  BY <1>0, <1>4 DEF SessionInv, AccessIsCurrent, CurrentOrOld
<1> QED BY <1>0, <1>4, <1>5, <1>6, <1>7 DEF SessionInv, NotYetRun

\* Every step of a session keeps the invariant.
LEMMA SessionStep == ASSUME SessionInv, Sessions!Next PROVE SessionInv'
<1>1. CASE \/ \E n \in 1..MaxPair : Sessions!Expire(n)
           \/ Sessions!Suspend \/ Sessions!Reinstate \/ Sessions!ResetPassword
  BY <1>1, AccountStep
<1>2. ASSUME NEW t \in Tab, Sessions!Login(t) PROVE SessionInv'
  BY <1>2, LoginStep
<1>3. ASSUME NEW t \in Tab, Sessions!Reload(t) PROVE SessionInv'
  BY <1>3, ReloadStep
<1>4. ASSUME NEW t \in Tab, NEW reached \in BOOLEAN, Sessions!Logout(t, reached) PROVE SessionInv'
  BY <1>4, LogoutStep
<1>5. ASSUME NEW r \in srv.refreshes, Sessions!RefuseRefresh(r) PROVE SessionInv'
  BY <1>5, RefuseStep
<1>6. ASSUME NEW r \in srv.refreshes, Sessions!RotateRefresh(r) PROVE SessionInv'
  BY <1>6, RotateStep
<1>7. ASSUME NEW r \in srv.refreshes, Sessions!RefreshLands(r) PROVE SessionInv'
  BY <1>7, LandsStep
<1>8. ASSUME NEW r \in srv.refreshes, Sessions!RefreshLost(r) PROVE SessionInv'
  BY <1>8, LostStep
<1>9. ASSUME NEW c \in CallId,
             (\E t \in Tab : Sessions!Send(c, t)) \/ Sessions!Execute(c) \/ Sessions!Settles(c)
      PROVE  SessionInv'
  BY <1>9, RequestStep
<1>10. ASSUME NEW c \in CallId, Sessions!Unauthorized(c) PROVE SessionInv'
  BY <1>10, UnauthorizedStep
<1>11. ASSUME NEW p \in srv.live, Sessions!StrayRefresh(p) PROVE SessionInv'
  BY <1>11, StrayRefreshStep
<1>12. ASSUME NEW p \in srv.live, Sessions!StrayLogout(p) PROVE SessionInv'
  BY <1>12, StrayLogoutStep
<1> QED BY <1>1, <1>2, <1>3, <1>4, <1>5, <1>6, <1>7, <1>8, <1>9, <1>10, <1>11, <1>12
           DEF Sessions!Next

------------------------------------------------------------------------------
(* ---- the shell ---- *)

ShellStored == SUBSET Shells!ActiveTab
ShellShortcuts == SUBSET {"calendar", "qr"}
ShellScreen ==
    [checking : BOOLEAN, loggedIn : BOOLEAN, role : {"student", "admin"},
     tab : Shells!ActiveTab, canScan : BOOLEAN, serverRole : {"STUDENT", "ADMIN", "SUPER_ADMIN"},
     stored : ShellStored, link : BOOLEAN,
     mode : {"login", "activate", "reset"}, resetBy : {"dob", "code"}, fromLink : BOOLEAN]
ShellCalls == [CallId -> Shells!Call \cup {Shells!NoCall}]

\* The typing of the shell, with names for its sets.
LEMMA ShellTyped == Shells!TypeOK <=> ui \in ShellScreen /\ calls \in ShellCalls
  BY DEF Shells!TypeOK, ShellScreen, ShellCalls, ShellStored

\* The tabs that stand for home show home, whatever the role.
LEMMA HomeIsShown ==
    ASSUME NEW role, NEW canScan, NEW tab \in {"home", "admin-dashboard"}
    PROVE  Shells!View(role, tab, canScan) # {}
  BY DEF Shells!View

\* What the navigation offers a role, the view switcher has a view for.
LEMMA OfferedIsShown ==
    ASSUME NEW role \in {"student", "admin"}, NEW canScan \in BOOLEAN,
           NEW tab \in Shells!Offered(role, canScan)
    PROVE  Shells!View(role, tab, canScan) # {} /\ tab \in Shells!ActiveTab
<1>1. CASE role = "student"
  <2>1. tab \in Shells!StudentTabs \cup {"home", "alerts", "profile"}
                \cup IF canScan THEN {"admin-scanner"} ELSE {}
    BY <1>1 DEF Shells!Offered, Shells!Entries, Shells!BarEntries, Shells!Overflow,
       Shells!HeaderTabs, Shells!HomeOf, Shells!StudentTabs
  <2> QED BY <1>1, <2>1 DEF Shells!View, Shells!Entries, Shells!StudentTabs, Shells!ActiveTab,
             Shells!AdminTabs
<1>2. CASE role = "admin"
  <2>1. tab \in Shells!AdminTabs
    BY <1>2 DEF Shells!Offered, Shells!Entries, Shells!BarEntries, Shells!Overflow,
       Shells!HeaderTabs, Shells!HomeOf, Shells!AdminTabs
  <2> QED BY <1>2, <2>1 DEF Shells!View, Shells!Entries, Shells!ActiveTab
<1> QED BY <1>1, <1>2

ShellInv ==
    /\ ui \in ShellScreen
    /\ calls \in ShellCalls
    /\ Shells!NeverBlank

\* The kind of a request tells its fields.
LEMMA ShellCallKinds ==
    ASSUME NEW c \in Shells!Call \cup {Shells!NoCall}
    PROVE  /\ c.kind = "session" => c.shortcut \in ShellShortcuts
           /\ c.kind \in {"verify", "profile"} => c.account \in Shells!Account
  BY DEF Shells!Call, Shells!NoCall, ShellShortcuts

\* The requests of the shell are of its types.
LEMMA ShellRequests ==
    /\ \A s \in ShellShortcuts : [kind |-> "session", shortcut |-> s] \in Shells!Call
    /\ \A m \in {"activate", "reset"} : [kind |-> "setPassword", mode |-> m] \in Shells!Call
    /\ [kind |-> "login"] \in Shells!Call
    /\ \A k \in {"verify", "profile"}, a \in Shells!Account : [kind |-> k, account |-> a] \in Shells!Call
  BY DEF Shells!Call, ShellShortcuts

\* What an account's role is, and the view it begins with.
LEMMA ShellAccounts ==
    /\ "home" \in Shells!ActiveTab /\ "admin-dashboard" \in Shells!ActiveTab
    /\ "calendar" \in Shells!ActiveTab /\ "qr" \in Shells!ActiveTab
    /\ \A a \in Shells!Account :
         /\ Shells!RoleOf(a) \in {"student", "admin"}
         /\ Shells!HomeOf(Shells!RoleOf(a)) \in {"home", "admin-dashboard"}
         /\ (IF a = "COMMITTEE" THEN "STUDENT" ELSE a) \in {"STUDENT", "ADMIN", "SUPER_ADMIN"}
         /\ Shells!RoleOf(a) = "admin" => a \in {"STUDENT", "ADMIN", "SUPER_ADMIN"}
    /\ {} \in ShellStored
    /\ \A t \in Shells!ActiveTab : {t} \in ShellStored
  BY DEF Shells!ActiveTab, Shells!StudentTabs, Shells!AdminTabs, Shells!Account, Shells!RoleOf,
     Shells!HomeOf, ShellStored

\* The page just loaded is typed, and nobody is signed in on it.
LEMMA FreshTyped ==
    ASSUME NEW shortcut \in ShellShortcuts, NEW stored \in ShellStored, NEW link \in BOOLEAN,
           NEW screen \in Shells!Fresh(shortcut, stored, link)
    PROVE  screen \in ShellScreen /\ ~screen.loggedIn
<1>1. Shells!OpensOn(shortcut, stored) \in ShellStored
  BY DEF Shells!OpensOn, ShellShortcuts, ShellStored, Shells!ActiveTab, Shells!StudentTabs,
     Shells!AdminTabs
<1>2. \A t \in Shells!OpensOn(shortcut, stored) : t \in Shells!ActiveTab
  BY <1>1 DEF ShellStored
<1> QED BY <1>2 DEF Shells!Fresh, ShellScreen

\* Loading the page puts one request in, to check the session.
LEMMA CheckSessionTyped ==
    ASSUME NEW shortcut \in ShellShortcuts, NEW i \in CallId
    PROVE  Shells!CheckSession(shortcut, i) \in ShellCalls
  BY ShellRequests DEF Shells!CheckSession, ShellCalls

\* The shortcuts of the manifest.
LEMMA ShortcutsTyped == Shells!Shortcuts \subseteq ShellShortcuts
  BY DEF Shells!Shortcuts, ShellShortcuts

\* The invariant holds when the app is loaded.
LEMMA ShellInit == ASSUME Shells!Init PROVE ShellInv
<1>1. PICK i \in CallId, shortcut \in Shells!Shortcuts, link \in BOOLEAN,
           stored \in {{}, {"bill"}, {"admin-menu"}} :
             /\ ui \in Shells!Fresh(shortcut, stored, link)
             /\ calls = Shells!CheckSession(shortcut, i)
  BY DEF Shells!Init
<1>2. stored \in ShellStored
  BY DEF ShellStored, Shells!ActiveTab, Shells!StudentTabs, Shells!AdminTabs
<1> QED BY <1>1, <1>2, FreshTyped, CheckSessionTyped, ShortcutsTyped DEF ShellInv, Shells!NeverBlank

\* The sign-in form appears on a screen nobody is signed in on.
LEMMA FormAppearsTyped ==
    ASSUME NEW screen \in ShellScreen
    PROVE  /\ Shells!FormAppears(screen) \in ShellScreen
           /\ Shells!FormAppears(screen).loggedIn = screen.loggedIn
  BY DEF Shells!FormAppears, ShellScreen

\* Every step of the shell keeps the invariant.
LEMMA ShellStep == ASSUME ShellInv, Shells!Next PROVE ShellInv'
<1>0. /\ ui \in ShellScreen /\ calls \in ShellCalls
      /\ \A i \in CallId : calls[i] \in Shells!Call \cup {Shells!NoCall}
      /\ ui.stored \in ShellStored /\ ui.link \in BOOLEAN
      /\ ui.role \in {"student", "admin"} /\ ui.canScan \in BOOLEAN
  BY DEF ShellInv, ShellScreen, ShellCalls
<1>1. ASSUME NEW i \in CallId, NEW shortcut \in Shells!Shortcuts, Shells!Reload(i, shortcut)
      PROVE  ShellInv'
  BY <1>0, <1>1, FreshTyped, CheckSessionTyped, ShortcutsTyped DEF Shells!Reload, ShellInv,
     Shells!NeverBlank
<1>2. ASSUME NEW i \in CallId, NEW account \in Shells!Account, Shells!SessionRestored(i, account)
      PROVE  ShellInv'
  <2>0. calls[i].shortcut \in ShellShortcuts
    BY <1>0, <1>2, ShellCallKinds DEF Shells!SessionRestored
  <2>1. PICK tab \in IF Shells!RoleOf(account) = "student" /\ calls[i].shortcut # {}
                     THEN calls[i].shortcut ELSE {Shells!HomeOf(Shells!RoleOf(account))} :
           ui' = [ui EXCEPT !.checking = FALSE, !.loggedIn = TRUE,
                            !.role = Shells!RoleOf(account), !.tab = tab,
                            !.canScan = account = "COMMITTEE",
                            !.serverRole = IF account = "COMMITTEE" THEN "STUDENT" ELSE account]
    BY <1>2 DEF Shells!SessionRestored
  <2>2. /\ tab \in Shells!ActiveTab
        /\ \/ tab \in {"home", "admin-dashboard"}
           \/ Shells!RoleOf(account) = "student" /\ tab \in {"calendar", "qr"}
    BY <2>0, <2>1, ShellAccounts DEF ShellShortcuts
  <2>3. /\ ui' \in ShellScreen /\ ui'.tab = tab /\ ui'.role = Shells!RoleOf(account)
    BY <1>0, <2>1, <2>2, ShellAccounts DEF ShellScreen
  <2>4. calls' \in ShellCalls
    BY <1>0, <1>2 DEF Shells!SessionRestored, ShellCalls
  <2>5. Shells!View(ui'.role, ui'.tab, ui'.canScan) # {}
    <3>1. CASE tab \in {"home", "admin-dashboard"}
      BY <2>3, <3>1, HomeIsShown
    <3>2. CASE Shells!RoleOf(account) = "student" /\ tab \in {"calendar", "qr"}
      BY <2>3, <3>2 DEF Shells!View, Shells!Entries, Shells!StudentTabs
    <3> QED BY <2>2, <3>1, <3>2
  <2> QED BY <2>3, <2>4, <2>5 DEF ShellInv, Shells!NeverBlank
\* A screen without anybody signed in, and any calls.
<1>3. ASSUME ui' \in ShellScreen, ~ui'.loggedIn, calls' \in ShellCalls
      PROVE  ShellInv'
  BY <1>3 DEF ShellInv, Shells!NeverBlank
<1>4. ASSUME Shells!Logout
      PROVE  ShellInv'
  <2> DEFINE s == [ui EXCEPT !.loggedIn = FALSE, !.role = "student", !.tab = "home",
                             !.canScan = FALSE, !.serverRole = "STUDENT", !.stored = {}]
  <2>1. s \in ShellScreen /\ ~s.loggedIn
    BY <1>0, ShellAccounts DEF ShellScreen
  <2>2. ui' = Shells!FormAppears(s) /\ UNCHANGED calls
    BY <1>4 DEF Shells!Logout
  <2> HIDE DEF s
  <2> QED BY <1>0, <1>3, <2>1, <2>2, FormAppearsTyped
\* The screen shows what it showed, and a call that is no profile is replaced.
<1>5. ASSUME NEW i \in CallId, NEW c \in Shells!Call \cup {Shells!NoCall},
             calls' = [calls EXCEPT ![i] = c], calls[i].kind # "profile", ui' \in ShellScreen,
             ui'.loggedIn = ui.loggedIn, ui'.role = ui.role, ui'.tab = ui.tab, ui'.canScan = ui.canScan
      PROVE  ShellInv'
  <2>1. calls' \in ShellCalls
    BY <1>0, <1>5 DEF ShellCalls
  <2>2. (\A j \in CallId : calls'[j].kind # "profile")
          => \A j \in CallId : calls[j].kind # "profile"
    BY <1>0, <1>5 DEF ShellCalls
  <2> QED BY <1>5, <2>1, <2>2 DEF ShellInv, Shells!NeverBlank
<1>6. ASSUME NEW i \in CallId, NEW restored \in BOOLEAN, Shells!SessionRefused(i, restored)
      PROVE  ShellInv'
  <2> DEFINE s == [ui EXCEPT !.checking = FALSE, !.stored = IF restored THEN {} ELSE @]
  <2>1. s \in ShellScreen /\ s.loggedIn = ui.loggedIn /\ s.role = ui.role /\ s.tab = ui.tab
        /\ s.canScan = ui.canScan
    BY <1>0, ShellAccounts DEF ShellScreen
  <2>2. ui' = Shells!FormAppears(s) /\ calls' = [calls EXCEPT ![i] = Shells!NoCall]
        /\ calls[i].kind # "profile"
    BY <1>6 DEF Shells!SessionRefused
  <2> HIDE DEF s
  <2>3. /\ ui' \in ShellScreen
        /\ ui'.loggedIn = ui.loggedIn /\ ui'.role = ui.role /\ ui'.tab = ui.tab
        /\ ui'.canScan = ui.canScan
    BY <2>1, <2>2 DEF Shells!FormAppears, ShellScreen
  <2> QED BY <1>5, <2>2, <2>3
<1>7. ASSUME NEW i \in CallId,
             \/ \E account \in Shells!Account : Shells!LoggedIn(i, account)
             \/ Shells!Submit(i) \/ Shells!PasswordSet(i) \/ Shells!FormFails(i)
      PROVE  ShellInv'
  <2>1. /\ ui' \in ShellScreen
        /\ ui'.loggedIn = ui.loggedIn /\ ui'.role = ui.role /\ ui'.tab = ui.tab
        /\ ui'.canScan = ui.canScan
    BY <1>0, <1>7 DEF Shells!LoggedIn, Shells!Submit, Shells!PasswordSet, Shells!FormFails,
       ShellScreen
  <2>2. calls[i].kind # "profile"
    BY <1>7 DEF Shells!LoggedIn, Shells!Submit, Shells!PasswordSet, Shells!FormFails, Shells!NoCall
  <2>3. PICK c \in Shells!Call \cup {Shells!NoCall} : calls' = [calls EXCEPT ![i] = c]
    <3>1. CASE \E account \in Shells!Account : Shells!LoggedIn(i, account)
      BY <3>1, ShellRequests DEF Shells!LoggedIn
    <3>2. CASE Shells!Submit(i)
      <4>1. ui.mode \in {"login", "activate", "reset"}
        BY <1>0 DEF ShellScreen
      <4> QED BY <3>2, <4>1, ShellRequests DEF Shells!Submit
    <3>3. CASE Shells!PasswordSet(i) \/ Shells!FormFails(i)
      BY <3>3, ShellRequests DEF Shells!PasswordSet, Shells!FormFails
    <3> QED BY <1>7, <3>1, <3>2, <3>3
  <2> QED BY <1>5, <2>1, <2>2, <2>3
\* The shell appears, blank perhaps, with the profile on its way.
<1>8. ASSUME NEW i \in CallId, Shells!Verified(i)
      PROVE  ShellInv'
  <2>1. calls[i].account \in Shells!Account
    BY <1>0, <1>8, ShellCallKinds DEF Shells!Verified
  <2>2. ui' \in ShellScreen
    BY <1>0, <1>8, <2>1, ShellAccounts DEF Shells!Verified, ShellScreen
  <2>3. [calls[i] EXCEPT !.kind = "profile"] = [kind |-> "profile", account |-> calls[i].account]
    <3>1. calls[i] \in [kind : {"verify", "profile"}, account : Shells!Account]
      BY <1>0, <1>8 DEF Shells!Verified, Shells!Call, Shells!NoCall
    <3> QED BY <3>1
  <2>4. calls' = [calls EXCEPT ![i] = [kind |-> "profile", account |-> calls[i].account]]
    BY <1>8, <2>3 DEF Shells!Verified
  <2>5. calls' \in ShellCalls /\ calls'[i].kind = "profile"
    BY <1>0, <2>1, <2>4, ShellRequests DEF ShellCalls
  <2> QED BY <2>2, <2>5 DEF ShellInv, Shells!NeverBlank
\* A profile lands, whoever is signed in: home, which every role has, is shown.
<1>9. ASSUME NEW i \in CallId, NEW ok \in BOOLEAN, Shells!ProfileLands(i, ok)
      PROVE  ShellInv'
  <2> DEFINE account == calls[i].account
             home == Shells!HomeOf(Shells!RoleOf(account))
             scan == IF Shells!RoleOf(account) = "student"
               /\ ok THEN account = "COMMITTEE" ELSE ui.canScan
             server == IF Shells!RoleOf(account) = "admin"
                       THEN IF ok THEN account ELSE "ADMIN" ELSE ui.serverRole
  <2>0. /\ account \in Shells!Account
        /\ home \in {"home", "admin-dashboard"} /\ home \in Shells!ActiveTab
          /\ {home} \in ShellStored
    BY <1>0, <1>9, ShellCallKinds, ShellAccounts DEF Shells!ProfileLands
  <2>1. scan \in BOOLEAN /\ server \in {"STUDENT", "ADMIN", "SUPER_ADMIN"}
    BY <1>0, <2>0, ShellAccounts DEF ShellScreen
  <2>2. /\ ui' = [ui EXCEPT !.tab = home, !.stored = {home}, !.canScan = scan, !.serverRole = server]
        /\ calls' = [calls EXCEPT ![i] = Shells!NoCall]
    BY <1>0, <1>9 DEF Shells!ProfileLands, ShellScreen
  <2> HIDE DEF home, scan, server
  <2>3. ui' \in ShellScreen /\ ui'.tab = home
    BY <1>0, <2>0, <2>1, <2>2 DEF ShellScreen
  <2>4. calls' \in ShellCalls
    BY <1>0, <2>2 DEF ShellCalls
  <2>5. Shells!View(ui'.role, ui'.tab, ui'.canScan) # {}
    BY <2>0, <2>3, HomeIsShown
  <2> QED BY <2>3, <2>4, <2>5 DEF ShellInv, Shells!NeverBlank
<1>10. ASSUME NEW tab \in Shells!ActiveTab, Shells!OpenTab(tab)
       PROVE  ShellInv'
  <2>1. tab \in Shells!Offered(ui.role, ui.canScan) /\ {tab} \in ShellStored
    BY <1>10, ShellAccounts DEF Shells!OpenTab
  <2>2. /\ ui' \in ShellScreen /\ ui'.tab = tab /\ ui'.role = ui.role
        /\ ui'.canScan = ui.canScan /\ UNCHANGED calls
    BY <1>0, <1>10, <2>1 DEF Shells!OpenTab, ShellScreen
  <2>3. Shells!View(ui.role, tab, ui.canScan) # {}
    BY <1>0, <2>1, OfferedIsShown
  <2> QED BY <1>0, <2>2, <2>3 DEF ShellInv, Shells!NeverBlank
\* The form alone changes.
<1>11. ASSUME \/ \E mode \in {"login", "activate", "reset"} : Shells!SwitchMode(mode)
              \/ Shells!SwitchResetBy
       PROVE  ShellInv'
  <2>1. /\ ui' \in ShellScreen /\ ui'.loggedIn = ui.loggedIn /\ ui'.tab = ui.tab
        /\ ui'.role = ui.role /\ ui'.canScan = ui.canScan /\ UNCHANGED calls
    BY <1>0, <1>11 DEF Shells!SwitchMode, Shells!SwitchResetBy, ShellScreen
  <2> QED BY <2>1 DEF ShellInv, Shells!NeverBlank
<1> QED
  BY <1>1, <1>2, <1>4, <1>6, <1>7, <1>8, <1>9, <1>10, <1>11 DEF Shells!Next
===============================================================================
