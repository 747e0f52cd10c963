--------------------------- MODULE BrowserSession --------------------------
(***************************************************************************)
(* Sessions as a browser sees them: one cookie, shared by its tabs, and in *)
(* each tab the store of auth-store.ts, the page's calls of api-client.ts  *)
(* and the refresh they share.  A call that is refused with 401 joins the  *)
(* calls' refresh under way in its tab, or starts one, and is sent once    *)
(* more when that succeeds.  A page that is loaded restores the session by *)
(* a refresh of its own (auth-provider.tsx), which the calls do not know   *)
(* of: the pages of documents call the API as soon as they are mounted.    *)
(* The server is RefreshTokens.  An answer sets the cookie when its        *)
(* headers arrive and the store when its body was read; it may be lost,    *)
(* and reloading a page drops every answer the page waits for, while the   *)
(* server goes on.                                                         *)
(***************************************************************************)
EXTENDS RefreshTokens

CONSTANTS Tabs, Calls

ASSUME TabAssumption == None \notin Tabs

VARIABLES
  cookie,       \* the refresh token of the browser, or None
  status,       \* of each tab's store
  flight,       \* requests to /auth: the tab that waits, for what, and whether
                \* the page sent it when it was loaded
  refreshing,   \* refreshPromise of each tab: the request it waits for
  disabled,     \* the request that keeps the button of each tab disabled
  call,         \* calls that were refused: their tab and where they are
  signedOut     \* a logout ended undisturbed and nobody has tried to log in since

browserVars == <<cookie, status, flight, refreshing, disabled, call, signedOut>>
vars == <<serverVars, browserVars>>

NoFlight == [tab |-> None, at |-> "idle", alone |-> FALSE, mount |-> FALSE]
NoCall == [tab |-> None, at |-> "idle"]

\* A browser that is logged in, with its tabs open.
Init ==
  /\ ServerInit
  /\ cookie = FirstToken
  /\ status = [tab \in Tabs |-> "authenticated"]
  /\ flight = [r \in Requests |-> NoFlight]
  /\ refreshing = [tab \in Tabs |-> None]
  /\ disabled = [tab \in Tabs |-> None]
  /\ call = [c \in Calls |-> NoCall]
  /\ signedOut = FALSE
-----------------------------------------------------------------------------
InFlight == { r \in Requests : flight[r].at \in {"waiting", "body"} }
Fresh(r) == flight[r].at = "idle" /\ \A q \in 1 .. r - 1 : flight[q].at # "idle"
FlightsOf(tab) == { r \in InFlight : flight[r].tab = tab }
Refreshes(tab) == { r \in FlightsOf(tab) : request[r].op = "refresh" }

\* The browser sends a request with its cookie; `gone' are those whose answers
\* nobody waits for any more.
Send(r, tab, op, mount, gone) ==
  /\ Fresh(r)
  /\ Receive(r, op, cookie)
  /\ LET others == InFlight \ gone
     IN flight' = [q \in Requests |->
                     CASE q = r -> [tab |-> tab, at |-> "waiting", alone |-> others = {}, mount |-> mount]
                       [] q \in gone -> [flight[q] EXCEPT !.at = "dropped", !.alone = FALSE]
                       [] q \in others -> [flight[q] EXCEPT !.alone = FALSE]
                       [] OTHER -> flight[q]]

\* The page of a tab is loaded again and restores the session.
LoadPage(tab) ==
  /\ \E r \in Requests : Send(r, tab, "refresh", TRUE, FlightsOf(tab))
  /\ status' = [status EXCEPT ![tab] = "loading"]
  /\ refreshing' = [refreshing EXCEPT ![tab] = None]
  /\ disabled' = [disabled EXCEPT ![tab] = None]
  /\ call' = [c \in Calls |-> IF call[c].tab = tab THEN NoCall ELSE call[c]]
  /\ UNCHANGED <<cookie, signedOut>>

\* The button of the login form is disabled while it is being submitted.
Login(tab) ==
  /\ status[tab] = "unauthenticated" /\ disabled[tab] = None
  /\ \E r \in Requests : Send(r, tab, "login", FALSE, {}) /\ disabled' = [disabled EXCEPT ![tab] = r]
  /\ signedOut' = FALSE
  /\ UNCHANGED <<cookie, status, refreshing, call>>

Logout(tab) ==
  /\ status[tab] = "authenticated" /\ disabled[tab] = None
  /\ \E r \in Requests : Send(r, tab, "logout", FALSE, {}) /\ disabled' = [disabled EXCEPT ![tab] = r]
  /\ UNCHANGED <<cookie, status, refreshing, call, signedOut>>

\* restoreSession, for the calls of a tab.
StartRefresh(tab) ==
  /\ \E r \in Requests : Send(r, tab, "refresh", FALSE, {}) /\ refreshing' = [refreshing EXCEPT ![tab] = r]
  /\ status' = [status EXCEPT ![tab] = IF @ = "authenticated" THEN @ ELSE "loading"]
  /\ UNCHANGED <<cookie, disabled, signedOut>>

\* A call of the page is refused with 401 and joins the calls' refresh of its tab,
\* or starts it.  Pages call the API whatever the status: those of documents do
\* when they are mounted, outside ProtectedRoute, without a token yet.
RefreshOnce_Unshared(tab, c) ==
  /\ call[c].at = "idle"
  /\ call' = [call EXCEPT ![c] = [tab |-> tab, at |-> "joined"]]
  /\ StartRefresh(tab)

RefreshOnce(tab, c) ==
  /\ call[c].at = "idle"
  /\ call' = [call EXCEPT ![c] = [tab |-> tab, at |-> "joined"]]
  /\ IF refreshing[tab] # None
     THEN UNCHANGED <<serverVars, cookie, status, flight, refreshing, disabled, signedOut>>
     ELSE StartRefresh(tab)

\* The call that was sent again ends, also when it is refused again.
EndCall(c) ==
  /\ call[c].at = "resent"
  /\ call' = [call EXCEPT ![c] = NoCall]
  /\ UNCHANGED <<serverVars, cookie, status, flight, refreshing, disabled, signedOut>>
-----------------------------------------------------------------------------
\* The headers of an answer set the cookie, or delete it after a logout.
AnswerArrives_KeepsCookie(r) ==
  /\ flight[r].at = "waiting" /\ request[r].step \in Answers
  /\ flight' = [flight EXCEPT ![r].at = "body"]
  /\ cookie' = IF request[r].step = "ok" /\ request[r].op # "logout" THEN r ELSE cookie
  /\ UNCHANGED <<serverVars, status, refreshing, disabled, call, signedOut>>

AnswerArrives(r) ==
  /\ flight[r].at = "waiting" /\ request[r].step \in Answers
  /\ flight' = [flight EXCEPT ![r].at = "body"]
  /\ cookie' = IF request[r].step # "ok" THEN cookie
               ELSE IF request[r].op = "logout" THEN None ELSE r
  /\ UNCHANGED <<serverVars, status, refreshing, disabled, call, signedOut>>

\* The calls that wait for a refresh are sent again, or fail.
Resume(r, ok) ==
  LET tab == flight[r].tab
  IN IF refreshing[tab] = r
     THEN /\ refreshing' = [refreshing EXCEPT ![tab] = None]
          /\ call' = [c \in Calls |-> IF call[c].tab = tab /\ call[c].at = "joined"
                                      THEN (IF ok THEN [tab |-> tab, at |-> "resent"] ELSE NoCall)
                                      ELSE call[c]]
     ELSE UNCHANGED <<refreshing, call>>

\* setSession, or clearSession after a refresh that failed; a login that failed
\* leaves the store alone and a logout clears it whatever its answer was.
StatusAfter(r, ok) ==
  CASE request[r].op # "logout" /\ ok -> "authenticated"
    [] request[r].op = "login" /\ ~ok -> status[flight[r].tab]
    [] OTHER -> "unauthenticated"

\* A button is enabled by its own answer, and is another one when the page goes to
\* the login form or comes from there.
Settle(r, ok) ==
  LET tab == flight[r].tab
      turned == (status[tab] = "authenticated") # (StatusAfter(r, ok) = "authenticated")
  IN /\ status' = [status EXCEPT ![tab] = StatusAfter(r, ok)]
     /\ disabled' = [disabled EXCEPT ![tab] = IF turned \/ @ = r THEN None ELSE @]
     /\ Resume(r, ok)
     /\ signedOut' = (signedOut \/ (request[r].op = "logout" /\ ok /\ flight[r].alone))
     /\ UNCHANGED <<serverVars, cookie>>

\* The page reads the body and goes on.
BodyRead(r) ==
  /\ flight[r].at = "body"
  /\ flight' = [flight EXCEPT ![r].at = "done", ![r].alone = FALSE]
  /\ Settle(r, request[r].step = "ok")

\* The connection breaks before the headers, or before the end of the body; or
\* the server has committed and fails to read the user again, for the answer.
AnswerLost(r) ==
  /\ flight[r].at = "waiting" \/ (flight[r].at = "body" /\ request[r].op # "logout")
  /\ flight' = [flight EXCEPT ![r].at = IF @ = "waiting" THEN "dropped" ELSE "done",
                             ![r].alone = FALSE]
  /\ Settle(r, FALSE)
-----------------------------------------------------------------------------
Server(r) == Serve(r) /\ UNCHANGED browserVars
TokenExpires == (\E t \in DOMAIN tokens : Expire(t)) /\ UNCHANGED browserVars

Next ==
  \/ \E tab \in Tabs : LoadPage(tab) \/ Login(tab) \/ Logout(tab) \/ \E c \in Calls : RefreshOnce(tab, c)
  \/ \E c \in Calls : EndCall(c)
  \/ \E r \in Requests : Server(r) \/ AnswerArrives(r) \/ BodyRead(r) \/ AnswerLost(r)
  \/ TokenExpires

Spec == Init /\ [][Next]_vars
-----------------------------------------------------------------------------
TypeOK ==
  /\ ServerTypeOK
  /\ cookie \in Tokens \cup {None}
  /\ status \in [Tabs -> {"loading", "authenticated", "unauthenticated"}]
  /\ flight \in [Requests -> [tab : Tabs \cup {None}, alone : BOOLEAN, mount : BOOLEAN,
                              at : {"idle", "waiting", "body", "done", "dropped"}]]
  /\ refreshing \in [Tabs -> Requests \cup {None}] /\ disabled \in [Tabs -> Requests \cup {None}]
  /\ call \in [Calls -> [tab : Tabs \cup {None}, at : {"idle", "joined", "resent"}]]
  /\ signedOut \in BOOLEAN

\* However many calls of a tab are refused, they share one refresh; beside it
\* there is at most the one the page load sent.  A page that is loading and the
\* calls that joined wait for a refresh that is under way (README.md:407,
\* api-client.ts:80, auth-provider.tsx:11, auth-store.ts:45).
CallsShareOneRefresh ==
  /\ \A tab \in Tabs, mount \in BOOLEAN :
       Cardinality({r \in Refreshes(tab) : flight[r].mount = mount}) <= 1
  /\ \A tab \in Tabs : status[tab] = "loading" => Refreshes(tab) # {}
  /\ \A c \in Calls : call[c].at = "joined" => refreshing[call[c].tab] \in Refreshes(call[c].tab)

\* The browser holds a token that was used only while the answer that replaces
\* it is on its way, or because that answer was lost: answers that arrive out
\* of order never put a used token back (auth/router.py:15, auth-store.ts:25).
CookieIsLive ==
  \A r \in Requests : Consumes(r, cookie) => flight[r].at \in {"waiting", "dropped"}

\* Two requests use one token only from two tabs, or when one of them is a
\* logout, waits for an answer the page has dropped, or is the refresh of a page
\* load beside the one of its calls: the refreshes of calls never collide with
\* each other, nor those of page loads (api-client.ts:80, auth-provider.tsx:11).
CallsNeverReuse ==
  \A t \in DOMAIN tokens : \A q, r \in Requests :
     q # r /\ Consumes(q, t) /\ Consumes(r, t) =>
       \/ flight[q].tab # flight[r].tab
       \/ "logout" \in {request[q].op, request[r].op}
       \/ "dropped" \in {flight[q].at, flight[r].at}
       \/ flight[q].mount # flight[r].mount

\* A logout that no other request of the browser overlapped ends the session in
\* every tab: until someone logs in there is no cookie, and no refresh on its
\* way could bring one back (auth/router.py:48, auth-store.ts:59).
UndisturbedLogoutSticks ==
  signedOut => cookie = None /\ \A r \in InFlight : request[r].op = "refresh" => request[r].token = None

\* A tab that was logged out does not show the session of the same token again
\* (README.md:415).  Refuted by a refresh that was under way.
LogoutIsFinal ==
  [][\A q, r \in Requests :
       /\ request[q].op = "logout" /\ flight[q].at = "done"
       /\ request[r].op = "refresh" /\ request[r].token = request[q].token
       /\ flight[r].tab = flight[q].tab /\ flight[r].at = "body" /\ flight'[r].at = "done"
       /\ status[flight[q].tab] = "unauthenticated"
       => status'[flight[q].tab] # "authenticated"]_vars

\* A page that is loaded restores the session (README.md:403): no other refresh of
\* that page, refused because the token was rotated, ends it again.  Refuted by
\* the refresh that the page's own calls start.
RestoredSessionKept ==
  [][\A q, r \in Requests :
       /\ flight[q].mount /\ flight[q].at = "done" /\ request[q].step = "ok"
       /\ flight[r].tab = flight[q].tab /\ flight[r].at = "body" /\ flight'[r].at = "done"
       /\ request[r].op = "refresh" /\ request[r].token = request[q].token
       /\ request[r].step = "refused" /\ request[r].found = None
       /\ status[flight[q].tab] = "authenticated"
       => status'[flight[q].tab] = "authenticated"]_vars
=============================================================================
