----------------------- MODULE BrowserSession_proofs -----------------------
(***************************************************************************)
(* Proofs about sessions as a browser sees them, for any number of         *)
(* requests, tabs and calls and any tokens that may expire; and that the   *)
(* browser sends the server nothing RefreshTokens does not allow.          *)
(***************************************************************************)
EXTENDS BrowserSession, RefreshTokens_proofs, FiniteSetTheorems

---------------------------------------------------------------------------
(* The inductive invariant.                                                *)

BrowserTypeOK ==
  /\ cookie \in Tokens \cup {None}
  /\ status \in [Tabs -> {"loading", "authenticated", "unauthenticated"}]
  /\ flight \in [Requests -> [tab : Tabs \cup {None}, alone : BOOLEAN, mount : BOOLEAN,
                              at : {"idle", "waiting", "body", "done", "dropped"}]]
  /\ refreshing \in [Tabs -> Requests \cup {None}] /\ disabled \in [Tabs -> Requests \cup {None}]
  /\ call \in [Calls -> [tab : Tabs \cup {None}, at : {"idle", "joined", "resent"}]]
  /\ signedOut \in BOOLEAN

\* A request was sent by a tab, and its answer arrives after the server gave it.
FlightOK(r) ==
  /\ flight[r].at = "idle" <=> request[r].op = "none"
  /\ flight[r].at # "idle" => flight[r].tab \in Tabs
  /\ flight[r].at \in {"body", "done"} => request[r].step \in Answers

\* A token is in the cookie, or was sent, after the answer that carried it.
Delivered(t) == t \in Requests => flight[t].at \notin {"idle", "waiting"}
CookieOK ==
  /\ cookie \in DOMAIN tokens \cup {None} /\ Delivered(cookie) /\ CookieIsLive
  /\ \A r \in Requests : Delivered(request[r].token)

\* What is known of a logout nothing has disturbed, under way and ended.
AloneOK(r) ==
  flight[r].alone =>
    /\ InFlight = {r}
    /\ flight[r].at = "body" /\ request[r].op = "logout" /\ request[r].step = "ok" => cookie = None
SignedOutOK ==
  signedOut =>
    cookie = None /\ \A r \in InFlight : request[r].token = None /\ request[r].op # "login"

\* The refreshes of a tab: the one its calls share and the one that loads it.
PageOK(tab) ==
  /\ status[tab] = "loading" => Refreshes(tab) # {}
  /\ \A r \in Refreshes(tab) : refreshing[tab] = r \/ flight[r].mount
  /\ \A q, r \in Refreshes(tab) : flight[q].mount /\ flight[r].mount => q = r
  /\ refreshing[tab] # None => refreshing[tab] \in Refreshes(tab) /\ ~flight[refreshing[tab]].mount
CallOK(c) ==
  /\ call[c].at # "idle" => call[c].tab \in Tabs
  /\ call[c].at = "idle" => call[c].tab = None
  /\ call[c].at = "joined" => refreshing[call[c].tab] # None

\* A page that sends a token again, for the same purpose, was refused it.
KeptRefresh(r) == request[r].op = "refresh" /\ flight[r].at # "dropped"
RetryOK(q, r) ==
  /\ q # r /\ KeptRefresh(q) /\ KeptRefresh(r)
  /\ flight[q].tab = flight[r].tab /\ flight[q].mount = flight[r].mount
  /\ request[q].token = request[r].token
  => "refused" \in {request[q].step, request[r].step}

BrowserInv ==
  /\ ServerInv /\ BrowserTypeOK
  /\ \A r \in Requests : FlightOK(r) /\ AloneOK(r)
  /\ CookieOK /\ SignedOutOK
  /\ \A tab \in Tabs : PageOK(tab)
  /\ \A c \in Calls : CallOK(c)
  /\ \A q, r \in Requests : RetryOK(q, r)

---------------------------------------------------------------------------
(* What each kind of step does to requests and flights.                    *)

USE DEF Delivered

(* A browser sends what the server may receive, and whatever the server    *)
(* does keeps its invariant.                                               *)
LEMMA SendFacts ==
  ASSUME BrowserInv, NEW r \in Requests, NEW tab \in Tabs, NEW op \in Operations,
         NEW mount \in BOOLEAN, NEW gone \in SUBSET InFlight, Send(r, tab, op, mount, gone)
  PROVE  /\ ServerInv' /\ tokens' = tokens /\ audit' = audit /\ expired' = expired
         /\ request[r].op = "none" /\ flight[r].at = "idle"
         /\ request'[r] = NewRequest(op, cookie)
         /\ \A q \in Requests \ {r} : request'[q] = request[q]
         /\ flight' \in [Requests -> [tab : Tabs \cup {None}, alone : BOOLEAN, mount : BOOLEAN,
                                      at : {"idle", "waiting", "body", "done", "dropped"}]]
         /\ flight'[r].tab = tab /\ flight'[r].at = "waiting"
         /\ flight'[r].mount = mount /\ (flight'[r].alone => InFlight = gone)
         /\ \A q \in Requests \ {r} : flight'[q].tab = flight[q].tab /\ flight'[q].mount = flight[q].mount
         /\ \A q \in gone : flight'[q].at = "dropped"
         /\ \A q \in Requests \ (gone \cup {r}) : flight'[q].at = flight[q].at
         /\ \A q \in Requests \ {r} : flight'[q].alone => flight[q].alone /\ q \notin InFlight
         /\ InFlight' = (InFlight \ gone) \cup {r}
<1>1. /\ flight[r].at = "idle" /\ Receive(r, op, cookie)
      /\ flight' = [q \in Requests |->
                     CASE q = r -> [tab |-> tab, at |-> "waiting", alone |-> InFlight \ gone = {}, mount |-> mount]
                       [] q \in gone -> [flight[q] EXCEPT !.at = "dropped", !.alone = FALSE]
                       [] q \in InFlight \ gone -> [flight[q] EXCEPT !.alone = FALSE]
                       [] OTHER -> flight[q]]
  BY DEF Send, Fresh
<1>2. request[r].op = "none"
  BY <1>1 DEF BrowserInv, FlightOK
<1>3. cookie \in DOMAIN tokens \cup {None} /\ ServerInv
  BY DEF BrowserInv, CookieOK
<1>4. ServerInv'
  BY <1>1, <1>3, ServeInv
<1>5. /\ request' = [request EXCEPT ![r] = NewRequest(op, cookie)]
      /\ tokens' = tokens /\ audit' = audit /\ expired' = expired
  BY <1>1 DEF Receive
<1>6. DOMAIN request = Requests
  BY <1>3 DEF ServerInv, ServerTypeOK
<1>7. flight \in [Requests -> [tab : Tabs \cup {None}, alone : BOOLEAN, mount : BOOLEAN,
                               at : {"idle", "waiting", "body", "done", "dropped"}]]
  BY DEF BrowserInv, BrowserTypeOK
<1>8. gone \subseteq Requests /\ r \notin InFlight
  BY <1>1 DEF InFlight
<1>9. PICK b \in BOOLEAN : flight'[r] = [tab |-> tab, at |-> "waiting", alone |-> b, mount |-> mount] /\ (b => InFlight \ gone = {})
  <2>1. flight'[r] = [tab |-> tab, at |-> "waiting", alone |-> InFlight \ gone = {}, mount |-> mount]
    <3> DEFINE After(q) == CASE q = r -> [tab |-> tab, at |-> "waiting", alone |-> InFlight \ gone = {}, mount |-> mount]
                            [] q \in gone -> [flight[q] EXCEPT !.at = "dropped", !.alone = FALSE]
                            [] q \in InFlight \ gone -> [flight[q] EXCEPT !.alone = FALSE]
                            [] OTHER -> flight[q]
    <3>1. flight' = [q \in Requests |-> After(q)]
      BY <1>1
    <3>2. After(r) = [tab |-> tab, at |-> "waiting", alone |-> InFlight \ gone = {}, mount |-> mount]
      BY <1>1, <1>8 DEF InFlight
    <3> HIDE DEF After
    <3> QED
      BY <3>1, <3>2, Zenon
  <2>2. CASE InFlight \ gone = {}
    <3>1. (InFlight \ gone = {}) = TRUE
      BY <2>2
    <3>2. flight'[r] = [tab |-> tab, at |-> "waiting", alone |-> TRUE, mount |-> mount]
      BY <2>1, <3>1, Zenon
    <3> QED
      BY <2>2, <3>2
  <2>3. CASE InFlight \ gone # {}
    <3>1. (InFlight \ gone = {}) = FALSE
      BY <2>3
    <3>2. flight'[r] = [tab |-> tab, at |-> "waiting", alone |-> FALSE, mount |-> mount]
      BY <2>1, <3>1, Zenon
    <3> QED
      BY <3>2
  <2> QED
    BY <2>2, <2>3
<1>10. ASSUME NEW q \in gone PROVE flight'[q] = [flight[q] EXCEPT !.at = "dropped", !.alone = FALSE]
  BY <1>1, <1>8
<1>11. ASSUME NEW q \in InFlight \ gone PROVE flight'[q] = [flight[q] EXCEPT !.alone = FALSE]
  BY <1>1, <1>8 DEF InFlight
<1>12. ASSUME NEW q \in Requests \ (InFlight \cup {r}) PROVE flight'[q] = flight[q]
  BY <1>1, <1>8
<1>13. ASSUME NEW q \in Requests
       PROVE  /\ flight'[q] \in [tab : Tabs \cup {None}, alone : BOOLEAN, mount : BOOLEAN,
                                 at : {"idle", "waiting", "body", "done", "dropped"}]
              /\ q \in gone => flight'[q].at = "dropped"
              /\ q # r => /\ flight'[q].tab = flight[q].tab /\ flight'[q].mount = flight[q].mount
                          /\ q \notin gone => flight'[q].at = flight[q].at
                          /\ flight'[q].alone => flight[q].alone /\ q \notin InFlight
  <2>1. CASE q = r
    BY <1>8, <1>9, <2>1
  <2>2. CASE q \in gone
    BY <1>7, <1>8, <1>10, <2>2, ZenonT(40)
  <2>3. CASE q \in InFlight \ gone
    <3>1. /\ flight[q] \in [tab : Tabs \cup {None}, alone : BOOLEAN, mount : BOOLEAN,
                             at : {"idle", "waiting", "body", "done", "dropped"}]
          /\ flight'[q] = [flight[q] EXCEPT !.alone = FALSE]
      BY <1>7, <1>11, <2>3
    <3>2. q \notin gone /\ q # r
      BY <1>8, <2>3
    <3> QED
      BY <3>1, <3>2
  <2>4. CASE q \in Requests \ (InFlight \cup {r})
    BY <1>7, <1>8, <1>12, <2>4
  <2> QED
    BY <2>1, <2>2, <2>3, <2>4
<1>14. flight' \in [Requests -> [tab : Tabs \cup {None}, alone : BOOLEAN, mount : BOOLEAN,
                                 at : {"idle", "waiting", "body", "done", "dropped"}]]
  BY <1>1, <1>13
<1>15. flight'[r].alone => InFlight = gone
  <2>1. flight'[r].alone = b
    BY <1>9
  <2>2. b => InFlight \ gone = {}
    BY <1>9
  <2>3. gone \subseteq InFlight
    OBVIOUS
  <2> QED
    BY <2>1, <2>2, <2>3
<1>16. InFlight' = (InFlight \ gone) \cup {r}
  <2>1. \A q \in Requests : flight'[q].at \in {"waiting", "body"} <=> q \in (InFlight \ gone) \cup {r}
    BY <1>8, <1>9, <1>13 DEF InFlight
  <2>2. InFlight' = {q \in Requests : flight'[q].at \in {"waiting", "body"}}
    BY DEF InFlight
  <2>3. (InFlight \ gone) \cup {r} \subseteq Requests
    BY DEF InFlight
  <2> QED
    BY <2>1, <2>2, <2>3
<1>17. request'[r] = NewRequest(op, cookie) /\ \A q \in Requests \ {r} : request'[q] = request[q]
  BY <1>5, <1>6
<1>18. flight'[r].tab = tab /\ flight'[r].at = "waiting" /\ flight'[r].mount = mount
  BY <1>9
<1> QED
  BY <1>1, <1>2, <1>4, <1>5, <1>8, <1>13, <1>14, <1>15, <1>16, <1>17, <1>18

(* Sending keeps what concerns the cookie, logouts and retries.            *)
LEMMA SendKeeps ==
  ASSUME BrowserInv, NEW r \in Requests, NEW tab \in Tabs, NEW op \in Operations,
         NEW mount \in BOOLEAN, NEW gone \in SUBSET InFlight, Send(r, tab, op, mount, gone), cookie' = cookie,
         signedOut' => signedOut /\ op # "login",
         op = "refresh" => \A q \in Refreshes(tab) : q \in gone \/ flight[q].mount # mount
  PROVE  /\ \A q \in Requests : FlightOK(q)' /\ AloneOK(q)'
         /\ CookieOK' /\ SignedOutOK'
         /\ \A p, q \in Requests : RetryOK(p, q)'
<1>1. /\ ServerInv' /\ tokens' = tokens /\ audit' = audit
      /\ request[r].op = "none" /\ flight[r].at = "idle"
      /\ request'[r] = NewRequest(op, cookie)
      /\ \A q \in Requests \ {r} : request'[q] = request[q]
      /\ flight'[r].tab = tab /\ flight'[r].at = "waiting"
      /\ flight'[r].mount = mount /\ (flight'[r].alone => InFlight = gone)
      /\ \A q \in Requests \ {r} : flight'[q].tab = flight[q].tab /\ flight'[q].mount = flight[q].mount
      /\ \A q \in gone : flight'[q].at = "dropped"
      /\ \A q \in Requests \ (gone \cup {r}) : flight'[q].at = flight[q].at
      /\ \A q \in Requests \ {r} : flight'[q].alone => flight[q].alone /\ q \notin InFlight
      /\ InFlight' = (InFlight \ gone) \cup {r}
  BY SendFacts
<1>2. /\ ServerInv /\ \A q \in Requests : FlightOK(q) /\ AloneOK(q)
      /\ CookieOK /\ SignedOutOK /\ \A p, q \in Requests : RetryOK(p, q)
  BY DEF BrowserInv
<1>3. /\ request'[r].op = op /\ request'[r].token = cookie /\ request'[r].step = "received"
  BY <1>1 DEF NewRequest
<1>4. "received" \notin Answers /\ "none" \notin Operations
  BY DEF Answers, Operations
<1>5. \A q \in gone : flight[q].at \in {"waiting", "body"} /\ q # r /\ q \in Requests
  BY <1>1 DEF InFlight
<1>6. ASSUME NEW q \in Requests PROVE FlightOK(q)'
  <2>1. CASE q = r
    BY <1>1, <1>3, <1>4, <2>1 DEF FlightOK
  <2>2. CASE q # r /\ q \in gone
    BY <1>1, <1>2, <1>5, <2>2 DEF FlightOK
  <2>3. CASE q # r /\ q \notin gone
    BY <1>1, <1>2, <2>3 DEF FlightOK
  <2> QED
    BY <2>1, <2>2, <2>3
<1>7. ASSUME NEW q \in Requests PROVE AloneOK(q)'
  <2>1. CASE q = r
    BY <1>1, <1>5, <2>1 DEF AloneOK
  <2>2. CASE q # r
    BY <1>1, <1>2, <2>2 DEF AloneOK
  <2> QED
    BY <2>1, <2>2
<1>8. \A t : Delivered(t) => Delivered(t)' \/ t = r
  BY <1>1, <1>5
<1>9. CookieOK'
  <2>1. cookie' \in DOMAIN tokens' \cup {None} /\ Delivered(cookie)
    BY <1>1, <1>2 DEF CookieOK
  <2>2. cookie # r
    BY <1>1, <1>2 DEF CookieOK
  <2>3. Delivered(cookie)'
    BY <1>1, <1>5, <2>1, <2>2
  <2>4. ASSUME NEW q \in Requests PROVE Delivered(request[q].token)'
    <3>1. CASE q = r
      BY <1>3, <2>3, <3>1
    <3>2. CASE q # r
      <4>1. request'[q].token = request[q].token /\ Delivered(request[q].token)
        BY <1>1, <1>2, <3>2 DEF CookieOK
      <4> QED
        BY <1>1, <1>5, <4>1
    <3> QED
      BY <3>1, <3>2
  <2>5. CookieIsLive'
    <3> SUFFICES ASSUME NEW q \in Requests, Consumes(q, cookie)'
                 PROVE  flight'[q].at \in {"waiting", "dropped"}
      BY DEF CookieIsLive
    <3>1. CASE q = r
      BY <1>1, <3>1
    <3>2. CASE q # r
      <4>1. Consumes(q, cookie)
        BY <1>1, <3>2 DEF Consumes
      <4>2. flight[q].at \in {"waiting", "dropped"}
        BY <1>2, <4>1 DEF CookieOK, CookieIsLive
      <4> QED
        BY <1>1, <1>5, <3>2, <4>2
    <3> QED
      BY <3>1, <3>2
  <2> QED
    BY <2>1, <2>3, <2>4, <2>5 DEF CookieOK
<1>10. SignedOutOK'
  BY <1>1, <1>2, <1>3 DEF SignedOutOK, InFlight
<1>11. ASSUME NEW q \in Requests \ {r}, KeptRefresh(q)', op = "refresh", flight'[q].tab = tab,
              flight'[q].mount = mount, request'[q].token = cookie
       PROVE  request'[q].step = "refused"
  <2>1. /\ request[q].op = "refresh" /\ q \notin gone /\ flight[q].at # "dropped"
        /\ flight[q].tab = tab /\ flight[q].mount = mount
        /\ request[q].token = cookie /\ request'[q].step = request[q].step
    BY <1>1, <1>11 DEF KeptRefresh
  <2>2. q \notin InFlight
    BY <2>1, <1>11 DEF Refreshes, FlightsOf
  <2>3. flight[q].at = "done"
    <3>1. flight[q].at # "idle"
      BY <1>2, <2>1 DEF FlightOK
    <3>2. flight[q].at \in {"idle", "waiting", "body", "done", "dropped"}
      BY DEF BrowserInv, BrowserTypeOK
    <3> QED
      BY <2>1, <2>2, <3>1, <3>2 DEF InFlight
  <2>4. request[q].step \in {"ok", "refused"}
    BY <1>2, <2>3 DEF FlightOK, Answers
  <2>5. request[q].step # "ok"
    <3> SUFFICES ASSUME request[q].step = "ok" PROVE FALSE
      OBVIOUS
    <3>1. audit[q] = "TOKEN_REFRESH" /\ request[q].found \in DOMAIN tokens
          /\ request[q].found \in {None, request[q].token} /\ DOMAIN tokens \subseteq Tokens
      BY <1>2, <2>1 DEF ServerInv, RequestOK, RowsOK
    <3>2. None \notin Tokens
      BY TokenAssumption DEF Tokens, FirstToken, Requests
    <3>3. Consumes(q, cookie)
      BY <2>1, <3>1, <3>2 DEF Consumes
    <3> QED
      BY <1>2, <2>3, <3>3 DEF CookieOK, CookieIsLive
  <2> QED
    BY <2>1, <2>4, <2>5
<1>12. ASSUME NEW p \in Requests, NEW q \in Requests PROVE RetryOK(p, q)'
  <2>1. CASE p # r /\ q # r
    <3>1. KeptRefresh(p)' => KeptRefresh(p)
      BY <1>1, <1>5, <2>1 DEF KeptRefresh
    <3>2. KeptRefresh(q)' => KeptRefresh(q)
      BY <1>1, <1>5, <2>1 DEF KeptRefresh
    <3> QED
      BY <1>1, <1>2, <2>1, <3>1, <3>2 DEF RetryOK
  <2>2. CASE p = r
    BY <1>1, <1>3, <1>11, <2>2 DEF RetryOK, KeptRefresh
  <2>3. CASE q = r
    BY <1>1, <1>3, <1>11, <2>3 DEF RetryOK, KeptRefresh
  <2> QED
    BY <2>1, <2>2, <2>3
<1> QED
  BY <1>6, <1>7, <1>9, <1>10, <1>12

(* The server, and the time that passes, touch no field a page has sent.   *)
LEMMA ServeFields ==
  ASSUME BrowserInv, NEW r \in Requests, Serve(r)
  PROVE  /\ ServerInv' /\ request[r].step \notin Answers /\ request[r].op # "none"
         /\ audit[r] = None
         /\ \A q \in Requests \ {r} : request'[q] = request[q] /\ audit'[q] = audit[q]
         /\ request'[r].op = request[r].op /\ request'[r].token = request[r].token
         /\ DOMAIN tokens \subseteq DOMAIN tokens'
<1>0. ServerInv /\ RequestOK(r)
  BY DEF BrowserInv, ServerInv
<1>1. ServerInv' /\ DOMAIN tokens \subseteq DOMAIN tokens'
  BY <1>0, ServeInv, RowsGrow
<1>2. \A q \in Requests \ {r} : request'[q] = request[q] /\ audit'[q] = audit[q]
  BY <1>0, OwnRecordOnly
<1>3. request[r].step \in {"received", "commit", "expire"} /\ request[r].op # "none"
  <2>1. CASE request[r].step = "received"
    BY <1>0, <2>1 DEF Serve, Received, FindToken, LogoutFindsNothing, Refuse, CommitLogin,
       CommitRefresh, CommitLogout, CommitExpiry
  <2>2. CASE request[r].step # "received"
    BY <1>0, <2>2 DEF Serve, Received, FindToken, LogoutFindsNothing, Refuse, CommitLogin,
       CommitRefresh, CommitLogout, CommitExpiry, RequestOK
  <2> QED
    BY <2>1, <2>2
<1>4. request'[r].op = request[r].op /\ request'[r].token = request[r].token
  <2>1. CASE FindToken(r)
    <3>1. request' = [request EXCEPT ![r].found = request[r].token, ![r].seen = Committed,
             ![r].step = IF request[r].op = "refresh" /\ request[r].token \in expired THEN "expire" ELSE "commit"]
      BY <2>1, Zenon DEF FindToken
    <3>2. request \in [Requests -> [op : Operations \cup {"none"}, token : Tokens \cup {None},
                               found : Tokens \cup {None}, seen : SUBSET Requests,
                               step : {"received", "commit", "expire"} \cup Answers]]
      BY <1>0 DEF ServerInv, ServerTypeOK
    <3> QED
      BY <3>1, <3>2
  <2>2. CASE ~FindToken(r)
    <3>1. \/ LogoutFindsNothing(r) \/ Refuse(r) \/ CommitLogin(r) \/ CommitRefresh(r)
          \/ CommitLogout(r) \/ CommitExpiry(r)
      BY <2>2 DEF Serve
    <3> QED
      BY <1>0, <3>1, FieldsKept
  <2> QED
    BY <2>1, <2>2
<1>5. audit[r] = None
  BY <1>0, <1>3 DEF RequestOK
<1> QED
  BY <1>1, <1>2, <1>3, <1>4, <1>5 DEF Answers

(* A step of the server keeps what is said of its requests and tokens.     *)
LEMMA ServeKeeps ==
  ASSUME BrowserInv, NEW r \in Requests, Server(r)
  PROVE  /\ \A q \in Requests : FlightOK(q)' /\ AloneOK(q)'
         /\ CookieOK' /\ SignedOutOK'
         /\ \A p, q \in Requests : RetryOK(p, q)'
<1>1. Serve(r) /\ cookie' = cookie /\ flight' = flight /\ signedOut' = signedOut
  BY DEF Server, browserVars
<1>2. /\ ServerInv' /\ request[r].step \notin Answers /\ request[r].op # "none"
      /\ audit[r] = None
      /\ \A q \in Requests \ {r} : request'[q] = request[q] /\ audit'[q] = audit[q]
      /\ request'[r].op = request[r].op /\ request'[r].token = request[r].token
      /\ DOMAIN tokens \subseteq DOMAIN tokens'
  BY <1>1, ServeFields
<1>3. /\ \A q \in Requests : FlightOK(q) /\ AloneOK(q)
      /\ CookieOK /\ SignedOutOK /\ \A p, q \in Requests : RetryOK(p, q)
      /\ flight \in [Requests -> [tab : Tabs \cup {None}, alone : BOOLEAN, mount : BOOLEAN,
                                  at : {"idle", "waiting", "body", "done", "dropped"}]]
  BY DEF BrowserInv, BrowserTypeOK
<1>4. flight[r].at \in {"waiting", "dropped"}
  BY <1>2, <1>3 DEF FlightOK
<1>5. InFlight' = InFlight
  BY <1>1 DEF InFlight
<1>6. \A q \in Requests : FlightOK(q)'
  BY <1>1, <1>2, <1>3, <1>4 DEF FlightOK
<1>7. \A q \in Requests : AloneOK(q)'
  BY <1>1, <1>2, <1>3, <1>4, <1>5 DEF AloneOK
<1>8. CookieOK'
  <2>1. cookie' \in DOMAIN tokens' \cup {None} /\ Delivered(cookie)'
    BY <1>1, <1>2, <1>3 DEF CookieOK
  <2>2. \A q \in Requests : Delivered(request[q].token)'
    BY <1>1, <1>2, <1>3 DEF CookieOK
  <2>3. CookieIsLive'
    BY <1>1, <1>2, <1>3, <1>4 DEF CookieOK, CookieIsLive, Consumes
  <2> QED
    BY <2>1, <2>2, <2>3 DEF CookieOK
<1>9. SignedOutOK'
  BY <1>1, <1>2, <1>3, <1>5 DEF SignedOutOK, InFlight
<1>10. ASSUME NEW p \in Requests, NEW q \in Requests PROVE RetryOK(p, q)'
  <2>1. request[p].step = "refused" => request'[p].step = "refused"
    BY <1>2 DEF Answers
  <2>2. request[q].step = "refused" => request'[q].step = "refused"
    BY <1>2 DEF Answers
  <2>3. /\ request'[p].op = request[p].op /\ request'[p].token = request[p].token
        /\ request'[q].op = request[q].op /\ request'[q].token = request[q].token
    BY <1>2
  <2>4. /\ KeptRefresh(p)' => KeptRefresh(p)
        /\ KeptRefresh(q)' => KeptRefresh(q)
    BY <1>1, <2>3 DEF KeptRefresh
  <2> SUFFICES ASSUME p # q, KeptRefresh(p)', KeptRefresh(q)', flight'[p].tab = flight'[q].tab,
                      flight'[p].mount = flight'[q].mount, request'[p].token = request'[q].token
               PROVE  request'[p].step = "refused" \/ request'[q].step = "refused"
    BY DEF RetryOK
  <2>5. request[p].step = "refused" \/ request[q].step = "refused"
    BY <1>1, <1>3, <2>3, <2>4 DEF RetryOK
  <2> QED
    BY <2>1, <2>2, <2>5
<1> QED
  BY <1>6, <1>7, <1>8, <1>9, <1>10

(* An answer that succeeded carries the token its request minted, unless   *)
(* it is the answer of a logout.                                           *)
LEMMA AnswerCarriesToken ==
  ASSUME BrowserInv, NEW r \in Requests, flight[r].at = "waiting", request[r].step = "ok",
         request[r].op # "logout"
  PROVE  /\ r \in DOMAIN tokens /\ request[r].op \in {"login", "refresh"}
         /\ request[r].op = "refresh" => request[r].token # None
<1>1. /\ FlightOK(r) /\ RequestOK(r) /\ AuditExplainsTokens /\ DOMAIN tokens \subseteq Tokens
      /\ request[r].op \in Operations \cup {"none"}
  BY DEF BrowserInv, ServerInv, ServerTypeOK, RowsOK
<1>2. request[r].op \in {"login", "refresh"}
  BY <1>1 DEF FlightOK, Operations
<1>3. audit[r] \in {"LOGIN_SUCCESS", "TOKEN_REFRESH"}
  BY <1>1, <1>2 DEF RequestOK
<1>4. None \notin Tokens
  BY TokenAssumption DEF Tokens, FirstToken, Requests
<1>5. request[r].op = "refresh" => request[r].token # None
  BY <1>1, <1>4 DEF RequestOK
<1> QED
  BY <1>1, <1>2, <1>3, <1>5 DEF AuditExplainsTokens

(* The headers of an answer keep what is said of the cookie and of flights. *)
LEMMA ArriveKeeps ==
  ASSUME BrowserInv, NEW r \in Requests, AnswerArrives(r)
  PROVE  /\ \A q \in Requests : FlightOK(q)' /\ AloneOK(q)'
         /\ CookieOK' /\ SignedOutOK'
         /\ \A p, q \in Requests : RetryOK(p, q)'
         /\ InFlight' = InFlight
         /\ \A q \in Requests : flight'[q].tab = flight[q].tab /\ flight'[q].mount = flight[q].mount
         /\ flight' \in [Requests -> [tab : Tabs \cup {None}, alone : BOOLEAN, mount : BOOLEAN,
                                      at : {"idle", "waiting", "body", "done", "dropped"}]]
<1>1. /\ flight[r].at = "waiting" /\ request[r].step \in Answers
      /\ flight' = [flight EXCEPT ![r].at = "body"]
      /\ tokens' = tokens /\ request' = request /\ audit' = audit /\ signedOut' = signedOut
      /\ cookie' = IF request[r].step # "ok" THEN cookie ELSE IF request[r].op = "logout" THEN None ELSE r
  BY DEF AnswerArrives, serverVars
<1>3. /\ \A q \in Requests : FlightOK(q) /\ AloneOK(q) /\ RequestOK(q)
      /\ CookieOK /\ SignedOutOK /\ \A p, q \in Requests : RetryOK(p, q)
      /\ flight \in [Requests -> [tab : Tabs \cup {None}, alone : BOOLEAN, mount : BOOLEAN,
                                  at : {"idle", "waiting", "body", "done", "dropped"}]]
  BY DEF BrowserInv, BrowserTypeOK, ServerInv
<1>4. /\ flight'[r].at = "body"
      /\ \A q \in Requests : /\ flight'[q].tab = flight[q].tab /\ flight'[q].mount = flight[q].mount
                              /\ flight'[q].alone = flight[q].alone
      /\ \A q \in Requests \ {r} : flight'[q].at = flight[q].at
      /\ flight' \in [Requests -> [tab : Tabs \cup {None}, alone : BOOLEAN, mount : BOOLEAN,
                                   at : {"idle", "waiting", "body", "done", "dropped"}]]
  BY <1>1, <1>3
<1>5. InFlight' = InFlight
  BY <1>1, <1>4 DEF InFlight
<1>6. \A q \in Requests : FlightOK(q)'
  BY <1>1, <1>3, <1>4 DEF FlightOK
<1>7. ASSUME NEW q \in Requests PROVE AloneOK(q)'
  <2>1. CASE q = r
    BY <1>1, <1>3, <1>4, <1>5, <2>1 DEF AloneOK
  <2>2. CASE q # r
    <3>1. r \in InFlight
      BY <1>1 DEF InFlight
    <3>2. ~flight[q].alone
      BY <1>3, <2>2, <3>1 DEF AloneOK
    <3> QED
      BY <1>4, <3>2 DEF AloneOK
  <2> QED
    BY <2>1, <2>2
<1>8. None \notin Requests /\ None \notin DOMAIN tokens
  BY TokenAssumption DEF Tokens, FirstToken, Requests, BrowserInv, ServerInv, RowsOK
<1>9. CookieOK'
  <2>1. ASSUME NEW t, Delivered(t)
        PROVE  t \in Requests => flight'[t].at \notin {"idle", "waiting"}
    BY <1>1, <1>4, <2>1
  <2>2. \A q \in Requests : Delivered(request[q].token)'
    BY <1>1, <1>3, <2>1 DEF CookieOK
  <2>3. CASE request[r].step # "ok"
    <3>1. cookie' = cookie
      BY <1>1, <2>3
    <3>2. audit[r] = None /\ None \notin {"TOKEN_REFRESH", "LOGOUT"}
      BY <1>3, <2>3, TokenAssumption DEF RequestOK, AuditActions
    <3>3. ASSUME NEW q \in Requests, Consumes(q, cookie)
          PROVE  flight'[q].at \in {"waiting", "dropped"}
      BY <1>3, <1>4, <3>2, <3>3 DEF CookieOK, CookieIsLive, Consumes
    <3>4. CookieIsLive'
      BY <1>1, <3>1, <3>3 DEF CookieIsLive, Consumes
    <3>5. cookie' \in DOMAIN tokens' \cup {None} /\ Delivered(cookie)'
      BY <1>1, <1>3, <2>1, <3>1 DEF CookieOK
    <3> QED
      BY <2>2, <3>4, <3>5 DEF CookieOK
  <2>4. CASE request[r].step = "ok" /\ request[r].op = "logout"
    <3>1. cookie' = None
      BY <1>1, <2>4
    <3>2. \A q \in Requests : ~Consumes(q, None)
      BY <1>3, <1>8 DEF RequestOK, Consumes
    <3> QED
      BY <1>1, <1>8, <2>2, <3>1, <3>2 DEF CookieOK, CookieIsLive, Consumes
  <2>5. CASE request[r].step = "ok" /\ request[r].op # "logout"
    <3>1. cookie' = r
      BY <1>1, <2>5
    <3>2. r \in DOMAIN tokens
      BY <1>1, <2>5, AnswerCarriesToken
    <3>3. ASSUME NEW q \in Requests PROVE ~Consumes(q, r)
      <4>1. request[q].token # r
        BY <1>1, <1>3 DEF CookieOK
      <4>2. r # None
        BY <1>8
      <4> QED
        BY <1>3, <1>8, <4>1, <4>2 DEF RequestOK, Consumes
    <3>4. CookieIsLive'
      BY <1>1, <3>1, <3>3 DEF CookieIsLive, Consumes
    <3> QED
      BY <1>1, <1>4, <2>2, <3>1, <3>2, <3>4 DEF CookieOK
  <2> QED
    BY <2>3, <2>4, <2>5
<1>10. SignedOutOK'
  <2> SUFFICES ASSUME signedOut PROVE cookie' = None
    BY <1>1, <1>3, <1>5 DEF SignedOutOK
  <2>1. cookie = None /\ request[r].token = None /\ request[r].op # "login"
    BY <1>1, <1>3 DEF SignedOutOK, InFlight
  <2>2. request[r].step = "ok" => request[r].op = "logout"
    BY <1>1, <2>1, AnswerCarriesToken
  <2> QED
    BY <1>1, <2>1, <2>2
<1>11. ASSUME NEW p \in Requests, NEW q \in Requests PROVE RetryOK(p, q)'
  <2>1. (KeptRefresh(p)' => KeptRefresh(p)) /\ (KeptRefresh(q)' => KeptRefresh(q))
    BY <1>1, <1>4 DEF KeptRefresh
  <2> QED
    BY <1>1, <1>3, <1>4, <2>1 DEF RetryOK
<1> QED
  BY <1>4, <1>5, <1>6, <1>7, <1>9, <1>10, <1>11

(* What the end of a request, read or lost, leaves of its flight.          *)
LEMMA SettleFacts ==
  ASSUME BrowserInv, NEW r \in Requests, BodyRead(r) \/ AnswerLost(r)
  PROVE  /\ tokens' = tokens /\ request' = request /\ audit' = audit /\ expired' = expired
         /\ cookie' = cookie /\ r \in InFlight /\ InFlight' = InFlight \ {r}
         /\ flight' \in [Requests -> [tab : Tabs \cup {None}, alone : BOOLEAN, mount : BOOLEAN,
                                      at : {"idle", "waiting", "body", "done", "dropped"}]]
         /\ \A q \in Requests : flight'[q].tab = flight[q].tab /\ flight'[q].mount = flight[q].mount
         /\ \A q \in Requests \ {r} : flight'[q] = flight[q]
         /\ flight'[r].at = IF flight[r].at = "body" THEN "done" ELSE "dropped"
         /\ flight'[r].alone = FALSE
         /\ \E ok \in BOOLEAN : Settle(r, ok)
         /\ signedOut' => \/ signedOut
                          \/ /\ request[r].op = "logout" /\ request[r].step = "ok"
                             /\ flight[r].alone /\ flight[r].at = "body"
<1>1. flight \in [Requests -> [tab : Tabs \cup {None}, alone : BOOLEAN, mount : BOOLEAN,
                               at : {"idle", "waiting", "body", "done", "dropped"}]]
  BY DEF BrowserInv, BrowserTypeOK
<1>2. /\ \E ok \in BOOLEAN : Settle(r, ok)
      /\ flight[r].at \in {"waiting", "body"}
      /\ flight' = [flight EXCEPT ![r].at = IF flight[r].at = "body" THEN "done" ELSE "dropped",
                                  ![r].alone = FALSE]
      /\ signedOut' => \/ signedOut
                       \/ /\ request[r].op = "logout" /\ request[r].step = "ok"
                          /\ flight[r].alone /\ flight[r].at = "body"
  <2>1. CASE BodyRead(r)
    <3>1. PICK ok \in BOOLEAN : ok <=> request[r].step = "ok"
      OBVIOUS
    <3>2. flight[r].at = "body" /\ flight' = [flight EXCEPT ![r].at = "done", ![r].alone = FALSE]
      BY <2>1 DEF BodyRead
    <3>3. Settle(r, ok)
      <4>1. ok = (request[r].step = "ok")
        BY <3>1
      <4> QED
        BY <2>1, <4>1, Zenon DEF BodyRead
    <3>4. signedOut' = (signedOut \/ (request[r].op = "logout" /\ ok /\ flight[r].alone))
      BY <3>3 DEF Settle
    <3> QED
      BY <3>1, <3>2, <3>3, <3>4
  <2>2. CASE AnswerLost(r)
    <3>1. /\ flight[r].at \in {"waiting", "body"} /\ Settle(r, FALSE)
          /\ flight' = [flight EXCEPT ![r].at = IF @ = "waiting" THEN "dropped" ELSE "done",
                                      ![r].alone = FALSE]
      BY <2>2 DEF AnswerLost
    <3>2. signedOut' = signedOut
      BY <3>1 DEF Settle, BrowserInv, BrowserTypeOK
    <3> QED
      BY <1>1, <3>1, <3>2
  <2> QED
    BY <2>1, <2>2
<1>3. /\ tokens' = tokens /\ request' = request /\ audit' = audit /\ expired' = expired
      /\ cookie' = cookie
  BY <1>2 DEF Settle, serverVars
<1>4. /\ flight' \in [Requests -> [tab : Tabs \cup {None}, alone : BOOLEAN, mount : BOOLEAN,
                                   at : {"idle", "waiting", "body", "done", "dropped"}]]
      /\ \A q \in Requests : flight'[q].tab = flight[q].tab /\ flight'[q].mount = flight[q].mount
      /\ \A q \in Requests \ {r} : flight'[q] = flight[q]
      /\ flight'[r].at = IF flight[r].at = "body" THEN "done" ELSE "dropped"
      /\ flight'[r].alone = FALSE
  BY <1>1, <1>2
<1>5. r \in InFlight /\ InFlight' = InFlight \ {r}
  BY <1>2, <1>4 DEF InFlight
<1> QED
  BY <1>2, <1>3, <1>4, <1>5

(* The end of a request keeps what is said of the server and of flights.   *)
LEMMA SettleKeeps ==
  ASSUME BrowserInv, NEW r \in Requests, BodyRead(r) \/ AnswerLost(r)
  PROVE  /\ \A q \in Requests : FlightOK(q)' /\ AloneOK(q)'
         /\ CookieOK' /\ SignedOutOK'
         /\ \A p, q \in Requests : RetryOK(p, q)'
<1>1. /\ tokens' = tokens /\ request' = request /\ audit' = audit
      /\ cookie' = cookie /\ r \in InFlight /\ InFlight' = InFlight \ {r}
      /\ \A q \in Requests : flight'[q].tab = flight[q].tab /\ flight'[q].mount = flight[q].mount
      /\ \A q \in Requests \ {r} : flight'[q] = flight[q]
      /\ flight'[r].at = IF flight[r].at = "body" THEN "done" ELSE "dropped"
      /\ flight'[r].alone = FALSE
      /\ signedOut' => \/ signedOut
                       \/ /\ request[r].op = "logout" /\ request[r].step = "ok"
                          /\ flight[r].alone /\ flight[r].at = "body"
  BY SettleFacts
<1>2. /\ \A q \in Requests : FlightOK(q) /\ AloneOK(q)
      /\ CookieOK /\ SignedOutOK /\ \A p, q \in Requests : RetryOK(p, q)
  BY DEF BrowserInv
<1>3. flight[r].at \in {"waiting", "body"}
  BY <1>1 DEF InFlight
<1>4. \A q \in Requests : FlightOK(q)'
  BY <1>1, <1>2, <1>3 DEF FlightOK
<1>5. \A q \in Requests : AloneOK(q)'
  BY <1>1, <1>2 DEF AloneOK
<1>6. CookieOK'
  <2>1. cookie' \in DOMAIN tokens' \cup {None} /\ Delivered(cookie)'
    BY <1>1, <1>2, <1>3 DEF CookieOK
  <2>2. \A q \in Requests : Delivered(request[q].token)'
    BY <1>1, <1>2, <1>3 DEF CookieOK
  <2>3. CookieIsLive'
    BY <1>1, <1>2, <1>3 DEF CookieOK, CookieIsLive, Consumes
  <2> QED
    BY <2>1, <2>2, <2>3 DEF CookieOK
<1>7. SignedOutOK'
  <2>1. CASE signedOut
    BY <1>1, <1>2, <2>1 DEF SignedOutOK
  <2>2. CASE ~signedOut /\ signedOut'
    <3>1. InFlight = {r} /\ cookie = None
      BY <1>1, <1>2, <2>2 DEF AloneOK
    <3> QED
      BY <1>1, <3>1 DEF SignedOutOK
  <2>3. CASE ~signedOut'
    BY <2>3 DEF SignedOutOK
  <2> QED
    BY <2>1, <2>2, <2>3
<1>8. ASSUME NEW p \in Requests, NEW q \in Requests PROVE RetryOK(p, q)'
  <2>1. (KeptRefresh(p)' => KeptRefresh(p)) /\ (KeptRefresh(q)' => KeptRefresh(q))
    BY <1>1, <1>3 DEF KeptRefresh
  <2> QED
    BY <1>1, <1>2, <2>1 DEF RetryOK
<1> QED
  BY <1>4, <1>5, <1>6, <1>7, <1>8

---------------------------------------------------------------------------
(* The refresh a tab waits for.                                            *)

(* The flights of each tab after a request was sent.                       *)
LEMMA SendFlights ==
  ASSUME BrowserInv, NEW r \in Requests, NEW tab \in Tabs, NEW op \in Operations,
         NEW mount \in BOOLEAN, NEW gone \in SUBSET InFlight, Send(r, tab, op, mount, gone)
  PROVE  /\ Refreshes(tab)' = (Refreshes(tab) \ gone) \cup (IF op = "refresh" THEN {r} ELSE {})
         /\ \A t \in Tabs \ {tab} : Refreshes(t)' = Refreshes(t) \ gone
         /\ flight'[r].mount = mount
         /\ \A t \in Tabs : \A q \in Refreshes(t) : flight'[q].mount = flight[q].mount
<1>1. /\ request[r].op = "none" /\ flight[r].at = "idle"
      /\ request'[r] = NewRequest(op, cookie)
      /\ \A q \in Requests \ {r} : request'[q] = request[q]
      /\ flight'[r].tab = tab /\ flight'[r].mount = mount
      /\ \A q \in Requests \ {r} : flight'[q].tab = flight[q].tab /\ flight'[q].mount = flight[q].mount
      /\ InFlight' = (InFlight \ gone) \cup {r}
  BY SendFacts
<1>2. r \notin InFlight /\ InFlight \subseteq Requests /\ request'[r].op = op
  BY <1>1 DEF InFlight, NewRequest
<1>3. ASSUME NEW t, NEW q
      PROVE  q \in FlightsOf(t)' <=> q \in FlightsOf(t) \ gone \/ (q = r /\ t = tab)
  BY <1>1, <1>2 DEF FlightsOf
<1>4. ASSUME NEW t, NEW q
      PROVE  /\ q \in Refreshes(t)' <=>
                  q \in Refreshes(t) \ gone \/ (q = r /\ t = tab /\ op = "refresh")
             /\ q \in Refreshes(t) => q \in Requests \ {r}
  <2>1. q \in Refreshes(t)' <=> q \in FlightsOf(t)' /\ request'[q].op = "refresh"
    BY DEF Refreshes
  <2>2. q \in Refreshes(t) <=> q \in FlightsOf(t) /\ request[q].op = "refresh"
    BY DEF Refreshes
  <2>3. q \in FlightsOf(t) => q \in Requests \ {r}
    BY <1>2 DEF FlightsOf
  <2> QED
    BY <1>1, <1>2, <1>3, <2>1, <2>2, <2>3
<1> QED
  BY <1>1, <1>4

(* A tab whose refreshes stay as they are.                                 *)
LEMMA PageSame ==
  ASSUME BrowserInv, NEW t \in Tabs, Refreshes(t)' = Refreshes(t), refreshing'[t] = refreshing[t],
         status'[t] \in {status[t], "authenticated", "unauthenticated"},
         \A q \in Refreshes(t) : flight'[q].mount = flight[q].mount
  PROVE  PageOK(t)'
<1>1. PageOK(t)
  BY DEF BrowserInv
<1>2. refreshing'[t] # None => flight'[refreshing'[t]].mount = flight[refreshing[t]].mount
  BY <1>1 DEF PageOK
<1> QED
  BY <1>1, <1>2 DEF PageOK

(* A page that is loaded waits for the refresh it sends.                   *)
LEMMA LoadPageKeeps ==
  ASSUME BrowserInv, NEW tab \in Tabs, LoadPage(tab)
  PROVE  BrowserInv'
<1>0. PICK mount \in BOOLEAN : mount = TRUE
  OBVIOUS
<1>1. PICK r \in Requests : Send(r, tab, "refresh", mount, FlightsOf(tab))
  BY <1>0, Zenon DEF LoadPage
<1>2. /\ status' = [status EXCEPT ![tab] = "loading"]
      /\ refreshing' = [refreshing EXCEPT ![tab] = None]
      /\ disabled' = [disabled EXCEPT ![tab] = None]
      /\ call' = [c \in Calls |-> IF call[c].tab = tab THEN NoCall ELSE call[c]]
      /\ cookie' = cookie /\ signedOut' = signedOut
  BY DEF LoadPage
<1>3. FlightsOf(tab) \in SUBSET InFlight /\ "refresh" \in Operations
  BY DEF FlightsOf, Operations
<1>4. /\ \A q \in Requests : FlightOK(q)' /\ AloneOK(q)'
      /\ CookieOK' /\ SignedOutOK'
      /\ \A p, q \in Requests : RetryOK(p, q)'
  <2>1. \A q \in Refreshes(tab) : q \in FlightsOf(tab)
    BY DEF Refreshes
  <2> QED
    BY <1>1, <1>2, <1>3, <2>1, SendKeeps
<1>5. /\ ServerInv' /\ tokens' = tokens
      /\ flight' \in [Requests -> [tab : Tabs \cup {None}, alone : BOOLEAN, mount : BOOLEAN,
                                   at : {"idle", "waiting", "body", "done", "dropped"}]]
  BY <1>1, <1>3, SendFacts
<1>6. /\ Refreshes(tab)' = {r} /\ flight'[r].mount
      /\ \A t \in Tabs \ {tab} : /\ Refreshes(t)' = Refreshes(t)
                                 /\ \A q \in Refreshes(t) : flight'[q].mount = flight[q].mount
  <2>1. /\ Refreshes(tab)' = (Refreshes(tab) \ FlightsOf(tab)) \cup {r}
        /\ \A t \in Tabs \ {tab} : Refreshes(t)' = Refreshes(t) \ FlightsOf(tab)
        /\ flight'[r].mount = mount
        /\ \A t \in Tabs : \A q \in Refreshes(t) : flight'[q].mount = flight[q].mount
    BY <1>1, <1>3, SendFlights
  <2>2. Refreshes(tab) \subseteq FlightsOf(tab)
    BY DEF Refreshes
  <2>3. ASSUME NEW t \in Tabs \ {tab}
        PROVE  Refreshes(t) \ FlightsOf(tab) = Refreshes(t)
    BY DEF Refreshes, FlightsOf
  <2> QED
    BY <1>0, <2>1, <2>2, <2>3
<1>7. BrowserTypeOK /\ (\A c \in Calls : CallOK(c)) /\ None \notin Tabs
  BY TabAssumption DEF BrowserInv
<1>8. BrowserTypeOK'
  BY <1>2, <1>5, <1>7 DEF BrowserTypeOK, NoCall
<1>9. ASSUME NEW t \in Tabs PROVE PageOK(t)'
  <2>1. CASE t = tab
    <3>1. status'[tab] = "loading" /\ refreshing'[tab] = None
      BY <1>2, <1>7 DEF BrowserTypeOK
    <3> QED
      BY <1>6, <2>1, <3>1 DEF PageOK
  <2>2. CASE t # tab
    <3>1. status'[t] = status[t] /\ refreshing'[t] = refreshing[t]
      BY <1>2, <1>7, <2>2 DEF BrowserTypeOK
    <3> QED
      BY <1>6, <2>2, <3>1, PageSame
  <2> QED
    BY <2>1, <2>2
<1>10. ASSUME NEW c \in Calls PROVE CallOK(c)'
  BY <1>2, <1>7 DEF CallOK, BrowserTypeOK, NoCall
<1> QED
  BY <1>4, <1>5, <1>8, <1>9, <1>10 DEF BrowserInv

(* The login form and the logout button.                                   *)
LEMMA LoginLogoutKeep ==
  ASSUME BrowserInv, NEW tab \in Tabs, Login(tab) \/ Logout(tab)
  PROVE  BrowserInv'
<1>0. PICK mount \in BOOLEAN : mount = FALSE
  OBVIOUS
<1>1. PICK op \in {"login", "logout"} :
        /\ \E r \in Requests : Send(r, tab, op, mount, {}) /\ disabled' = [disabled EXCEPT ![tab] = r]
        /\ op = "login" => signedOut' = FALSE
        /\ op = "logout" => signedOut' = signedOut
        /\ status' = status /\ cookie' = cookie
        /\ refreshing' = refreshing /\ call' = call
  <2>1. CASE Login(tab)
    <3>1. \E r \in Requests : Send(r, tab, "login", mount, {}) /\ disabled' = [disabled EXCEPT ![tab] = r]
      BY <1>0, <2>1, Zenon DEF Login
    <3> QED
      BY <2>1, <3>1 DEF Login
  <2>2. CASE Logout(tab)
    <3>1. \E r \in Requests : Send(r, tab, "logout", mount, {}) /\ disabled' = [disabled EXCEPT ![tab] = r]
      BY <1>0, <2>2, Zenon DEF Logout
    <3> QED
      BY <2>2, <3>1 DEF Logout
  <2> QED
    BY <2>1, <2>2
<1>2. PICK gone \in SUBSET InFlight : gone = {}
  OBVIOUS
<1>3. PICK r \in Requests : Send(r, tab, op, mount, gone) /\ disabled' = [disabled EXCEPT ![tab] = r]
  BY <1>1, <1>2, Zenon
<1>4. op \in Operations /\ op # "refresh"
  BY DEF Operations
<1>5. /\ \A q \in Requests : FlightOK(q)' /\ AloneOK(q)'
      /\ CookieOK' /\ SignedOutOK'
      /\ \A p, q \in Requests : RetryOK(p, q)'
  BY <1>1, <1>3, <1>4, SendKeeps
<1>6. /\ ServerInv' /\ tokens' = tokens
      /\ flight' \in [Requests -> [tab : Tabs \cup {None}, alone : BOOLEAN, mount : BOOLEAN,
                                   at : {"idle", "waiting", "body", "done", "dropped"}]]
  BY <1>3, <1>4, SendFacts
<1>7. \A t \in Tabs : /\ Refreshes(t)' = Refreshes(t)
                      /\ \A q \in Refreshes(t) : flight'[q].mount = flight[q].mount
  <2>1. /\ Refreshes(tab)' = (Refreshes(tab) \ gone) \cup (IF op = "refresh" THEN {r} ELSE {})
        /\ \A t \in Tabs \ {tab} : Refreshes(t)' = Refreshes(t) \ gone
        /\ \A t \in Tabs : \A q \in Refreshes(t) : flight'[q].mount = flight[q].mount
    BY <1>3, <1>4, SendFlights
  <2>2. \A S : S \ gone = S /\ S \cup {} = S
    BY <1>2
  <2> QED
    BY <1>4, <2>1, <2>2, Zenon
<1>8. BrowserTypeOK /\ (\A c \in Calls : CallOK(c))
  BY DEF BrowserInv
<1>9. BrowserTypeOK'
  BY <1>1, <1>3, <1>6, <1>8 DEF BrowserTypeOK
<1>10. \A t \in Tabs : PageOK(t)'
  BY <1>1, <1>7, PageSame
<1>11. ASSUME NEW c \in Calls PROVE CallOK(c)'
  BY <1>1, <1>8 DEF CallOK
<1> QED
  BY <1>5, <1>6, <1>9, <1>10, <1>11 DEF BrowserInv

(* A step that sends nothing and leaves flights alone.                     *)
LEMMA CallStepKeeps ==
  ASSUME BrowserInv, UNCHANGED <<serverVars, cookie, status, flight, refreshing, disabled, signedOut>>,
         NEW c \in Calls, NEW record \in [tab : Tabs \cup {None}, at : {"idle", "joined", "resent"}],
         call' = [call EXCEPT ![c] = record],
         record.at # "idle" => record.tab \in Tabs,
         record.at = "idle" => record.tab = None,
         record.at = "joined" => refreshing[record.tab] # None
  PROVE  BrowserInv'
<1>1. /\ tokens' = tokens /\ request' = request /\ audit' = audit /\ expired' = expired
      /\ cookie' = cookie /\ status' = status /\ flight' = flight /\ refreshing' = refreshing
      /\ disabled' = disabled /\ signedOut' = signedOut
  BY DEF serverVars
<1>2. ServerInv'
  BY <1>1, ServerStepInv DEF BrowserInv, serverVars
<1>3. InFlight' = InFlight /\ \A t : Refreshes(t)' = Refreshes(t)
  BY <1>1 DEF InFlight, FlightsOf, Refreshes
<1>4. /\ \A q \in Requests : FlightOK(q)' /\ AloneOK(q)'
      /\ CookieOK' /\ SignedOutOK'
  BY <1>1, <1>3 DEF BrowserInv, FlightOK, AloneOK, CookieOK, CookieIsLive, Consumes, SignedOutOK
<1>5. \A p, q \in Requests : RetryOK(p, q)'
  BY <1>1 DEF BrowserInv, RetryOK, KeptRefresh
<1>6. BrowserTypeOK /\ (\A d \in Calls : CallOK(d)) /\ None \notin Tabs
  BY TabAssumption DEF BrowserInv
<1>7. BrowserTypeOK'
  BY <1>1, <1>6 DEF BrowserTypeOK
<1>8. call'[c] = record /\ \A d \in Calls \ {c} : call'[d] = call[d]
  BY <1>6 DEF BrowserTypeOK
<1>9. \A t \in Tabs : PageOK(t)'
  BY <1>1, <1>3, PageSame
<1>10. \A d \in Calls : CallOK(d)'
  BY <1>1, <1>6, <1>8 DEF CallOK
<1> QED
  BY <1>2, <1>4, <1>5, <1>7, <1>9, <1>10 DEF BrowserInv

(* A call that ends keeps the invariant.                                   *)
LEMMA EndCallKeeps ==
  ASSUME BrowserInv, NEW c \in Calls, EndCall(c)
  PROVE  BrowserInv'
<1>1. /\ UNCHANGED <<serverVars, cookie, status, flight, refreshing, disabled, signedOut>>
      /\ call' = [call EXCEPT ![c] = NoCall]
  BY DEF EndCall
<1>2. /\ NoCall \in [tab : Tabs \cup {None}, at : {"idle", "joined", "resent"}]
      /\ NoCall.at = "idle" /\ NoCall.tab = None
  BY DEF NoCall
<1> QED
  BY <1>1, <1>2, CallStepKeeps

(* A refused call joins the refresh of its tab's calls, or starts it: any  *)
(* other refresh of the tab is then the one of the page load.              *)
LEMMA RefreshOnceKeeps ==
  ASSUME BrowserInv, NEW tab \in Tabs, NEW c \in Calls, RefreshOnce(tab, c)
  PROVE  BrowserInv'
<1>1. BrowserTypeOK /\ PageOK(tab) /\ (\A d \in Calls : CallOK(d)) /\ None \notin Tabs
  BY TabAssumption DEF BrowserInv
<1>2. PICK record : record = [tab |-> tab, at |-> "joined"]
  OBVIOUS
<1>3. /\ record \in [tab : Tabs \cup {None}, at : {"idle", "joined", "resent"}]
      /\ record.at = "joined" /\ record.tab = tab
  BY <1>2
<1>4. call' = [call EXCEPT ![c] = record]
  BY <1>2 DEF RefreshOnce
<1>5. CASE refreshing[tab] # None
  <2>1. UNCHANGED <<serverVars, cookie, status, flight, refreshing, disabled, signedOut>>
    BY <1>5 DEF RefreshOnce
  <2> QED
    BY <1>3, <1>4, <1>5, <2>1, CallStepKeeps
<1>6. CASE refreshing[tab] = None
  <2>0. PICK mount \in BOOLEAN : mount = FALSE
    OBVIOUS
  <2>1. PICK gone \in SUBSET InFlight : gone = {}
    OBVIOUS
  <2>2. PICK r \in Requests :
          Send(r, tab, "refresh", mount, gone) /\ refreshing' = [refreshing EXCEPT ![tab] = r]
    <3>1. StartRefresh(tab)
      BY <1>6 DEF RefreshOnce
    <3> QED
      BY <2>0, <2>1, <3>1, Zenon DEF StartRefresh
  <2>3. /\ cookie' = cookie /\ disabled' = disabled /\ signedOut' = signedOut
        /\ status' = [status EXCEPT ![tab] = IF @ = "authenticated" THEN @ ELSE "loading"]
    BY <1>6 DEF RefreshOnce, StartRefresh
  <2>4. None \notin Requests /\ "refresh" \in Operations
    BY TokenAssumption DEF Requests, Operations
  <2>5. \A q \in Refreshes(tab) : flight[q].mount /\ q \in Requests
    BY <1>1, <1>6, <2>4 DEF PageOK, Refreshes, FlightsOf, InFlight
  <2>6. /\ \A q \in Requests : FlightOK(q)' /\ AloneOK(q)'
        /\ CookieOK' /\ SignedOutOK'
        /\ \A p, q \in Requests : RetryOK(p, q)'
    BY <2>0, <2>2, <2>3, <2>4, <2>5, SendKeeps
  <2>7. /\ ServerInv' /\ tokens' = tokens
        /\ flight' \in [Requests -> [tab : Tabs \cup {None}, alone : BOOLEAN, mount : BOOLEAN,
                                     at : {"idle", "waiting", "body", "done", "dropped"}]]
    BY <2>2, <2>4, SendFacts
  <2>8. /\ Refreshes(tab)' = Refreshes(tab) \cup {r} /\ ~flight'[r].mount
        /\ \A t \in Tabs \ {tab} : Refreshes(t)' = Refreshes(t)
        /\ \A t \in Tabs : \A q \in Refreshes(t) : flight'[q].mount = flight[q].mount
    <3>1. /\ Refreshes(tab)' = (Refreshes(tab) \ gone) \cup {r} /\ flight'[r].mount = mount
          /\ \A t \in Tabs \ {tab} : Refreshes(t)' = Refreshes(t) \ gone
          /\ \A t \in Tabs : \A q \in Refreshes(t) : flight'[q].mount = flight[q].mount
      BY <2>2, <2>4, SendFlights
    <3>2. \A S : S \ gone = S
      BY <2>1
    <3> QED
      BY <2>0, <3>1, <3>2, Zenon
  <2>9. BrowserTypeOK'
    BY <1>1, <1>3, <1>4, <2>2, <2>3, <2>7 DEF BrowserTypeOK
  <2>10. /\ call'[c] = record /\ \A d \in Calls \ {c} : call'[d] = call[d]
         /\ refreshing'[tab] = r
         /\ \A t \in Tabs \ {tab} : refreshing'[t] = refreshing[t] /\ status'[t] = status[t]
    BY <1>1, <1>4, <2>2, <2>3 DEF BrowserTypeOK
  <2>11. ASSUME NEW t \in Tabs PROVE PageOK(t)'
    <3>1. CASE t = tab
      <4>1. \A q \in Refreshes(tab)' : q = r \/ (flight'[q].mount /\ q \in Refreshes(tab))
        BY <2>5, <2>8
      <4> QED
        BY <1>1, <2>8, <2>10, <3>1, <4>1 DEF PageOK
    <3>2. CASE t # tab
      BY <2>8, <2>10, <3>2, PageSame
    <3> QED
      BY <3>1, <3>2
  <2>12. ASSUME NEW d \in Calls PROVE CallOK(d)'
    <3>1. CASE d = c
      BY <1>3, <2>4, <2>10, <3>1 DEF CallOK
    <3>2. CASE d # c
      BY <1>1, <2>4, <2>10, <3>2 DEF CallOK
    <3> QED
      BY <3>1, <3>2
  <2> QED
    BY <2>6, <2>7, <2>9, <2>11, <2>12 DEF BrowserInv
<1> QED
  BY <1>5, <1>6

(* Steps of the server and answers that arrive change no flight's page.    *)
LEMMA PagesUntouched ==
  ASSUME BrowserInv, InFlight' = InFlight, status' = status, refreshing' = refreshing, call' = call,
         \A q \in Requests : /\ flight'[q].tab = flight[q].tab /\ flight'[q].mount = flight[q].mount
                             /\ request'[q].op = request[q].op
  PROVE  (\A tab \in Tabs : PageOK(tab)') /\ (\A c \in Calls : CallOK(c)')
<1>1. \A tab \in Tabs : FlightsOf(tab)' = FlightsOf(tab)
  BY DEF FlightsOf, InFlight
<1>2. \A tab \in Tabs : Refreshes(tab)' = Refreshes(tab) /\ Refreshes(tab) \subseteq Requests
  BY <1>1 DEF Refreshes, FlightsOf, InFlight
<1>3. \A c \in Calls : CallOK(c)
  BY DEF BrowserInv
<1>4. \A tab \in Tabs : PageOK(tab)'
  BY <1>2, PageSame
<1>5. \A c \in Calls : CallOK(c)'
  BY <1>3 DEF CallOK
<1> QED
  BY <1>4, <1>5

(* A step of the server keeps the invariant.                               *)
LEMMA ServerKeeps ==
  ASSUME BrowserInv, NEW r \in Requests, Server(r)
  PROVE  BrowserInv'
<1>1. /\ Serve(r) /\ cookie' = cookie /\ status' = status /\ flight' = flight /\ refreshing' = refreshing
      /\ disabled' = disabled /\ call' = call /\ signedOut' = signedOut
  BY DEF Server, browserVars
<1>2. ServerInv' /\ \A q \in Requests : request'[q].op = request[q].op
  BY <1>1, ServeFields
<1>3. BrowserTypeOK'
  BY <1>1 DEF BrowserInv, BrowserTypeOK
<1>4. InFlight' = InFlight
  BY <1>1 DEF InFlight
<1>5. (\A tab \in Tabs : PageOK(tab)') /\ (\A c \in Calls : CallOK(c)')
  BY <1>1, <1>2, <1>4, PagesUntouched
<1> QED
  BY <1>2, <1>3, <1>5, ServeKeeps DEF BrowserInv

(* An answer that arrives keeps the invariant.                             *)
LEMMA ArrivalKeeps ==
  ASSUME BrowserInv, NEW r \in Requests, AnswerArrives(r)
  PROVE  BrowserInv'
<1>1. /\ UNCHANGED serverVars /\ status' = status /\ refreshing' = refreshing
      /\ disabled' = disabled /\ call' = call /\ signedOut' = signedOut
  BY DEF AnswerArrives
<1>2. request' = request /\ tokens' = tokens
  BY <1>1 DEF serverVars
<1>3. ServerInv'
  BY <1>1, ServerStepInv DEF BrowserInv
<1>4. /\ \A q \in Requests : FlightOK(q)' /\ AloneOK(q)'
      /\ CookieOK' /\ SignedOutOK'
      /\ \A p, q \in Requests : RetryOK(p, q)'
      /\ InFlight' = InFlight
      /\ \A q \in Requests : flight'[q].tab = flight[q].tab /\ flight'[q].mount = flight[q].mount
      /\ flight' \in [Requests -> [tab : Tabs \cup {None}, alone : BOOLEAN, mount : BOOLEAN,
                                   at : {"idle", "waiting", "body", "done", "dropped"}]]
  BY ArriveKeeps
<1>5. (\A tab \in Tabs : PageOK(tab)') /\ (\A c \in Calls : CallOK(c)')
  BY <1>1, <1>2, <1>4, PagesUntouched
<1>6. BrowserTypeOK'
  <2>1. cookie' \in Tokens \cup {None}
    BY <1>3, <1>4 DEF CookieOK, ServerInv, RowsOK
  <2> QED
    BY <1>1, <1>4, <2>1 DEF BrowserInv, BrowserTypeOK
<1> QED
  BY <1>3, <1>4, <1>5, <1>6 DEF BrowserInv

(* A token that expires keeps the invariant.                               *)
LEMMA ExpiryKeeps ==
  ASSUME BrowserInv, TokenExpires
  PROVE  BrowserInv'
<1>1. /\ \E t \in DOMAIN tokens : Expire(t)
      /\ cookie' = cookie /\ status' = status /\ flight' = flight /\ refreshing' = refreshing
      /\ disabled' = disabled /\ call' = call /\ signedOut' = signedOut
  BY DEF TokenExpires, browserVars
<1>2. ServerInv' /\ tokens' = tokens /\ request' = request /\ audit' = audit
  BY <1>1, ExpireInv DEF BrowserInv, Expire
<1>3. InFlight' = InFlight
  BY <1>1 DEF InFlight
<1>4. /\ \A q \in Requests : FlightOK(q)' /\ AloneOK(q)'
      /\ CookieOK' /\ SignedOutOK'
  BY <1>1, <1>2, <1>3 DEF BrowserInv, FlightOK, AloneOK, CookieOK, CookieIsLive, Consumes, SignedOutOK
<1>5. \A p, q \in Requests : RetryOK(p, q)'
  BY <1>1, <1>2 DEF BrowserInv, RetryOK, KeptRefresh
<1>6. (\A tab \in Tabs : PageOK(tab)') /\ (\A c \in Calls : CallOK(c)')
  BY <1>1, <1>2, <1>3, PagesUntouched
<1>7. BrowserTypeOK'
  BY <1>1 DEF BrowserInv, BrowserTypeOK
<1> QED
  BY <1>2, <1>4, <1>5, <1>6, <1>7 DEF BrowserInv

(* A settled request leaves its tab with the other refresh, if there is    *)
(* one, and with no call that waits for it.                                *)
LEMMA SettledKeeps ==
  ASSUME BrowserInv, NEW r \in Requests, BodyRead(r) \/ AnswerLost(r)
  PROVE  BrowserInv'
<1>0. PICK tab : tab = flight[r].tab
  OBVIOUS
<1>1. /\ tokens' = tokens /\ request' = request /\ audit' = audit /\ expired' = expired
      /\ cookie' = cookie /\ r \in InFlight /\ InFlight' = InFlight \ {r}
      /\ flight' \in [Requests -> [tab : Tabs \cup {None}, alone : BOOLEAN, mount : BOOLEAN,
                                   at : {"idle", "waiting", "body", "done", "dropped"}]]
      /\ \A q \in Requests : flight'[q].tab = flight[q].tab /\ flight'[q].mount = flight[q].mount
      /\ \E ok \in BOOLEAN : Settle(r, ok)
  BY SettleFacts
<1>2. BrowserTypeOK /\ (\A t \in Tabs : PageOK(t)) /\ (\A c \in Calls : CallOK(c)) /\ None \notin Tabs
  BY TabAssumption DEF BrowserInv
<1>3. ServerInv'
  BY <1>1, ServerStepInv DEF BrowserInv, serverVars
<1>4. tab \in Tabs /\ request[r].op \in Operations
  <2>1. FlightOK(r) /\ request[r].op \in Operations \cup {"none"}
    BY DEF BrowserInv, ServerInv, ServerTypeOK
  <2> QED
    BY <1>0, <1>1, <2>1 DEF FlightOK, InFlight
<1>5. PICK ok \in BOOLEAN : Settle(r, ok)
  BY <1>1
<1>6. /\ status' = [status EXCEPT ![tab] = StatusAfter(r, ok)]
      /\ StatusAfter(r, ok) \in {status[tab], "authenticated", "unauthenticated"}
      /\ request[r].op = "refresh" => StatusAfter(r, ok) \in {"authenticated", "unauthenticated"}
      /\ disabled' \in [Tabs -> Requests \cup {None}]
  <2>1. /\ status' = [status EXCEPT ![tab] = StatusAfter(r, ok)]
        /\ \E turned : disabled' = [disabled EXCEPT ![tab] = IF turned \/ @ = r THEN None ELSE @]
    BY <1>0, <1>5 DEF Settle
  <2>2. disabled \in [Tabs -> Requests \cup {None}]
    BY <1>2 DEF BrowserTypeOK
  <2>3. disabled' \in [Tabs -> Requests \cup {None}]
    BY <2>1, <2>2
  <2>4. CASE request[r].op # "logout" /\ ok
    <3>1. StatusAfter(r, ok) = "authenticated"
      BY <2>4 DEF StatusAfter
    <3> QED
      BY <2>1, <2>3, <3>1
  <2>5. CASE request[r].op = "login" /\ ~ok
    <3>1. StatusAfter(r, ok) = status[tab]
      BY <1>0, <2>5 DEF StatusAfter
    <3> QED
      BY <2>1, <2>3, <2>5, <3>1
  <2>6. CASE request[r].op = "logout" \/ (request[r].op = "refresh" /\ ~ok)
    <3>1. StatusAfter(r, ok) = "unauthenticated"
      BY <2>6 DEF StatusAfter
    <3> QED
      BY <2>1, <2>3, <3>1
  <2> QED
    BY <1>4, <2>4, <2>5, <2>6 DEF Operations
<1>7. /\ status' \in [Tabs -> {"loading", "authenticated", "unauthenticated"}]
      /\ \A t \in Tabs : status'[t] \in {status[t], "authenticated", "unauthenticated"}
      /\ request[r].op = "refresh" => status'[tab] # "loading"
  BY <1>2, <1>4, <1>6 DEF BrowserTypeOK
<1>8. \/ /\ refreshing[tab] = r /\ refreshing' = [refreshing EXCEPT ![tab] = None]
         /\ \E record \in {NoCall, [tab |-> tab, at |-> "resent"]} :
              call' = [c \in Calls |-> IF call[c].tab = tab /\ call[c].at = "joined" THEN record ELSE call[c]]
      \/ refreshing[tab] # r /\ refreshing' = refreshing /\ call' = call
  <2>1. Resume(r, ok)
    BY <1>5 DEF Settle
  <2>2. CASE refreshing[tab] # r
    BY <1>0, <2>1, <2>2 DEF Resume
  <2>3. CASE refreshing[tab] = r /\ ok
    BY <1>0, <2>1, <2>3 DEF Resume
  <2>4. CASE refreshing[tab] = r /\ ~ok
    BY <1>0, <2>1, <2>4 DEF Resume
  <2> QED
    BY <2>2, <2>3, <2>4
<1>9. /\ Refreshes(tab)' = Refreshes(tab) \ {r}
      /\ \A t \in Tabs \ {tab} : Refreshes(t)' = Refreshes(t)
      /\ \A t \in Tabs : \A q \in Refreshes(t) : flight'[q].mount = flight[q].mount
  <2>1. \A t : FlightsOf(t)' = FlightsOf(t) \ {r}
    BY <1>1 DEF FlightsOf, InFlight
  <2>2. \A t : Refreshes(t)' = Refreshes(t) \ {r}
    BY <1>1, <2>1 DEF Refreshes
  <2>3. \A t \in Tabs \ {tab} : r \notin Refreshes(t)
    BY <1>0 DEF FlightsOf, Refreshes
  <2>4. \A t : Refreshes(t) \subseteq Requests
    BY DEF Refreshes, FlightsOf, InFlight
  <2> QED
    BY <1>1, <2>2, <2>3, <2>4
<1>10. (r \in Refreshes(tab) <=> request[r].op = "refresh") /\ r # None
  BY <1>0, <1>1, TokenAssumption DEF FlightsOf, Refreshes, Requests
<1>11. BrowserTypeOK'
  <2>1. refreshing' \in [Tabs -> Requests \cup {None}]
    BY <1>2, <1>8 DEF BrowserTypeOK
  <2>2. call' \in [Calls -> [tab : Tabs \cup {None}, at : {"idle", "joined", "resent"}]]
    BY <1>2, <1>4, <1>8 DEF BrowserTypeOK, NoCall
  <2>3. signedOut' \in BOOLEAN
    BY <1>5 DEF Settle
  <2> QED
    BY <1>1, <1>2, <1>6, <1>7, <2>1, <2>2, <2>3 DEF BrowserTypeOK
<1>12. ASSUME NEW t \in Tabs PROVE PageOK(t)'
  <2>1. CASE t # tab
    <3>1. refreshing'[t] = refreshing[t]
      BY <1>2, <1>8, <2>1 DEF BrowserTypeOK
    <3> QED
      BY <1>7, <1>9, <2>1, <3>1, PageSame
  <2>2. CASE t = tab /\ request[r].op # "refresh"
    <3>1. Refreshes(tab)' = Refreshes(tab)
      BY <1>9, <1>10, <2>2
    <3>2. refreshing[tab] # r
      BY <1>2, <1>4, <1>10, <2>2 DEF PageOK
    <3>3. refreshing'[tab] = refreshing[tab]
      BY <1>8, <3>2
    <3> QED
      BY <1>4, <1>7, <1>9, <2>2, <3>1, <3>3, PageSame
  <2>3. CASE t = tab /\ request[r].op = "refresh"
    <3>1. /\ PageOK(tab) /\ status'[tab] # "loading"
          /\ Refreshes(tab)' = Refreshes(tab) \ {r}
          /\ \A q \in Refreshes(tab) : flight'[q].mount = flight[q].mount
      BY <1>2, <1>4, <1>7, <1>9, <2>3
    <3>2. CASE refreshing[tab] = r
      <4>1. refreshing'[tab] = None
        BY <1>2, <1>4, <1>8, <3>2 DEF BrowserTypeOK
      <4> QED
        BY <2>3, <3>1, <3>2, <4>1 DEF PageOK
    <3>3. CASE refreshing[tab] # r
      <4>1. refreshing' = refreshing
        BY <1>8, <3>3
      <4>2. refreshing[tab] # None => flight'[refreshing[tab]].mount = flight[refreshing[tab]].mount
        BY <3>1 DEF PageOK
      <4> QED
        BY <2>3, <3>1, <3>3, <4>1, <4>2 DEF PageOK
    <3> QED
      BY <3>2, <3>3
  <2> QED
    BY <2>1, <2>2, <2>3
<1>13. ASSUME NEW c \in Calls PROVE CallOK(c)'
  <2>1. CASE refreshing[tab] = r
    <3>1. PICK record \in {NoCall, [tab |-> tab, at |-> "resent"]} :
            call'[c] = IF call[c].tab = tab /\ call[c].at = "joined" THEN record ELSE call[c]
      BY <1>8, <2>1
    <3>2. refreshing' = [refreshing EXCEPT ![tab] = None] /\ DOMAIN refreshing = Tabs
      BY <1>2, <1>8, <2>1 DEF BrowserTypeOK
    <3>3. CASE call[c].tab = tab /\ call[c].at = "joined"
      BY <1>4, <3>1, <3>3 DEF CallOK, NoCall
    <3>4. CASE ~(call[c].tab = tab /\ call[c].at = "joined")
      BY <1>2, <3>1, <3>2, <3>4 DEF CallOK
    <3> QED
      BY <3>3, <3>4
  <2>2. CASE refreshing[tab] # r
    BY <1>2, <1>8, <2>2 DEF CallOK
  <2> QED
    BY <2>1, <2>2
<1> QED
  BY <1>3, <1>11, <1>12, <1>13, SettleKeeps DEF BrowserInv

---------------------------------------------------------------------------
(* The invariant is inductive.                                             *)

(* It holds of a browser that is logged in and of a server with its token. *)
LEMMA BrowserInitInv ==
  Init => BrowserInv
<1> SUFFICES ASSUME Init PROVE BrowserInv
  OBVIOUS
<1>1. ServerInv
  BY ServerInitInv DEF Init
<1>2. /\ cookie = FirstToken /\ DOMAIN tokens = {FirstToken} /\ FirstToken \notin Requests
      /\ FirstToken \in Tokens /\ None \notin Requests /\ None \notin AuditActions /\ None \notin Tabs
  BY TokenAssumption, TabAssumption DEF Init, ServerInit, FirstToken, Tokens, Requests
<1>3. \A r \in Requests :
        /\ flight[r] = NoFlight /\ request[r] = NoRequest /\ audit[r] = None
  BY DEF Init, ServerInit
<1>4. InFlight = {}
  BY <1>3 DEF InFlight, NoFlight
<1>5. BrowserTypeOK
  BY <1>2 DEF Init, BrowserTypeOK, NoFlight, NoCall
<1>6. \A r \in Requests : FlightOK(r) /\ AloneOK(r)
  BY <1>3 DEF FlightOK, AloneOK, NoFlight, NoRequest, NewRequest
<1>7. CookieOK
  BY <1>2, <1>3 DEF CookieOK, CookieIsLive, Consumes, NoRequest, NewRequest, AuditActions
<1>8. SignedOutOK
  BY DEF Init, SignedOutOK
<1>9. \A tab : Refreshes(tab) = {}
  BY <1>4 DEF Refreshes, FlightsOf
<1>10. \A tab \in Tabs : PageOK(tab)
  BY <1>9 DEF Init, PageOK
<1>11. \A c \in Calls : CallOK(c)
  BY DEF Init, CallOK, NoCall
<1>12. \A p, q \in Requests : RetryOK(p, q)
  BY <1>3 DEF RetryOK, KeptRefresh, NoRequest, NewRequest
<1> QED
  BY <1>1, <1>5, <1>6, <1>7, <1>8, <1>10, <1>11, <1>12 DEF BrowserInv

(* Every step keeps it.                                                    *)
LEMMA BrowserStepInv ==
  BrowserInv /\ [Next]_vars => BrowserInv'
<1> SUFFICES ASSUME BrowserInv, [Next]_vars PROVE BrowserInv'
  OBVIOUS
<1>1. ASSUME NEW tab \in Tabs, LoadPage(tab) PROVE BrowserInv'
  BY <1>1, LoadPageKeeps
<1>2. ASSUME NEW tab \in Tabs, Login(tab) \/ Logout(tab) PROVE BrowserInv'
  BY <1>2, LoginLogoutKeep
<1>3. ASSUME NEW c \in Calls, EndCall(c) PROVE BrowserInv'
  BY <1>3, EndCallKeeps
<1>4. ASSUME NEW tab \in Tabs, NEW c \in Calls, RefreshOnce(tab, c) PROVE BrowserInv'
  BY <1>4, RefreshOnceKeeps
<1>5. ASSUME NEW r \in Requests, Server(r) PROVE BrowserInv'
  BY <1>5, ServerKeeps
<1>6. ASSUME NEW r \in Requests, AnswerArrives(r) PROVE BrowserInv'
  BY <1>6, ArrivalKeeps
<1>7. ASSUME NEW r \in Requests, BodyRead(r) \/ AnswerLost(r) PROVE BrowserInv'
  BY <1>7, SettledKeeps
<1>8. CASE TokenExpires
  BY <1>8, ExpiryKeeps
<1>9. CASE UNCHANGED vars
  <2>1. /\ UNCHANGED serverVars /\ tokens' = tokens /\ request' = request /\ audit' = audit
        /\ cookie' = cookie /\ status' = status /\ flight' = flight /\ refreshing' = refreshing
        /\ disabled' = disabled /\ call' = call /\ signedOut' = signedOut
    BY <1>9 DEF vars, serverVars, browserVars
  <2>2. ServerInv'
    BY <2>1, ServerStepInv DEF BrowserInv
  <2>3. InFlight' = InFlight
    BY <2>1 DEF InFlight
  <2>4. /\ \A q \in Requests : FlightOK(q)' /\ AloneOK(q)'
        /\ CookieOK' /\ SignedOutOK'
    BY <2>1, <2>3 DEF BrowserInv, FlightOK, AloneOK, CookieOK, CookieIsLive, Consumes, SignedOutOK
  <2>5. \A p, q \in Requests : RetryOK(p, q)'
    BY <2>1 DEF BrowserInv, RetryOK, KeptRefresh
  <2>6. (\A tab \in Tabs : PageOK(tab)') /\ (\A c \in Calls : CallOK(c)')
    BY <2>1, <2>3, PagesUntouched
  <2>7. BrowserTypeOK'
    BY <2>1 DEF BrowserInv, BrowserTypeOK
  <2> QED
    BY <2>2, <2>4, <2>5, <2>6, <2>7 DEF BrowserInv
<1> QED
  BY <1>1, <1>2, <1>3, <1>4, <1>5, <1>6, <1>7, <1>8, <1>9 DEF Next

(* Every step of the browser and its server is a step the server allows,   *)
(* or one it does not notice.                                              *)
LEMMA StepsMap ==
  BrowserInv /\ [Next]_vars => [ServerNext]_serverVars
<1> SUFFICES ASSUME BrowserInv, [Next]_vars PROVE [ServerNext]_serverVars
  OBVIOUS
<1>1. cookie \in DOMAIN tokens \cup {None}
  BY DEF BrowserInv, CookieOK
<1>2. ASSUME NEW r \in Requests, NEW tab, NEW op \in Operations, NEW mount, NEW gone,
             Send(r, tab, op, mount, gone)
      PROVE  ServerNext
  BY <1>1, <1>2 DEF Send, ServerNext
<1>3. ASSUME NEW tab \in Tabs, LoadPage(tab) \/ Login(tab) \/ Logout(tab)
      PROVE  ServerNext
  <2>1. {"login", "refresh", "logout"} \subseteq Operations
    BY DEF Operations
  <2>2. PICK r \in Requests : \/ Send(r, tab, "refresh", TRUE, FlightsOf(tab))
                              \/ Send(r, tab, "login", FALSE, {}) \/ Send(r, tab, "logout", FALSE, {})
    BY <1>3 DEF LoadPage, Login, Logout
  <2> QED
    BY <1>2, <2>1, <2>2
<1>4. ASSUME NEW tab \in Tabs, NEW c \in Calls, RefreshOnce(tab, c)
      PROVE  ServerNext \/ UNCHANGED serverVars
  <2>1. "refresh" \in Operations
    BY DEF Operations
  <2>2. UNCHANGED serverVars \/ \E r \in Requests : Send(r, tab, "refresh", FALSE, {})
    BY <1>4 DEF RefreshOnce, StartRefresh
  <2> QED
    BY <1>2, <2>1, <2>2
<1>5. ASSUME NEW r \in Requests, Server(r) PROVE ServerNext
  BY <1>5 DEF Server, ServerNext
<1>6. ASSUME NEW r \in Requests, AnswerArrives(r) \/ BodyRead(r) \/ AnswerLost(r)
      PROVE  UNCHANGED serverVars
  BY <1>6 DEF AnswerArrives, BodyRead, AnswerLost, Settle
<1>7. CASE TokenExpires
  BY <1>7 DEF TokenExpires, ServerNext
<1>8. ASSUME NEW c \in Calls, EndCall(c)
      PROVE  UNCHANGED serverVars
  BY <1>8 DEF EndCall
<1>9. CASE UNCHANGED vars
  BY <1>9 DEF vars
<1> QED
  BY <1>3, <1>4, <1>5, <1>6, <1>7, <1>8, <1>9 DEF Next

(* A set whose elements are all the same has at most one.                  *)
LEMMA AtMostOne ==
  ASSUME NEW S, \A p, q \in S : p = q
  PROVE  Cardinality(S) <= 1
<1>1. CASE S = {}
  BY <1>1, FS_EmptySet
<1>2. CASE S # {}
  <2>1. PICK p \in S : S = {p}
    BY <1>2
  <2>2. Cardinality({p}) = 1
    BY FS_Singleton
  <2>3. Cardinality(S) = 1
    BY <2>1, <2>2, Zenon
  <2> QED
    BY <2>3
<1> QED
  BY <1>1, <1>2

(* What the invariant says of refreshes and of tokens.                     *)
LEMMA InvTells ==
  BrowserInv => /\ TypeOK /\ CallsShareOneRefresh /\ CookieIsLive
                /\ CallsNeverReuse /\ UndisturbedLogoutSticks
<1> SUFFICES ASSUME BrowserInv
             PROVE  /\ TypeOK /\ CallsShareOneRefresh /\ CookieIsLive
                    /\ CallsNeverReuse /\ UndisturbedLogoutSticks
  OBVIOUS
<1>1. TypeOK
  BY DEF BrowserInv, BrowserTypeOK, ServerInv, TypeOK
<1>2. ASSUME NEW tab \in Tabs, NEW mount \in BOOLEAN
      PROVE  /\ Cardinality({r \in Refreshes(tab) : flight[r].mount = mount}) <= 1
             /\ status[tab] = "loading" => Refreshes(tab) # {}
  <2>1. PageOK(tab)
    BY DEF BrowserInv
  <2>2. \A q \in Refreshes(tab) : flight[q].mount \in BOOLEAN
    BY DEF BrowserInv, BrowserTypeOK, Refreshes, FlightsOf, InFlight
  <2>3. \A q, r \in Refreshes(tab) : flight[q].mount = mount /\ flight[r].mount = mount => q = r
    BY <2>1, <2>2 DEF PageOK
  <2> QED
    BY <2>1, <2>3, AtMostOne DEF PageOK
<1>3. ASSUME NEW c \in Calls, call[c].at = "joined"
      PROVE  refreshing[call[c].tab] \in Refreshes(call[c].tab)
  BY <1>3 DEF BrowserInv, CallOK, PageOK
<1>4. CookieIsLive
  BY DEF BrowserInv, CookieOK
<1>5. ASSUME NEW t \in DOMAIN tokens, NEW q \in Requests, NEW r \in Requests,
             q # r, Consumes(q, t), Consumes(r, t),
             flight[q].tab = flight[r].tab, flight[q].mount = flight[r].mount, "logout" \notin {request[q].op, request[r].op}
      PROVE  "dropped" \in {flight[q].at, flight[r].at}
  <2>1. RequestOK(q) /\ RequestOK(r) /\ RetryOK(q, r) /\ DOMAIN tokens \subseteq Tokens
    BY DEF BrowserInv, ServerInv, RowsOK
  <2>2. None \notin Tokens /\ None \notin AuditActions
    BY TokenAssumption DEF Tokens, FirstToken, Requests
  <2>3. request[q].op = "refresh" /\ request[r].op = "refresh"
    BY <1>5, <2>1 DEF Consumes, RequestOK
  <2>4. request[q].token = t /\ request[r].token = t
    BY <1>5, <2>1, <2>2 DEF Consumes, RequestOK
  <2>5. request[q].step = "ok" /\ request[r].step = "ok"
    BY <1>5, <2>1, <2>2 DEF Consumes, RequestOK, AuditActions
  <2> QED
    BY <1>5, <2>1, <2>3, <2>4, <2>5 DEF RetryOK, KeptRefresh
<1>6. UndisturbedLogoutSticks
  BY DEF BrowserInv, SignedOutOK, UndisturbedLogoutSticks
<1> QED
  BY <1>1, <1>2, <1>3, <1>4, <1>5, <1>6 DEF CallsShareOneRefresh, CallsNeverReuse

---------------------------------------------------------------------------
(* The theorems.                                                           *)

(* The inductive invariant holds of every behaviour.                       *)
THEOREM BrowserInvariance ==
  Spec => []BrowserInv
  BY BrowserInitInv, BrowserStepInv, PTL DEF Spec

(* A browser and its server behave, as far as the tokens are concerned,    *)
(* like RefreshTokens: what is proved of that module holds here.           *)
THEOREM BrowserImplementsServer ==
  Spec => ServerSpec
<1>1. Init => ServerInit
  BY DEF Init
<1> QED
  BY <1>1, StepsMap, BrowserInvariance, PTL DEF Spec, ServerSpec

(* The audit log explains the tokens of every browser session, two uses of *)
(* one token overlap, and a login has one live token unless a refresh was  *)
(* raced by another (auth/service.py:24-66).                               *)
THEOREM SessionTokens ==
  Spec => [](AuditExplainsTokens /\ TokenReusedOnlyByOverlap /\ OneLiveTokenPerLogin)
  BY BrowserImplementsServer, TokensExplained, ReuseNeedsOverlap, OneLiveToken, PTL

(* Every variable keeps its type.                                          *)
THEOREM BrowserTypes ==
  Spec => []TypeOK
  BY InvTells, BrowserInvariance, PTL

(* However many calls of a tab are refused, in whatever status, they share *)
(* one refresh beside the one of the page load, and nothing waits for a    *)
(* refresh that is not under way (api-client.ts:80, auth-store.ts:45).     *)
THEOREM OneSharedRefresh ==
  Spec => []CallsShareOneRefresh
  BY InvTells, BrowserInvariance, PTL

(* No order of answers puts a used token back into the browser             *)
(* (auth/router.py:15).                                                    *)
THEOREM CookieNeverGoesBack ==
  Spec => []CookieIsLive
  BY InvTells, BrowserInvariance, PTL

(* The refreshes of one page's calls never use one token twice, nor do     *)
(* those of its loads; only one of each kind may (api-client.ts:80,        *)
(* auth-provider.tsx:11).                                                  *)
THEOREM SharedRefreshesNeverCollide ==
  Spec => []CallsNeverReuse
  BY InvTells, BrowserInvariance, PTL

(* A logout nothing overlapped ends the session of every tab               *)
(* (auth/router.py:48, auth-store.ts:59).                                  *)
THEOREM UndisturbedLogout ==
  Spec => []UndisturbedLogoutSticks
  BY InvTells, BrowserInvariance, PTL
============================================================================
