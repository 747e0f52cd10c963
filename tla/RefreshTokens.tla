--------------------------- MODULE RefreshTokens ---------------------------
(***************************************************************************)
(* The server side of sessions: the table refresh_tokens and the requests  *)
(* that log in, refresh and log out (auth/service.py).  A login mints a    *)
(* token, a refresh revokes the token it was sent and mints the next one,  *)
(* a logout revokes it.  Each request reads first and writes in the commit *)
(* that ends it; nothing is locked in between, so others may commit        *)
(* meanwhile.  Requests are numbered, and a token has the number of the    *)
(* request that mints it.                                                  *)
(***************************************************************************)
EXTENDS Naturals, FiniteSets

\* How many requests to /auth are made, and the tokens that may expire.
CONSTANTS MaxRequests, Expiring, None

AuditActions == {"LOGIN_SUCCESS", "TOKEN_REFRESH", "LOGOUT"}

ASSUME TokenAssumption == MaxRequests \in Nat /\ None \notin Nat /\ None \notin AuditActions

Requests == 1 .. MaxRequests
FirstToken == 0

VARIABLES
  tokens,    \* rows of refresh_tokens: the login they go back to, and revoked
  expired,   \* tokens past their expires_at
  request,   \* what each request was sent, has found and has answered
  audit      \* the action of the audit row each request committed, or None

serverVars == <<tokens, expired, request, audit>>

Tokens == {FirstToken} \cup Requests
Operations == {"login", "refresh", "logout"}
Answers == {"ok", "refused"}

\* seen: the requests that had committed when this one read its token.
NewRequest(op, token) == [op |-> op, token |-> token, found |-> None, step |-> "received", seen |-> {}]
NoRequest == NewRequest("none", None)

ServerInit ==
  /\ tokens = [t \in {FirstToken} |-> [login |-> t, revoked |-> FALSE]]
  /\ expired = {}
  /\ request = [r \in Requests |-> NoRequest]
  /\ audit = [r \in Requests |-> None]
-----------------------------------------------------------------------------
\* get_active_by_hash finds the row of a token that was not revoked.
Live_AlsoRevoked(t) == t \in DOMAIN tokens
Live(t) == t \in DOMAIN tokens /\ ~tokens[t].revoked
Committed == { r \in Requests : audit[r] # None }

Revoked(t) == [tokens EXCEPT ![t].revoked = TRUE]
Minted_NoLogin(rows, r, login) ==
  [t \in DOMAIN rows \cup {r} |-> IF t = r THEN [login |-> None, revoked |-> FALSE] ELSE rows[t]]
Minted(rows, r, login) ==
  [t \in DOMAIN rows \cup {r} |-> IF t = r THEN [login |-> login, revoked |-> FALSE] ELSE rows[t]]
Received(r, op) == request[r].op = op /\ request[r].step = "received"
Goto(r, step) == request' = [request EXCEPT ![r].step = step]

\* A request arrives with the cookie it was sent.
Receive(r, op, token) ==
  /\ request[r].op = "none" /\ op \in Operations
  /\ request' = [request EXCEPT ![r] = NewRequest(op, token)]
  /\ UNCHANGED <<tokens, expired, audit>>

\* The token is found; an expired one is revoked and refused.
FindToken(r) ==
  LET t == request[r].token
  IN /\ Received(r, "refresh") \/ Received(r, "logout")
     /\ Live(t)
     /\ request' = [request EXCEPT ![r].found = t, ![r].seen = Committed,
                      ![r].step = IF request[r].op = "refresh" /\ t \in expired THEN "expire" ELSE "commit"]
     /\ UNCHANGED <<tokens, expired, audit>>

\* A logout that finds no active token succeeds all the same.
LogoutFindsNothing(r) ==
  /\ Received(r, "logout") /\ ~Live(request[r].token)
  /\ Goto(r, "ok")
  /\ UNCHANGED <<tokens, expired, audit>>

\* Wrong credentials, a refresh without an active token, an inactive user or a
\* database error: what the session holds is not committed, the row LOGIN_FAILED
\* included.
Refuse(r) ==
  /\ \/ Received(r, "login")
     \/ (Received(r, "refresh") \/ Received(r, "logout")) /\ ~Live(request[r].token)
     \/ request[r].step \in {"commit", "expire"}
  /\ Goto(r, "refused")
  /\ UNCHANGED <<tokens, expired, audit>>

CommitLogin(r) ==
  /\ Received(r, "login")
  /\ tokens' = Minted(tokens, r, r)
  /\ audit' = [audit EXCEPT ![r] = "LOGIN_SUCCESS"]
  /\ Goto(r, "ok")
  /\ UNCHANGED expired

\* Revoke sets revoked_at of the row that was read, whoever revoked it since.
CommitRefresh_NoRevoke(r) ==
  /\ request[r].op = "refresh" /\ request[r].step = "commit"
  /\ tokens' = Minted(tokens, r, tokens[request[r].found].login)
  /\ audit' = [audit EXCEPT ![r] = "TOKEN_REFRESH"]
  /\ Goto(r, "ok")
  /\ UNCHANGED expired

CommitRefresh(r) ==
  LET t == request[r].found
  IN /\ request[r].op = "refresh" /\ request[r].step = "commit"
     /\ tokens' = Minted(Revoked(t), r, tokens[t].login)
     /\ audit' = [audit EXCEPT ![r] = "TOKEN_REFRESH"]
     /\ Goto(r, "ok")
     /\ UNCHANGED expired

CommitLogout_NoRevoke(r) ==
  /\ request[r].op = "logout" /\ request[r].step = "commit"
  /\ audit' = [audit EXCEPT ![r] = "LOGOUT"]
  /\ Goto(r, "ok")
  /\ UNCHANGED <<tokens, expired>>

CommitLogout(r) ==
  /\ request[r].op = "logout" /\ request[r].step = "commit"
  /\ tokens' = Revoked(request[r].found)
  /\ audit' = [audit EXCEPT ![r] = "LOGOUT"]
  /\ Goto(r, "ok")
  /\ UNCHANGED expired

\* An expired token is revoked without an audit row.
CommitExpiry(r) ==
  /\ request[r].step = "expire"
  /\ tokens' = Revoked(request[r].found)
  /\ Goto(r, "refused")
  /\ UNCHANGED <<expired, audit>>

\* Seven days pass.
Expire(t) ==
  /\ t \in (DOMAIN tokens \cap Expiring) \ expired
  /\ expired' = expired \cup {t}
  /\ UNCHANGED <<tokens, request, audit>>

Serve(r) ==
  \/ FindToken(r) \/ LogoutFindsNothing(r) \/ Refuse(r)
  \/ CommitLogin(r) \/ CommitRefresh(r) \/ CommitLogout(r) \/ CommitExpiry(r)

ServerNext ==
  \/ \E r \in Requests : Serve(r) \/ \E op \in Operations, t \in DOMAIN tokens \cup {None} : Receive(r, op, t)
  \/ \E t \in DOMAIN tokens : Expire(t)

ServerSpec == ServerInit /\ [][ServerNext]_serverVars
-----------------------------------------------------------------------------
ServerTypeOK ==
  /\ \E S \in SUBSET Tokens : tokens \in [S -> [login : Tokens, revoked : BOOLEAN]]
  /\ expired \subseteq DOMAIN tokens
  /\ request \in [Requests -> [op : Operations \cup {"none"}, token : Tokens \cup {None},
                               found : Tokens \cup {None}, seen : SUBSET Requests,
                               step : {"received", "commit", "expire"} \cup Answers]]
  /\ audit \in [Requests -> AuditActions \cup {None}]

\* Requests whose committed row names the token they revoked.
Consumes(r, t) == audit[r] \in {"TOKEN_REFRESH", "LOGOUT"} /\ request[r].found = t

\* The audit log explains refresh_tokens: a token exists exactly when the
\* request that minted it has a row LOGIN_SUCCESS or TOKEN_REFRESH, and is
\* revoked exactly when a row TOKEN_REFRESH or LOGOUT names it, or when it had
\* expired (auth/service.py:24-66).
AuditExplainsTokens ==
  /\ \A r \in Requests : r \in DOMAIN tokens <=> audit[r] \in {"LOGIN_SUCCESS", "TOKEN_REFRESH"}
  /\ \A t \in DOMAIN tokens :
       /\ tokens[t].revoked => t \in expired \/ \E r \in Requests : Consumes(r, t)
       /\ (\E r \in Requests : Consumes(r, t)) => tokens[t].revoked

\* A refresh token is used once (auth/service.py:53): two requests use the same
\* one only when they overlap, that is when neither had committed before the
\* other read it.
TokenReusedOnlyByOverlap ==
  \A t \in DOMAIN tokens : \A q, r \in Requests :
     q # r /\ Consumes(q, t) /\ Consumes(r, t) => q \notin request[r].seen /\ r \notin request[q].seen

\* A login has at most one live token, however often it was refreshed, unless
\* two overlapping refreshes used the same token of that login.
OneLiveTokenPerLogin ==
  \A t, u \in DOMAIN tokens :
     t # u /\ Live(t) /\ Live(u) /\ tokens[t].login = tokens[u].login =>
       \E q, r \in Requests :
          /\ q # r /\ audit[q] = "TOKEN_REFRESH" /\ audit[r] = "TOKEN_REFRESH"
          /\ request[q].found = request[r].found
          /\ tokens[request[q].found].login = tokens[t].login
=============================================================================
