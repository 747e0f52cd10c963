------------------------ MODULE RefreshTokens_proofs ------------------------
(***************************************************************************)
(* Proofs about refresh tokens, for any number of requests and any tokens  *)
(* that may expire.                                                        *)
(***************************************************************************)
EXTENDS RefreshTokens, TLAPS

---------------------------------------------------------------------------
(* The inductive invariant.                                                *)

\* The rows of refresh_tokens, and that a login is among its own tokens.
RowsOK ==
  /\ DOMAIN tokens \subseteq Tokens
  /\ tokens \in [DOMAIN tokens -> [login : Tokens, revoked : BOOLEAN]]
  /\ \A t \in DOMAIN tokens : tokens[t].login \in DOMAIN tokens

\* How far a request is, what it has found and what it has committed.
RequestOK(r) ==
  /\ request[r].op = "none" => request[r].step = "received"
  /\ request[r].found \in {None, request[r].token}
  /\ request[r].step \notin {"received", "refused", "ok"} => request[r].found \in DOMAIN tokens
  /\ request[r].step = "expire" => request[r].found \in expired /\ request[r].op = "refresh"
  /\ request[r].step = "commit" => request[r].op \in {"refresh", "logout"}
  /\ request[r].step # "ok" => audit[r] = None
  /\ request[r].step = "ok" /\ request[r].op = "login" => audit[r] = "LOGIN_SUCCESS"
  /\ request[r].step = "ok" /\ request[r].op = "refresh" => audit[r] = "TOKEN_REFRESH"
  /\ audit[r] = "LOGIN_SUCCESS" => request[r].op = "login"
  /\ audit[r] = "TOKEN_REFRESH" => request[r].op = "refresh"
  /\ audit[r] = "LOGOUT" => request[r].op = "logout"
  /\ audit[r] \in {"TOKEN_REFRESH", "LOGOUT"} => request[r].found \in DOMAIN tokens

\* None of the requests it saw committed had used the token it found.
SeenOK(r) ==
  /\ request[r].seen \subseteq Committed
  /\ request[r].step = "commit" => \A q \in request[r].seen : ~Consumes(q, request[r].found)

\* The tokens no refresh has used, and logins that had a token refreshed twice.
RefreshedBy(r, t) == audit[r] = "TOKEN_REFRESH" /\ request[r].found = t
Unused(t) == \A r \in Requests : ~RefreshedBy(r, t)
Forked(login) ==
  \E q, r \in Requests : \E t \in DOMAIN tokens :
     q # r /\ RefreshedBy(q, t) /\ RefreshedBy(r, t) /\ tokens[t].login = login
OneUnusedPerLogin ==
  \A t, u \in DOMAIN tokens :
     t # u /\ Unused(t) /\ Unused(u) /\ tokens[t].login = tokens[u].login => Forked(tokens[t].login)

ServerInv ==
  /\ ServerTypeOK /\ RowsOK
  /\ \A r \in Requests : RequestOK(r) /\ SeenOK(r)
  /\ AuditExplainsTokens /\ TokenReusedOnlyByOverlap /\ OneUnusedPerLogin

---------------------------------------------------------------------------
(* Lemmas about the rows.                                                  *)

(* Revoking a token changes nothing else.                                  *)
LEMMA RevokedRows ==
  ASSUME RowsOK, NEW t \in DOMAIN tokens
  PROVE  /\ DOMAIN Revoked(t) = DOMAIN tokens
         /\ Revoked(t) \in [DOMAIN tokens -> [login : Tokens, revoked : BOOLEAN]]
         /\ \A u \in DOMAIN tokens : Revoked(t)[u].login = tokens[u].login
         /\ \A u \in DOMAIN tokens \ {t} : Revoked(t)[u] = tokens[u]
         /\ Revoked(t)[t].revoked = TRUE
  BY DEF RowsOK, Revoked

(* A request that is not committed has minted nothing, and FirstToken is   *)
(* the number of no request.                                               *)
LEMMA NotMintedYet ==
  ASSUME ServerInv, NEW r \in Requests, request[r].step # "ok"
  PROVE  audit[r] = None /\ r \notin DOMAIN tokens /\ r \notin Committed
<1>1. audit[r] = None
  BY DEF ServerInv, RequestOK
<1>2. None \notin {"LOGIN_SUCCESS", "TOKEN_REFRESH"}
  BY TokenAssumption DEF AuditActions
<1> QED
  BY <1>1, <1>2 DEF ServerInv, AuditExplainsTokens, Committed

---------------------------------------------------------------------------
(* Each step keeps the invariant.                                          *)

(* The steps of a request write its own record, and a committed request is *)
(* never touched again.                                                    *)
LEMMA OwnRecordOnly ==
  ASSUME ServerInv, NEW r \in Requests,
         \/ (\E op \in Operations, t \in DOMAIN tokens \cup {None} : Receive(r, op, t))
         \/ Serve(r)
  PROVE  /\ request[r].step # "ok"
         /\ request' \in [Requests -> [op : Operations \cup {"none"}, token : Tokens \cup {None},
                               found : Tokens \cup {None}, seen : SUBSET Requests,
                               step : {"received", "commit", "expire"} \cup Answers]]
         /\ \A q \in Requests \ {r} : request'[q] = request[q] /\ audit'[q] = audit[q]
         /\ audit' \in [Requests -> AuditActions \cup {None}]
         /\ expired' = expired
<1> USE DEF Received, Goto, Answers, Operations
<1>0. /\ request \in [Requests -> [op : Operations \cup {"none"}, token : Tokens \cup {None},
                               found : Tokens \cup {None}, seen : SUBSET Requests,
                               step : {"received", "commit", "expire"} \cup Answers]]
      /\ audit \in [Requests -> AuditActions \cup {None}]
      /\ DOMAIN tokens \subseteq Tokens
      /\ RequestOK(r)
  BY DEF ServerInv, ServerTypeOK, RowsOK
<1>1. CASE \E op \in Operations, t \in DOMAIN tokens \cup {None} : Receive(r, op, t)
  <2>1. PICK op \in Operations : \E t \in DOMAIN tokens \cup {None} : Receive(r, op, t)
    BY <1>1
  <2>2. PICK t \in DOMAIN tokens \cup {None} : Receive(r, op, t)
    BY <2>1
  <2> QED
    BY <1>0, <2>2 DEF Receive, NewRequest, RequestOK
<1>2. CASE FindToken(r)
  <2>1. Committed \in SUBSET Requests
    BY DEF Committed
  <2>2. request[r].token \in DOMAIN tokens
    BY <1>2 DEF FindToken, Live
  <2>3. request[r].step = "received" /\ request[r].op \in {"refresh", "logout"}
    BY <1>2 DEF FindToken
  <2>4. \E step \in {"expire", "commit"} :
          request' = [request EXCEPT ![r].found = request[r].token, ![r].seen = Committed, ![r].step = step]
    BY <1>2, Zenon DEF FindToken
  <2>5. audit' = audit /\ expired' = expired
    BY <1>2 DEF FindToken
  <2> QED
    BY <1>0, <2>1, <2>2, <2>3, <2>4, <2>5
<1>3. CASE LogoutFindsNothing(r)
  BY <1>0, <1>3 DEF LogoutFindsNothing
<1>4. CASE Refuse(r)
  <2>1. /\ request' = [request EXCEPT ![r].step = "refused"] /\ audit' = audit /\ expired' = expired
        /\ request[r].step \in {"received", "commit", "expire"}
    BY <1>4 DEF Refuse
  <2>2. request' \in [Requests -> [op : Operations \cup {"none"}, token : Tokens \cup {None},
                               found : Tokens \cup {None}, seen : SUBSET Requests,
                               step : {"received", "commit", "expire"} \cup Answers]]
    BY <1>0, <2>1
  <2> QED
    BY <1>0, <2>1, <2>2
<1>5. CASE CommitLogin(r)
  BY <1>0, <1>5 DEF CommitLogin, AuditActions
<1>6. CASE CommitRefresh(r)
  BY <1>0, <1>6 DEF CommitRefresh, AuditActions
<1>7. CASE CommitLogout(r)
  BY <1>0, <1>7 DEF CommitLogout, AuditActions
<1>8. CASE CommitExpiry(r)
  BY <1>0, <1>8 DEF CommitExpiry
<1> QED
  BY <1>1, <1>2, <1>3, <1>4, <1>5, <1>6, <1>7, <1>8 DEF Serve

(* What the steps after the read leave alone in the record of the request. *)
LEMMA FieldsKept ==
  ASSUME ServerInv, NEW r \in Requests,
         \/ LogoutFindsNothing(r) \/ Refuse(r) \/ CommitLogin(r) \/ CommitRefresh(r)
         \/ CommitLogout(r) \/ CommitExpiry(r)
  PROVE  /\ request'[r].op = request[r].op /\ request'[r].token = request[r].token
         /\ request'[r].found = request[r].found /\ request'[r].seen = request[r].seen
         /\ Refuse(r) \/ CommitExpiry(r) => request'[r].step = "refused"
         /\ CommitLogin(r) \/ CommitRefresh(r) \/ CommitLogout(r) \/ LogoutFindsNothing(r) => request'[r].step = "ok"
<1>0. request \in [Requests -> [op : Operations \cup {"none"}, token : Tokens \cup {None},
                               found : Tokens \cup {None}, seen : SUBSET Requests,
                               step : {"received", "commit", "expire"} \cup Answers]]
  BY DEF ServerInv, ServerTypeOK
<1>1. \E step \in Answers :
        /\ request' = [request EXCEPT ![r].step = step]
        /\ Refuse(r) \/ CommitExpiry(r) => step = "refused"
        /\ CommitLogin(r) \/ CommitRefresh(r) \/ CommitLogout(r) \/ LogoutFindsNothing(r) => step = "ok"
  <2>1. CASE Refuse(r) \/ CommitExpiry(r)
    <3>1. request' = [request EXCEPT ![r].step = "refused"]
      BY <2>1 DEF Refuse, CommitExpiry, Goto
    <3>2. ~(CommitLogin(r) \/ CommitRefresh(r) \/ CommitLogout(r) \/ LogoutFindsNothing(r))
      BY <1>0, <3>1 DEF CommitLogin, CommitRefresh, CommitLogout, LogoutFindsNothing, Goto
    <3> QED
      BY <3>1, <3>2 DEF Answers
  <2>2. CASE CommitLogin(r) \/ CommitRefresh(r) \/ CommitLogout(r) \/ LogoutFindsNothing(r)
    <3>1. request' = [request EXCEPT ![r].step = "ok"]
      BY <2>2 DEF CommitLogin, CommitRefresh, CommitLogout, LogoutFindsNothing, Goto
    <3>2. ~(Refuse(r) \/ CommitExpiry(r))
      BY <1>0, <3>1 DEF Refuse, CommitExpiry, Goto
    <3> QED
      BY <3>1, <3>2 DEF Answers
  <2> QED
    BY <2>1, <2>2
<1> QED
  BY <1>0, <1>1

(* A login adds a row.                                                     *)
LEMMA RowsAfterLogin ==
  ASSUME ServerInv, NEW r \in Requests, CommitLogin(r)
  PROVE  /\ DOMAIN tokens' = DOMAIN tokens \cup {r} /\ r \notin DOMAIN tokens
         /\ tokens'[r] = [login |-> r, revoked |-> FALSE]
         /\ \A u \in DOMAIN tokens : tokens'[u] = tokens[u]
         /\ RowsOK'
<1>1. r \notin DOMAIN tokens
  BY NotMintedYet DEF CommitLogin, Received
<1>2. /\ tokens' = Minted(tokens, r, r) /\ r \in Tokens
      /\ DOMAIN tokens \subseteq Tokens
      /\ tokens \in [DOMAIN tokens -> [login : Tokens, revoked : BOOLEAN]]
      /\ \A t \in DOMAIN tokens : tokens[t].login \in DOMAIN tokens
  BY DEF CommitLogin, Tokens, ServerInv, RowsOK
<1>3. /\ DOMAIN tokens' = DOMAIN tokens \cup {r} /\ DOMAIN tokens' \subseteq Tokens
      /\ tokens' \in [DOMAIN tokens' -> [login : Tokens, revoked : BOOLEAN]]
      /\ tokens'[r] = [login |-> r, revoked |-> FALSE]
      /\ \A u \in DOMAIN tokens : tokens'[u] = tokens[u]
  <2> DEFINE rows == Minted(tokens, r, r)
  <2>1. /\ DOMAIN rows = DOMAIN tokens \cup {r} /\ DOMAIN tokens \cup {r} \subseteq Tokens
        /\ rows \in [DOMAIN tokens \cup {r} -> [login : Tokens, revoked : BOOLEAN]]
        /\ rows[r] = [login |-> r, revoked |-> FALSE]
        /\ \A u \in DOMAIN tokens \ {r} : rows[u] = tokens[u]
    <3>1. DOMAIN tokens \in SUBSET Tokens
      BY <1>2
    <3>2. r \in Tokens /\ tokens \in [DOMAIN tokens -> [login : Tokens, revoked : BOOLEAN]]
      BY <1>2
    <3> QED
      BY <3>1, <3>2 DEF Minted
  <2>2. tokens' = rows
    BY <1>2
  <2> HIDE DEF rows
  <2> QED
    BY <1>1, <2>1, <2>2
<1> QED
  BY <1>1, <1>2, <1>3 DEF RowsOK

(* A refresh adds a row of the same login and revokes the one it found.    *)
LEMMA RowsAfterRefresh ==
  ASSUME ServerInv, NEW r \in Requests, CommitRefresh(r), NEW t, t = request[r].found
  PROVE  /\ t \in DOMAIN tokens /\ r \notin DOMAIN tokens
         /\ DOMAIN tokens' = DOMAIN tokens \cup {r}
         /\ tokens'[r] = [login |-> tokens[t].login, revoked |-> FALSE]
         /\ tokens'[t].revoked = TRUE
         /\ \A u \in DOMAIN tokens : tokens'[u].login = tokens[u].login
         /\ \A u \in DOMAIN tokens \ {t} : tokens'[u] = tokens[u]
         /\ RowsOK'
<1>1. r \notin DOMAIN tokens
  BY NotMintedYet DEF CommitRefresh
<1>2. /\ tokens' = Minted(Revoked(t), r, tokens[t].login)
      /\ t \in DOMAIN tokens /\ tokens[t].login \in Tokens /\ RowsOK
      /\ \A u \in DOMAIN tokens : tokens[u].login \in DOMAIN tokens
  BY DEF CommitRefresh, ServerInv, RowsOK, RequestOK
<1>3. /\ DOMAIN Revoked(t) = DOMAIN tokens
      /\ DOMAIN tokens \subseteq Tokens
      /\ Revoked(t) \in [DOMAIN tokens -> [login : Tokens, revoked : BOOLEAN]]
      /\ \A u \in DOMAIN tokens : Revoked(t)[u].login = tokens[u].login
      /\ \A u \in DOMAIN tokens \ {t} : Revoked(t)[u] = tokens[u]
      /\ Revoked(t)[t].revoked = TRUE
  BY <1>2, RevokedRows DEF RowsOK
<1>4. /\ DOMAIN tokens' = DOMAIN tokens \cup {r} /\ DOMAIN tokens' \subseteq Tokens
      /\ tokens' \in [DOMAIN tokens' -> [login : Tokens, revoked : BOOLEAN]]
      /\ tokens'[r] = [login |-> tokens[t].login, revoked |-> FALSE]
      /\ \A u \in DOMAIN tokens : tokens'[u] = Revoked(t)[u]
  <2>1. PICK old : old = Revoked(t)
    OBVIOUS
  <2>2. PICK origin \in Tokens : origin = tokens[t].login
    BY <1>2
  <2>3. DOMAIN old = DOMAIN tokens /\ old \in [DOMAIN tokens -> [login : Tokens, revoked : BOOLEAN]]
        /\ DOMAIN tokens \subseteq Tokens /\ r \in Tokens
    BY <1>3, <2>1 DEF Tokens
  <2>4. tokens' = Minted(old, r, origin)
    BY <1>2, <2>1, <2>2
  <2>5. /\ DOMAIN tokens' = DOMAIN tokens \cup {r} /\ DOMAIN tokens' \subseteq Tokens
        /\ tokens' \in [DOMAIN tokens' -> [login : Tokens, revoked : BOOLEAN]]
        /\ tokens'[r] = [login |-> origin, revoked |-> FALSE]
        /\ \A u \in DOMAIN tokens : tokens'[u] = old[u]
    BY <1>1, <2>3, <2>4 DEF Minted
  <2> QED
    BY <2>1, <2>2, <2>5
<1>5. \A u \in DOMAIN tokens' : tokens'[u].login \in DOMAIN tokens'
  BY <1>2, <1>3, <1>4
<1>6. RowsOK'
  BY <1>4, <1>5 DEF RowsOK
<1>7. /\ \A u \in DOMAIN tokens : tokens'[u].login = tokens[u].login
      /\ \A u \in DOMAIN tokens \ {t} : tokens'[u] = tokens[u]
      /\ tokens'[t].revoked = TRUE
  BY <1>2, <1>3, <1>4
<1> HIDE DEF RowsOK, Revoked, Minted
<1> QED
  BY <1>1, <1>2, <1>4, <1>6, <1>7

(* A logout, and a refresh of an expired token, revoke the one they found. *)
LEMMA RowsAfterRevoke ==
  ASSUME ServerInv, NEW r \in Requests, CommitLogout(r) \/ CommitExpiry(r), NEW t, t = request[r].found
  PROVE  /\ t \in DOMAIN tokens
         /\ DOMAIN tokens' = DOMAIN tokens
         /\ tokens'[t].revoked = TRUE
         /\ \A u \in DOMAIN tokens : tokens'[u].login = tokens[u].login
         /\ \A u \in DOMAIN tokens \ {t} : tokens'[u] = tokens[u]
         /\ RowsOK'
<1>1. tokens' = Revoked(t) /\ t \in DOMAIN tokens /\ RowsOK
  BY DEF CommitLogout, CommitExpiry, ServerInv, RequestOK
<1>2. /\ DOMAIN tokens' = DOMAIN tokens /\ DOMAIN tokens \subseteq Tokens
      /\ tokens' \in [DOMAIN tokens -> [login : Tokens, revoked : BOOLEAN]]
      /\ \A u \in DOMAIN tokens : tokens'[u].login = tokens[u].login
      /\ \A u \in DOMAIN tokens \ {t} : tokens'[u] = tokens[u]
      /\ tokens'[t].revoked = TRUE
      /\ \A u \in DOMAIN tokens : tokens[u].login \in DOMAIN tokens
  <2> DEFINE rows == Revoked(t)
  <2>1. /\ DOMAIN rows = DOMAIN tokens /\ DOMAIN tokens \subseteq Tokens
        /\ rows \in [DOMAIN tokens -> [login : Tokens, revoked : BOOLEAN]]
        /\ \A u \in DOMAIN tokens : rows[u].login = tokens[u].login
        /\ \A u \in DOMAIN tokens \ {t} : rows[u] = tokens[u]
        /\ rows[t].revoked = TRUE
        /\ \A u \in DOMAIN tokens : tokens[u].login \in DOMAIN tokens
    BY <1>1, RevokedRows DEF RowsOK
  <2>2. tokens' = rows
    BY <1>1
  <2> HIDE DEF rows
  <2> QED
    BY <2>1, <2>2
<1> QED
  BY <1>1, <1>2 DEF RowsOK

(* No row disappears and none changes its login.                           *)
LEMMA RowsGrow ==
  ASSUME ServerInv, NEW r \in Requests,
         \/ (\E op \in Operations, t \in DOMAIN tokens \cup {None} : Receive(r, op, t))
         \/ Serve(r)
  PROVE  /\ RowsOK' /\ DOMAIN tokens \subseteq DOMAIN tokens'
         /\ \A t \in DOMAIN tokens : tokens'[t].login = tokens[t].login
<1>1. CASE CommitLogin(r)
  BY <1>1, RowsAfterLogin
<1>2. CASE CommitRefresh(r)
  BY <1>2, RowsAfterRefresh
<1>3. CASE CommitLogout(r) \/ CommitExpiry(r)
  BY <1>3, RowsAfterRevoke
<1>4. CASE tokens' = tokens
  BY <1>4 DEF RowsOK, ServerInv
<1> QED
  BY <1>1, <1>2, <1>3, <1>4 DEF Serve, Receive, FindToken, LogoutFindsNothing, Refuse

(* Every step keeps what is known of each request.                         *)
LEMMA RequestsKept ==
  ASSUME ServerInv, NEW r \in Requests,
         \/ (\E op \in Operations, t \in DOMAIN tokens \cup {None} : Receive(r, op, t))
         \/ Serve(r)
  PROVE  \A q \in Requests : RequestOK(q)' /\ SeenOK(q)'
<1>1. /\ request[r].step # "ok" /\ audit[r] = None /\ r \notin Committed
      /\ \A q \in Requests \ {r} : request'[q] = request[q] /\ audit'[q] = audit[q]
      /\ expired' = expired /\ DOMAIN tokens \subseteq DOMAIN tokens'
      /\ Committed \subseteq Committed'
  <2>1. /\ request[r].step # "ok" /\ expired' = expired
        /\ \A q \in Requests \ {r} : request'[q] = request[q] /\ audit'[q] = audit[q]
    BY OwnRecordOnly
  <2>2. audit[r] = None /\ r \notin Committed
    BY <2>1, NotMintedYet
  <2>3. DOMAIN tokens \subseteq DOMAIN tokens'
    BY RowsGrow
  <2> QED
    BY <2>1, <2>2, <2>3 DEF Committed
<1>2. \A q \in Requests : RequestOK(q) /\ SeenOK(q)
  BY DEF ServerInv
<1>3. ASSUME NEW q \in Requests \ {r} PROVE RequestOK(q)' /\ SeenOK(q)'
  <2>1. RequestOK(q)'
    BY <1>1, <1>2 DEF RequestOK
  <2>2. \A p \in request[q].seen : p \in Requests \ {r}
    BY <1>1, <1>2 DEF SeenOK, Committed
  <2> QED
    BY <1>1, <1>2, <2>1, <2>2 DEF SeenOK, Consumes
<1>4. RequestOK(r)' /\ SeenOK(r)'
  <2>1. /\ RequestOK(r) /\ SeenOK(r)
        /\ request \in [Requests -> [op : Operations \cup {"none"}, token : Tokens \cup {None},
                               found : Tokens \cup {None}, seen : SUBSET Requests,
                               step : {"received", "commit", "expire"} \cup Answers]]
        /\ DOMAIN audit = Requests /\ None \notin AuditActions
    BY TokenAssumption DEF ServerInv, ServerTypeOK
  <2>2. CASE \E op \in Operations, t \in DOMAIN tokens \cup {None} : Receive(r, op, t)
    <3>1. PICK op \in Operations : \E t \in DOMAIN tokens \cup {None} : Receive(r, op, t)
      BY <2>2
    <3>2. PICK t \in DOMAIN tokens \cup {None} : Receive(r, op, t)
      BY <3>1
    <3>3. request'[r] = NewRequest(op, t) /\ audit' = audit
      BY <2>1, <3>2 DEF Receive
    <3> QED
      BY <1>1, <2>1, <3>3, TokenAssumption DEF RequestOK, SeenOK, NewRequest, Operations, AuditActions
  <2>3. CASE FindToken(r)
    <3>1. request[r].token \in DOMAIN tokens /\ ~tokens[request[r].token].revoked
      BY <2>3 DEF FindToken, Live
    <3>2. request[r].op \in {"refresh", "logout"} /\ audit' = audit /\ tokens' = tokens /\ expired' = expired
      BY <2>3 DEF FindToken, Received
    <3>3. request' = [request EXCEPT ![r].found = request[r].token, ![r].seen = Committed,
             ![r].step = IF request[r].op = "refresh" /\ request[r].token \in expired THEN "expire" ELSE "commit"]
      BY <2>3, Zenon DEF FindToken
    <3>4. /\ request'[r].op = request[r].op /\ request'[r].found = request[r].token
          /\ request'[r].token = request[r].token /\ request'[r].seen = Committed
          /\ request'[r].step = IF request[r].op = "refresh" /\ request[r].token \in expired THEN "expire" ELSE "commit"
      BY <2>1, <3>3
    <3>5. RequestOK(r)'
      BY <1>1, <2>1, <3>1, <3>2, <3>4 DEF RequestOK, AuditActions
    <3>6. \A q \in Requests : ~Consumes(q, request[r].token)
      BY <3>1 DEF ServerInv, AuditExplainsTokens
    <3>7. ASSUME NEW q \in Committed 
          PROVE  ~(audit'[q] \in {"TOKEN_REFRESH", "LOGOUT"} /\ request'[q].found = request[r].token)
      <4>1. q \in Requests \ {r} /\ request'[q] = request[q] /\ audit'[q] = audit[q]
        BY <1>1 DEF Committed
      <4> QED
        BY <3>6, <4>1 DEF Consumes
    <3>8. SeenOK(r)'
      BY <1>1, <3>4, <3>7 DEF SeenOK, Consumes
    <3> QED
      BY <3>5, <3>8
  <2>4. CASE Refuse(r) \/ LogoutFindsNothing(r) \/ CommitExpiry(r)
    <3>1. audit' = audit
      BY <2>4 DEF Refuse, LogoutFindsNothing, CommitExpiry
    <3>2. LogoutFindsNothing(r) => request[r].op = "logout"
      BY DEF LogoutFindsNothing, Received
    <3>3. Refuse(r) => request[r].op # "none"
      BY <2>1 DEF Refuse, Received, RequestOK
    <3>4. CommitExpiry(r) => request[r].op # "none"
      BY <2>1 DEF CommitExpiry, RequestOK
    <3>5. /\ request'[r].op = request[r].op /\ request'[r].token = request[r].token
          /\ request'[r].found = request[r].found /\ request'[r].seen = request[r].seen
          /\ Refuse(r) \/ CommitExpiry(r) => request'[r].step = "refused"
          /\ LogoutFindsNothing(r) => request'[r].step = "ok"
      BY <2>4, FieldsKept
    <3> QED
      BY <1>1, <2>1, <2>4, <3>1, <3>2, <3>3, <3>4, <3>5 DEF RequestOK, SeenOK, AuditActions
  <2>5. CASE CommitLogin(r) \/ CommitRefresh(r) \/ CommitLogout(r)
    <3>1. /\ CommitLogin(r) => request[r].op = "login" /\ audit'[r] = "LOGIN_SUCCESS"
          /\ CommitRefresh(r) => request[r].op = "refresh" /\ audit'[r] = "TOKEN_REFRESH"
          /\ CommitLogout(r) => request[r].op = "logout" /\ audit'[r] = "LOGOUT"
      BY <2>1 DEF CommitLogin, CommitRefresh, CommitLogout, Received
    <3>2. CommitRefresh(r) \/ CommitLogout(r) => request[r].found \in DOMAIN tokens
      BY <2>1 DEF CommitRefresh, CommitLogout, RequestOK
    <3>3. /\ request'[r].op = request[r].op /\ request'[r].token = request[r].token
          /\ request'[r].found = request[r].found /\ request'[r].seen = request[r].seen
          /\ request'[r].step = "ok"
      BY <2>5, FieldsKept
    <3> QED
      BY <1>1, <2>1, <2>5, <3>1, <3>2, <3>3 DEF RequestOK, SeenOK
  <2> QED
    BY <2>2, <2>3, <2>4, <2>5 DEF Serve
<1> QED
  BY <1>3, <1>4

(* Steps that commit nothing leave the log and what it tells as they are.  *)
LEMMA QuietStep ==
  ASSUME ServerInv, audit' = audit, tokens' = tokens, expired \subseteq expired',
         \A q \in Requests : audit[q] # None =>
           request'[q].found = request[q].found /\ request'[q].seen = request[q].seen
  PROVE  AuditExplainsTokens' /\ TokenReusedOnlyByOverlap' /\ OneUnusedPerLogin'
<1>1. AuditExplainsTokens /\ TokenReusedOnlyByOverlap /\ OneUnusedPerLogin /\ None \notin AuditActions
  BY TokenAssumption DEF ServerInv
<1>2. \A q \in Requests, t \in DOMAIN tokens :
        /\ audit'[q] \in {"TOKEN_REFRESH", "LOGOUT"} /\ request'[q].found = t <=> Consumes(q, t)
        /\ audit'[q] = "TOKEN_REFRESH" /\ request'[q].found = t <=> RefreshedBy(q, t)
  BY <1>1 DEF Consumes, RefreshedBy, AuditActions
<1>3. AuditExplainsTokens'
  BY <1>1, <1>2 DEF AuditExplainsTokens, Consumes
<1>4. TokenReusedOnlyByOverlap'
  <2> SUFFICES ASSUME NEW t \in DOMAIN tokens, NEW q \in Requests, NEW r \in Requests,
                      q # r, Consumes(q, t)', Consumes(r, t)'
               PROVE  q \notin request'[r].seen /\ r \notin request'[q].seen
    BY DEF TokenReusedOnlyByOverlap
  <2>1. Consumes(q, t) /\ Consumes(r, t)
    BY <1>2 DEF Consumes
  <2>2. audit[q] # None /\ audit[r] # None
    BY <1>1, <2>1 DEF Consumes, AuditActions
  <2> QED
    BY <1>1, <2>1, <2>2 DEF TokenReusedOnlyByOverlap
<1>5. OneUnusedPerLogin'
  BY <1>1, <1>2 DEF OneUnusedPerLogin, Unused, Forked, RefreshedBy
<1> QED
  BY <1>3, <1>4, <1>5

(* What the commits write to the log.                                      *)
LEMMA LogAfterCommit ==
  ASSUME ServerInv, NEW r \in Requests, CommitLogin(r) \/ CommitRefresh(r) \/ CommitLogout(r)
  PROVE  /\ audit[r] = None /\ r \notin Committed /\ r \notin DOMAIN tokens
         /\ \A q \in Requests \ {r} : request'[q] = request[q] /\ audit'[q] = audit[q]
         /\ request'[r].found = request[r].found /\ request'[r].seen = request[r].seen
         /\ CommitLogin(r) => audit'[r] = "LOGIN_SUCCESS"
         /\ CommitRefresh(r) => audit'[r] = "TOKEN_REFRESH"
         /\ CommitLogout(r) => audit'[r] = "LOGOUT"
         /\ expired' = expired
         /\ ~CommitLogin(r) => request[r].step = "commit"
<1>1. Serve(r)
  BY DEF Serve
<1>2. /\ request[r].step # "ok" /\ expired' = expired
      /\ \A q \in Requests \ {r} : request'[q] = request[q] /\ audit'[q] = audit[q]
  BY <1>1, OwnRecordOnly
<1>3. audit[r] = None /\ r \notin Committed /\ r \notin DOMAIN tokens
  BY <1>2, NotMintedYet
<1>4. request'[r].found = request[r].found /\ request'[r].seen = request[r].seen
  BY FieldsKept
<1>5. /\ CommitLogin(r) => audit'[r] = "LOGIN_SUCCESS"
      /\ CommitRefresh(r) => audit'[r] = "TOKEN_REFRESH"
      /\ CommitLogout(r) => audit'[r] = "LOGOUT"
      /\ ~CommitLogin(r) => request[r].step = "commit"
  BY DEF CommitLogin, CommitRefresh, CommitLogout, ServerInv, ServerTypeOK
<1> QED
  BY <1>2, <1>3, <1>4, <1>5

(* The log goes on explaining the rows.                                    *)
LEMMA AuditKept ==
  ASSUME ServerInv, NEW r \in Requests, Serve(r)
  PROVE  AuditExplainsTokens'
<1>0. /\ AuditExplainsTokens /\ None \notin AuditActions
      /\ \A q \in Requests : RequestOK(q)
      /\ DOMAIN tokens \subseteq Tokens
  BY TokenAssumption DEF ServerInv, RowsOK
<1>1. CASE FindToken(r) \/ LogoutFindsNothing(r) \/ Refuse(r)
  <2>1. audit' = audit /\ tokens' = tokens /\ expired' = expired
    BY <1>1 DEF FindToken, LogoutFindsNothing, Refuse
  <2>2. \A q \in Requests \ {r} : request'[q] = request[q]
    BY OwnRecordOnly
  <2>3. audit[r] = None
    BY NotMintedYet, OwnRecordOnly
  <2> QED
    BY <2>1, <2>2, <2>3, QuietStep
<1>2. CASE CommitLogin(r)
  <2>1. /\ DOMAIN tokens' = DOMAIN tokens \cup {r} /\ r \notin DOMAIN tokens
        /\ tokens'[r] = [login |-> r, revoked |-> FALSE]
        /\ \A u \in DOMAIN tokens : tokens'[u] = tokens[u]
    BY <1>2, RowsAfterLogin
  <2>2. /\ audit[r] = None /\ audit'[r] = "LOGIN_SUCCESS" /\ expired' = expired
        /\ \A q \in Requests \ {r} : request'[q] = request[q] /\ audit'[q] = audit[q]
    BY <1>2, LogAfterCommit
  <2>3. \A q \in Requests : q \in DOMAIN tokens' <=> audit'[q] \in {"LOGIN_SUCCESS", "TOKEN_REFRESH"}
    BY <1>0, <2>1, <2>2 DEF AuditExplainsTokens
  <2>4. \A q \in Requests, t \in DOMAIN tokens : Consumes(q, t) <=>
          audit'[q] \in {"TOKEN_REFRESH", "LOGOUT"} /\ request'[q].found = t
    BY <1>0, <2>2 DEF Consumes, AuditActions
  <2>5. \A q \in Requests : ~(audit'[q] \in {"TOKEN_REFRESH", "LOGOUT"} /\ request'[q].found = r)
    BY <1>0, <2>1, <2>2 DEF RequestOK
  <2>6. ASSUME NEW t \in DOMAIN tokens
        PROVE  /\ tokens'[t].revoked => t \in expired' \/ \E q \in Requests : Consumes(q, t)
               /\ (\E q \in Requests : Consumes(q, t)) => tokens'[t].revoked
    BY <1>0, <2>1, <2>2 DEF AuditExplainsTokens
  <2>7. tokens'[r].revoked = FALSE
    BY <2>1
  <2> QED
    BY <2>1, <2>3, <2>4, <2>5, <2>6, <2>7 DEF AuditExplainsTokens, Consumes
<1>3. CASE CommitRefresh(r)
  <2>0. PICK f : f = request[r].found
    OBVIOUS
  <2>1. /\ f \in DOMAIN tokens /\ r \notin DOMAIN tokens
        /\ DOMAIN tokens' = DOMAIN tokens \cup {r}
        /\ tokens'[r] = [login |-> tokens[f].login, revoked |-> FALSE]
        /\ tokens'[f].revoked = TRUE
        /\ \A u \in DOMAIN tokens \ {f} : tokens'[u] = tokens[u]
    BY <1>3, <2>0, RowsAfterRefresh
  <2>2. /\ audit[r] = None /\ audit'[r] = "TOKEN_REFRESH" /\ expired' = expired
        /\ request'[r].found = f
        /\ \A q \in Requests \ {r} : request'[q] = request[q] /\ audit'[q] = audit[q]
    BY <1>3, <2>0, LogAfterCommit
  <2>3. \A q \in Requests : q \in DOMAIN tokens' <=> audit'[q] \in {"LOGIN_SUCCESS", "TOKEN_REFRESH"}
    BY <1>0, <2>1, <2>2 DEF AuditExplainsTokens
  <2>4. \A q \in Requests : \A t \in DOMAIN tokens \ {f} : Consumes(q, t) <=>
          audit'[q] \in {"TOKEN_REFRESH", "LOGOUT"} /\ request'[q].found = t
    BY <1>0, <2>2 DEF Consumes, AuditActions
  <2>5. \A q \in Requests : ~(audit'[q] \in {"TOKEN_REFRESH", "LOGOUT"} /\ request'[q].found = r)
    BY <1>0, <2>1, <2>2 DEF RequestOK
  <2>6. ASSUME NEW t \in DOMAIN tokens \ {f}
        PROVE  /\ tokens'[t].revoked => t \in expired' \/ \E q \in Requests : Consumes(q, t)
               /\ (\E q \in Requests : Consumes(q, t)) => tokens'[t].revoked
    BY <1>0, <2>1, <2>2 DEF AuditExplainsTokens
  <2>7. tokens'[r].revoked = FALSE
    BY <2>1
  <2>8. audit'[r] \in {"TOKEN_REFRESH", "LOGOUT"} /\ request'[r].found = f
    BY <2>2
  <2> QED
    BY <2>1, <2>3, <2>4, <2>5, <2>6, <2>7, <2>8 DEF AuditExplainsTokens, Consumes
<1>4. CASE CommitLogout(r) \/ CommitExpiry(r)
  <2>0. PICK f : f = request[r].found
    OBVIOUS
  <2>1. /\ f \in DOMAIN tokens /\ DOMAIN tokens' = DOMAIN tokens
        /\ tokens'[f].revoked = TRUE
        /\ \A u \in DOMAIN tokens \ {f} : tokens'[u] = tokens[u]
    BY <1>4, <2>0, RowsAfterRevoke
  <2>2. /\ audit[r] = None /\ expired' = expired /\ r \notin DOMAIN tokens
        /\ request'[r].found = f
        /\ audit'[r] \in {None, "LOGOUT"}
        /\ audit'[r] = "LOGOUT" \/ f \in expired
        /\ \A q \in Requests \ {r} : request'[q] = request[q] /\ audit'[q] = audit[q]
    <3>1. CASE CommitLogout(r)
      BY <2>0, <3>1, LogAfterCommit
    <3>2. CASE CommitExpiry(r)
      <4>1. /\ request[r].step # "ok" /\ expired' = expired
            /\ \A q \in Requests \ {r} : request'[q] = request[q] /\ audit'[q] = audit[q]
        BY OwnRecordOnly
      <4>2. audit[r] = None /\ r \notin DOMAIN tokens
        BY <4>1, NotMintedYet
      <4>3. audit' = audit /\ request[r].step = "expire" /\ f \in expired
        BY <1>0, <2>0, <3>2 DEF CommitExpiry, RequestOK
      <4>4. request'[r].found = f
        BY <2>0, <3>2, FieldsKept
      <4> QED
        BY <4>1, <4>2, <4>3, <4>4
    <3> QED
      BY <1>4, <3>1, <3>2
  <2>3. \A q \in Requests : q \in DOMAIN tokens' <=> audit'[q] \in {"LOGIN_SUCCESS", "TOKEN_REFRESH"}
    BY <1>0, <2>1, <2>2 DEF AuditExplainsTokens, AuditActions
  <2>4. \A q \in Requests : \A t \in DOMAIN tokens \ {f} : Consumes(q, t) <=>
          audit'[q] \in {"TOKEN_REFRESH", "LOGOUT"} /\ request'[q].found = t
    BY <1>0, <2>2 DEF Consumes, AuditActions
  <2>6. ASSUME NEW t \in DOMAIN tokens \ {f}
        PROVE  /\ tokens'[t].revoked => t \in expired' \/ \E q \in Requests : Consumes(q, t)
               /\ (\E q \in Requests : Consumes(q, t)) => tokens'[t].revoked
    BY <1>0, <2>1, <2>2 DEF AuditExplainsTokens
  <2>8. f \in expired' \/ (audit'[r] \in {"TOKEN_REFRESH", "LOGOUT"} /\ request'[r].found = f)
    BY <2>2
  <2> QED
    BY <2>1, <2>3, <2>4, <2>6, <2>8 DEF AuditExplainsTokens, Consumes
<1> QED
  BY <1>1, <1>2, <1>3, <1>4 DEF Serve

(* Two uses of one token go on to overlap.                                 *)
LEMMA ReuseKept ==
  ASSUME ServerInv, NEW r \in Requests, Serve(r)
  PROVE  TokenReusedOnlyByOverlap'
<1>1. /\ \A q \in Requests \ {r} : request'[q] = request[q] /\ audit'[q] = audit[q]
      /\ audit[r] = None /\ r \notin Committed /\ None \notin AuditActions
      /\ DOMAIN tokens \subseteq DOMAIN tokens'
      /\ TokenReusedOnlyByOverlap
      /\ \A q \in Requests : RequestOK(q) /\ SeenOK(q)
  <2>1. request[r].step # "ok" /\ \A q \in Requests \ {r} : request'[q] = request[q] /\ audit'[q] = audit[q]
    BY OwnRecordOnly
  <2> QED
    BY <2>1, NotMintedYet, RowsGrow, TokenAssumption DEF ServerInv
<1>2. ASSUME NEW t, NEW q \in Requests, audit[q] \in {"TOKEN_REFRESH", "LOGOUT"}, request[q].found = t
      PROVE  t \in DOMAIN tokens
  BY <1>1, <1>2 DEF RequestOK
<1>3. ASSUME NEW t, NEW q \in Requests \ {r}, Consumes(q, t)', Consumes(r, t)'
      PROVE  q \notin request'[r].seen /\ r \notin request'[q].seen
  <2>1. Consumes(q, t)
    BY <1>1, <1>3 DEF Consumes
  <2>2. r \notin request'[q].seen
    BY <1>1 DEF SeenOK
  <2>3. CommitRefresh(r) \/ CommitLogout(r)
    <3>1. audit'[r] \in {"TOKEN_REFRESH", "LOGOUT"}
      BY <1>3 DEF Consumes
    <3>2. CASE audit' = audit
      BY <1>1, <3>1, <3>2 DEF AuditActions
    <3>3. CASE CommitLogin(r)
      BY <3>1, <3>3, LogAfterCommit
    <3> QED
      BY <3>2, <3>3 DEF Serve, FindToken, LogoutFindsNothing, Refuse, CommitExpiry
  <2>4. request[r].step = "commit" /\ request'[r].found = request[r].found /\ request'[r].seen = request[r].seen
    BY <2>3, LogAfterCommit DEF CommitRefresh, CommitLogout
  <2>5. request[r].found = t
    BY <1>3, <2>4 DEF Consumes
  <2>6. q \notin request[r].seen
    BY <1>1, <2>1, <2>4, <2>5 DEF SeenOK
  <2> QED
    BY <2>2, <2>4, <2>6
<1>4. ASSUME NEW t, NEW p \in Requests \ {r}, NEW q \in Requests \ {r}, p # q, Consumes(p, t)', Consumes(q, t)'
      PROVE  p \notin request'[q].seen /\ q \notin request'[p].seen
  <2>1. Consumes(p, t) /\ Consumes(q, t)
    BY <1>1, <1>4 DEF Consumes
  <2>2. t \in DOMAIN tokens
    BY <1>2, <2>1 DEF Consumes
  <2> QED
    BY <1>1, <1>4, <2>1, <2>2 DEF TokenReusedOnlyByOverlap
<1> QED
  BY <1>3, <1>4 DEF TokenReusedOnlyByOverlap

(* Each login goes on to have at most one token nobody has refreshed.      *)
LEMMA UnusedKept ==
  ASSUME ServerInv, NEW r \in Requests, Serve(r)
  PROVE  OneUnusedPerLogin'
<1>1. /\ \A q \in Requests \ {r} : request'[q] = request[q] /\ audit'[q] = audit[q]
      /\ audit[r] = None /\ r \notin DOMAIN tokens /\ None \notin AuditActions
      /\ DOMAIN tokens \subseteq DOMAIN tokens'
      /\ \A t \in DOMAIN tokens : tokens'[t].login = tokens[t].login /\ tokens[t].login \in DOMAIN tokens
      /\ OneUnusedPerLogin
      /\ \A q \in Requests : RequestOK(q)
  <2>1. request[r].step # "ok" /\ \A q \in Requests \ {r} : request'[q] = request[q] /\ audit'[q] = audit[q]
    BY OwnRecordOnly
  <2> QED
    BY <2>1, NotMintedYet, RowsGrow, TokenAssumption DEF ServerInv, RowsOK
<1>2. \A q \in Requests, t \in DOMAIN tokens : RefreshedBy(q, t) => RefreshedBy(q, t)'
  BY <1>1 DEF RefreshedBy, AuditActions
<1>3. \A t \in DOMAIN tokens : Unused(t)' => Unused(t)
  BY <1>2 DEF Unused
<1>4. ASSUME NEW l, Forked(l) PROVE Forked(l)'
  BY <1>1, <1>2, <1>4 DEF Forked
<1>5. CASE DOMAIN tokens' = DOMAIN tokens
  BY <1>1, <1>3, <1>4, <1>5 DEF OneUnusedPerLogin
<1>6. CASE CommitLogin(r)
  <2>1. DOMAIN tokens' = DOMAIN tokens \cup {r} /\ tokens'[r] = [login |-> r, revoked |-> FALSE]
    BY <1>6, RowsAfterLogin
  <2> QED
    BY <1>1, <1>3, <1>4, <2>1 DEF OneUnusedPerLogin
<1>7. CASE CommitRefresh(r)
  <2>0. PICK f : f = request[r].found
    OBVIOUS
  <2>1. /\ f \in DOMAIN tokens /\ DOMAIN tokens' = DOMAIN tokens \cup {r}
        /\ tokens'[r] = [login |-> tokens[f].login, revoked |-> FALSE]
    BY <1>7, <2>0, RowsAfterRefresh
  <2>5. PICK l : l = tokens[f].login
    OBVIOUS
  <2>2. RefreshedBy(r, f)'
    BY <1>7, <2>0, LogAfterCommit DEF RefreshedBy
  <2>3. ASSUME NEW u \in DOMAIN tokens, Unused(u)', tokens[u].login = l
        PROVE  Forked(l)'
    <3>1. u # f
      BY <2>2, <2>3 DEF Unused
    <3>2. CASE Unused(f)
      <4>1. Forked(l)
        BY <1>1, <1>3, <2>1, <2>5, <2>3, <3>1, <3>2 DEF OneUnusedPerLogin
      <4> QED
        BY <1>4, <4>1
    <3>3. CASE ~Unused(f)
      <4>1. PICK q \in Requests : RefreshedBy(q, f)
        BY <3>3 DEF Unused
      <4>2. q # r
        BY <1>1, <4>1 DEF RefreshedBy, AuditActions
      <4>3. RefreshedBy(q, f)'
        BY <1>2, <2>1, <4>1
      <4> QED
        BY <1>1, <2>1, <2>5, <2>2, <4>2, <4>3 DEF Forked
    <3> QED
      BY <3>2, <3>3
  <2>4. ASSUME NEW t \in DOMAIN tokens', NEW u \in DOMAIN tokens', t # u, Unused(t)', Unused(u)',
               tokens'[t].login = tokens'[u].login
        PROVE  Forked(tokens[t].login)'
    <3>0. PICK m : m = tokens'[t].login
      OBVIOUS
    <3>1. CASE t \in DOMAIN tokens /\ u \in DOMAIN tokens
      <4>1. Forked(m)
        BY <1>1, <1>3, <2>4, <3>0, <3>1 DEF OneUnusedPerLogin
      <4> QED
        BY <1>4, <3>0, <4>1
    <3>2. CASE t = r
      <4>1. Forked(l)' /\ m = l
        BY <1>1, <2>1, <2>5, <2>3, <2>4, <3>0, <3>2
      <4> QED
        BY <3>0, <4>1
    <3>3. CASE u = r
      <4>1. Forked(l)' /\ m = l
        BY <1>1, <2>1, <2>5, <2>3, <2>4, <3>0, <3>3
      <4> QED
        BY <3>0, <4>1
    <3> QED
      BY <2>1, <2>4, <3>1, <3>2, <3>3
  <2> QED
    BY <2>4 DEF OneUnusedPerLogin
<1> QED
  BY <1>5, <1>6, <1>7, RowsAfterRevoke DEF Serve, FindToken, LogoutFindsNothing, Refuse

---------------------------------------------------------------------------
(* The invariant is inductive.                                             *)

(* It holds at first.                                                      *)
LEMMA ServerInitInv ==
  ServerInit => ServerInv
<1> SUFFICES ASSUME ServerInit PROVE ServerInv
  OBVIOUS
<1>1. FirstToken \in Tokens /\ FirstToken \notin Requests /\ None \notin AuditActions
  BY TokenAssumption DEF FirstToken, Tokens, Requests
<1>2. /\ DOMAIN tokens = {FirstToken}
      /\ tokens[FirstToken] = [login |-> FirstToken, revoked |-> FALSE]
      /\ tokens \in [{FirstToken} -> [login : Tokens, revoked : BOOLEAN]]
  BY <1>1 DEF ServerInit
<1>3. /\ \A r \in Requests : request[r] = NoRequest /\ audit[r] = None
      /\ request \in [Requests -> {NoRequest}] /\ audit \in [Requests -> {None}] /\ expired = {}
  BY DEF ServerInit
<1>4. ServerTypeOK
  <2>1. NoRequest \in [op : Operations \cup {"none"}, token : Tokens \cup {None},
                        found : Tokens \cup {None}, seen : SUBSET Requests,
                        step : {"received", "commit", "expire"} \cup Answers]
    BY DEF NoRequest, NewRequest
  <2> QED
    BY <1>1, <1>2, <1>3, <2>1 DEF ServerTypeOK
<1>5. RowsOK
  BY <1>1, <1>2 DEF RowsOK
<1>6. \A r \in Requests : RequestOK(r) /\ SeenOK(r)
  BY <1>1, <1>3 DEF RequestOK, SeenOK, NoRequest, NewRequest, AuditActions
<1>7. \A r \in Requests : \A t : ~Consumes(r, t)
  BY <1>1, <1>3 DEF Consumes, AuditActions
<1>8. AuditExplainsTokens /\ TokenReusedOnlyByOverlap
  BY <1>1, <1>2, <1>3, <1>7 DEF AuditExplainsTokens, TokenReusedOnlyByOverlap, AuditActions
<1> QED
  BY <1>2, <1>4, <1>5, <1>6, <1>8 DEF ServerInv, OneUnusedPerLogin

(* Every step of a request keeps it.                                       *)
LEMMA ServeInv ==
  ASSUME ServerInv, NEW r \in Requests,
         \/ (\E op \in Operations, t \in DOMAIN tokens \cup {None} : Receive(r, op, t))
         \/ Serve(r)
  PROVE  ServerInv'
<1>1. RowsOK' /\ DOMAIN tokens \subseteq DOMAIN tokens'
  BY RowsGrow
<1>2. ServerTypeOK'
  <2>1. /\ request' \in [Requests -> [op : Operations \cup {"none"}, token : Tokens \cup {None},
                               found : Tokens \cup {None}, seen : SUBSET Requests,
                               step : {"received", "commit", "expire"} \cup Answers]]
        /\ audit' \in [Requests -> AuditActions \cup {None}] /\ expired' = expired
    BY OwnRecordOnly
  <2>2. expired \subseteq DOMAIN tokens
    BY DEF ServerInv, ServerTypeOK
  <2> QED
    BY <1>1, <2>1, <2>2 DEF ServerTypeOK, RowsOK
<1>3. \A q \in Requests : RequestOK(q)' /\ SeenOK(q)'
  BY RequestsKept
<1>4. AuditExplainsTokens' /\ TokenReusedOnlyByOverlap' /\ OneUnusedPerLogin'
  <2>1. CASE Serve(r)
    BY <2>1, AuditKept, ReuseKept, UnusedKept
  <2>2. CASE \E op \in Operations, t \in DOMAIN tokens \cup {None} : Receive(r, op, t)
    <3>1. audit' = audit /\ tokens' = tokens /\ expired' = expired
      BY <2>2 DEF Receive
    <3>2. audit[r] = None /\ \A q \in Requests \ {r} : request'[q] = request[q]
      BY <2>2, OwnRecordOnly, NotMintedYet
    <3> QED
      BY <3>1, <3>2, QuietStep
  <2> QED
    BY <2>1, <2>2
<1> QED
  BY <1>1, <1>2, <1>3, <1>4 DEF ServerInv

(* So does the time that passes.                                           *)
LEMMA ExpireInv ==
  ASSUME ServerInv, NEW t \in DOMAIN tokens, Expire(t)
  PROVE  ServerInv'
<1>1. /\ expired' = expired \cup {t} /\ tokens' = tokens /\ request' = request /\ audit' = audit
  BY DEF Expire
<1>2. AuditExplainsTokens' /\ TokenReusedOnlyByOverlap' /\ OneUnusedPerLogin'
  BY <1>1, QuietStep
<1>3. ServerTypeOK' /\ RowsOK'
  BY <1>1 DEF ServerInv, ServerTypeOK, RowsOK
<1>4. \A q \in Requests : RequestOK(q)' /\ SeenOK(q)'
  BY <1>1 DEF ServerInv, RequestOK, SeenOK, Consumes, Committed
<1> QED
  BY <1>2, <1>3, <1>4 DEF ServerInv

(* It is inductive.                                                        *)
LEMMA ServerStepInv ==
  ServerInv /\ [ServerNext]_serverVars => ServerInv'
<1> SUFFICES ASSUME ServerInv, [ServerNext]_serverVars PROVE ServerInv'
  OBVIOUS
<1>1. CASE ServerNext
  <2>1. CASE \E r \in Requests :
                \/ (\E op \in Operations, t \in DOMAIN tokens \cup {None} : Receive(r, op, t))
                \/ Serve(r)
    BY <2>1, ServeInv
  <2>2. CASE \E t \in DOMAIN tokens : Expire(t)
    BY <2>2, ExpireInv
  <2> QED
    BY <1>1, <2>1, <2>2 DEF ServerNext
<1>2. CASE UNCHANGED serverVars
  <2>1. /\ expired' = expired /\ tokens' = tokens /\ request' = request /\ audit' = audit
    BY <1>2 DEF serverVars
  <2>2. AuditExplainsTokens' /\ TokenReusedOnlyByOverlap' /\ OneUnusedPerLogin'
    BY <2>1, QuietStep
  <2>3. ServerTypeOK' /\ RowsOK'
    BY <2>1 DEF ServerInv, ServerTypeOK, RowsOK
  <2>4. \A q \in Requests : RequestOK(q)' /\ SeenOK(q)'
    BY <2>1 DEF ServerInv, RequestOK, SeenOK, Consumes, Committed
  <2> QED
    BY <2>2, <2>3, <2>4 DEF ServerInv
<1> QED
  BY <1>1, <1>2

(* A live token is one nobody has refreshed.                               *)
LEMMA LiveIsUnused ==
  ServerInv => OneLiveTokenPerLogin
<1> SUFFICES ASSUME ServerInv PROVE OneLiveTokenPerLogin
  OBVIOUS
<1>1. ASSUME NEW t \in DOMAIN tokens, Live(t) PROVE Unused(t)
  <2>1. \A r \in Requests : ~Consumes(r, t)
    BY <1>1 DEF Live, ServerInv, AuditExplainsTokens
  <2> QED
    BY <2>1 DEF Unused, RefreshedBy, Consumes
<1>2. ASSUME NEW t \in DOMAIN tokens, NEW u \in DOMAIN tokens,
             t # u, Live(t), Live(u), tokens[t].login = tokens[u].login
      PROVE  Forked(tokens[t].login)
  BY <1>1, <1>2 DEF ServerInv, OneUnusedPerLogin
<1> QED
  BY <1>2 DEF OneLiveTokenPerLogin, Forked, RefreshedBy

---------------------------------------------------------------------------
(* The theorems, of the server whatever requests it is sent.               *)

(* The inductive invariant holds of every behaviour.                       *)
THEOREM ServerInvariance ==
  ServerSpec => []ServerInv
  BY ServerInitInv, ServerStepInv, PTL DEF ServerSpec

(* The audit log explains which tokens exist and which were revoked        *)
(* (auth/service.py:24-66).                                                *)
THEOREM TokensExplained ==
  ServerSpec => []AuditExplainsTokens
<1>1. ServerInv => AuditExplainsTokens
  BY DEF ServerInv
<1> QED
  BY <1>1, ServerInvariance, PTL

(* Two requests use one token only when they overlap                       *)
(* (auth/service.py:43).                                                   *)
THEOREM ReuseNeedsOverlap ==
  ServerSpec => []TokenReusedOnlyByOverlap
<1>1. ServerInv => TokenReusedOnlyByOverlap
  BY DEF ServerInv
<1> QED
  BY <1>1, ServerInvariance, PTL

(* A login has two live tokens only when two refreshes used one of its     *)
(* tokens (auth/service.py:43-57).                                         *)
THEOREM OneLiveToken ==
  ServerSpec => []OneLiveTokenPerLogin
  BY LiveIsUnused, ServerInvariance, PTL
=============================================================================
