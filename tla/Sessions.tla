-------------------------------- MODULE Sessions --------------------------------
(***************************************************************************)
(* Sessions: refresh tokens that are exchanged once (src/backend/api/      *)
(* routes/auth.py, core/auth.py, api/deps.py) and the client that keeps    *)
(* them in cookies (frontend/src/api.ts).                                  *)
(*                                                                         *)
(* The tabs of a browser share its cookies; a tab has one request at a     *)
(* time (refreshPromise), tabs do not wait for one another.  A handler     *)
(* reads the token, and writes and commits in another step.  Left out:     *)
(* passwords, rate limits, deactivated users (no code deactivates one).    *)
(***************************************************************************)
EXTENDS Naturals, Sequences

CONSTANTS Users, Browsers, Tabs, None,
          UserOf,     \* [Browsers -> Users]
          BrowserOf,  \* [Tabs -> Browsers]
          MaxTokens   \* bounds the tokens issued

TokenIds == 1 .. MaxTokens
NoCookie == 0

Token == [user : Users, login : TokenIds, status : {"live", "expired", "revoked"}]
Requests == [kind : {"register", "login", "refresh", "logout"},
             stage : {"sent", "live", "answered"},
             cookie : TokenIds \cup {NoCookie}, token : TokenIds \cup {NoCookie}]

ASSUME SessionsAssumption ==
  /\ None \notin Requests
  /\ UserOf \in [Browsers -> Users]
  /\ BrowserOf \in [Tabs -> Browsers]
  /\ MaxTokens \in Nat

VARIABLES
  accounts,   \* the users table
  tokens,     \* the refresh_tokens table; login: the token its session began with
  jar,        \* the refresh cookie of each browser: a token, 0 if it has none
  access,     \* whether its access token is valid
  request,    \* the request of each tab, None if it has none
  disturbed   \* history: users whose requests overlapped, lost an answer, or
              \* presented an expired token

vars == <<accounts, tokens, jar, access, request, disturbed>>


TypeOK ==
  /\ accounts \subseteq Users
  /\ tokens \in Seq(Token)
  /\ jar \in [Browsers -> TokenIds \cup {NoCookie}]
  /\ access \in [Browsers -> BOOLEAN]
  /\ request \in [Tabs -> Requests \cup {None}]
  /\ disturbed \subseteq Users

Init ==
  /\ accounts = {}
  /\ tokens = << >>
  /\ jar = [b \in Browsers |-> NoCookie]
  /\ access = [b \in Browsers |-> FALSE]
  /\ request = [t \in Tabs |-> None]
  /\ disturbed = {}

-----------------------------------------------------------------------------
Jar(t) == jar[BrowserOf[t]]
User(t) == UserOf[BrowserOf[t]]
Pending(t, stage) == request[t] # None /\ request[t].stage = stage
Proceed(t) == request' = [request EXCEPT ![t].stage = "live"]

(* cookie: what Set-Cookie will bring. *)
Respond(t, cookie) ==
  request' = [request EXCEPT ![t].stage = "answered", ![t].cookie = cookie]

(* An HTTPException: cookies set or cleared on the response are discarded. *)
Refuse(t) == request' = [request EXCEPT ![t] = None]

Overlaps(t) ==
  \E u \in Tabs \ {t} : BrowserOf[u] = BrowserOf[t] /\ request[u] # None

Send(t, kind) ==
  /\ request[t] = None
  /\ request' = [request EXCEPT ![t] =
       [kind |-> kind, stage |-> "sent", cookie |-> NoCookie,
        token |-> IF kind \in {"refresh", "logout"} THEN Jar(t) ELSE NoCookie]]
  /\ disturbed' = disturbed \cup IF Overlaps(t) THEN {User(t)} ELSE {}
  /\ UNCHANGED <<accounts, tokens, jar, access>>

(* _issue_session: another token, of a session that began with login. *)
Issue(table, u, login) ==
  Append(table, [user |-> u, login |-> login, status |-> "live"])

Issued(t, cookie) ==
  /\ cookie \in TokenIds
  /\ tokens' = Issue(tokens, User(t), cookie)
  /\ Respond(t, cookie)
  /\ UNCHANGED <<jar, access, disturbed>>

(* The sign-in screen, without an access token. *)
SignIn(t, kind) == ~access[BrowserOf[t]] /\ Send(t, kind)

(* register: the address is free ... *)
RegisterReads(t) ==
  /\ Pending(t, "sent") /\ request[t].kind = "register"
  /\ IF User(t) \in accounts THEN Refuse(t) ELSE Proceed(t)
  /\ UNCHANGED <<accounts, tokens, jar, access, disturbed>>

(* ... and its insertion fails if it no longer is. *)
Register(t) ==
  /\ Pending(t, "live") /\ request[t].kind = "register"
  /\ User(t) \notin accounts
  /\ accounts' = accounts \cup {User(t)}
  /\ Issued(t, Len(tokens) + 1)

Login(t) ==
  /\ Pending(t, "sent") /\ request[t].kind = "login"
  /\ User(t) \in accounts
  /\ Issued(t, Len(tokens) + 1)
  /\ UNCHANGED accounts

(* The client refreshes when a request was refused. *)
SendRefresh(t) ==
  /\ ~access[BrowserOf[t]] /\ Jar(t) # NoCookie
  /\ Send(t, "refresh")

Presented(t) == tokens[request[t].token]

Revoke(table, ids) ==
  [i \in DOMAIN table |-> IF i \in ids THEN [table[i] EXCEPT !.status = "revoked"] ELSE table[i]]

(* Broken: takes a revoked token for a valid one. *)
UsableUnlessExpired(t) == Presented(t).status # "expired"

Usable(t) == Presented(t).status = "live"

(* refresh: what the token's row says when it is read. *)
RefreshReads(t) ==
  /\ Pending(t, "sent") /\ request[t].kind = "refresh"
  /\ IF request[t].token = NoCookie THEN Refuse(t) ELSE Usable(t) /\ Proceed(t)
  /\ UNCHANGED <<accounts, tokens, jar, access, disturbed>>

(* Broken: whoever the tokens belong to. *)
FamilyOfAll(u) == DOMAIN tokens

Family(u) == {i \in DOMAIN tokens : tokens[i].user = u}

(* A token that was revoked is presented again: all of its user are revoked. *)
RevokeFamily(t) ==
  /\ Pending(t, "sent") /\ request[t].kind = "refresh"
  /\ request[t].token # NoCookie /\ Presented(t).status = "revoked"
  /\ ~Usable(t)
  /\ tokens' = Revoke(tokens, Family(Presented(t).user))
  /\ Refuse(t)
  /\ UNCHANGED <<accounts, jar, access, disturbed>>

RevokeExpired(t) ==
  /\ Pending(t, "sent") /\ request[t].kind = "refresh"
  /\ request[t].token # NoCookie /\ Presented(t).status = "expired"
  /\ tokens' = Revoke(tokens, {request[t].token})
  /\ Refuse(t)
  /\ disturbed' = disturbed \cup {User(t)}
  /\ UNCHANGED <<accounts, jar, access>>

(* The token is revoked and replaced, whatever happened since it was read. *)
Rotate(t) ==
  /\ Pending(t, "live") /\ request[t].kind = "refresh"
  /\ Len(tokens) + 1 \in TokenIds
  /\ tokens' = Issue(Revoke(tokens, {request[t].token}),
                     Presented(t).user, Presented(t).login)
  /\ Respond(t, Len(tokens) + 1)
  /\ UNCHANGED <<accounts, jar, access, disturbed>>

SendLogout(t) == Send(t, "logout")

(* logout. *)
Logout(t) ==
  /\ Pending(t, "sent") /\ request[t].kind = "logout"
  /\ tokens' = Revoke(tokens, {request[t].token})
  /\ Respond(t, NoCookie)
  /\ UNCHANGED <<accounts, jar, access, disturbed>>

-----------------------------------------------------------------------------
Receive(t) ==
  /\ Pending(t, "answered")
  /\ request' = [request EXCEPT ![t] = None]
  /\ jar' = [jar EXCEPT ![BrowserOf[t]] = request[t].cookie]
  /\ access' = [access EXCEPT ![BrowserOf[t]] = request[t].cookie # NoCookie]
  /\ UNCHANGED <<accounts, tokens, disturbed>>

(* The answer is lost, and axios-retry sends the request again. *)
Lose(t) ==
  /\ Pending(t, "answered")
  /\ request' = [request EXCEPT ![t].stage = "sent", ![t].cookie = NoCookie,
                                    ![t].token = IF @ = NoCookie THEN @ ELSE Jar(t)]
  /\ disturbed' = disturbed \cup {User(t)}
  /\ UNCHANGED <<accounts, tokens, jar, access>>

(* It is refused (a wrong password), fails and is rolled back, or its client *)
(* leaves.                                                                    *)
Fail(t) ==
  /\ Pending(t, "sent") \/ Pending(t, "live")
  /\ Refuse(t)
  /\ UNCHANGED <<accounts, tokens, jar, access, disturbed>>

AccessExpires(b) ==
  /\ access[b]
  /\ access' = [access EXCEPT ![b] = FALSE]
  /\ UNCHANGED <<accounts, tokens, jar, request, disturbed>>

TokenExpires(i) ==
  /\ tokens[i].status = "live"
  /\ tokens' = [tokens EXCEPT ![i].status = "expired"]
  /\ UNCHANGED <<accounts, jar, access, request, disturbed>>

(* max_age: the browser drops the cookie at about the same time. *)
CookieExpires(b) ==
  /\ jar[b] # NoCookie /\ tokens[jar[b]].status # "live"
  /\ jar' = [jar EXCEPT ![b] = NoCookie]
  /\ UNCHANGED <<accounts, tokens, access, request, disturbed>>

Refresh(t) == RefreshReads(t) \/ RevokeFamily(t) \/ RevokeExpired(t) \/ Rotate(t)

Next ==
  \/ \E t \in Tabs :
       \/ \E kind \in {"register", "login"} : SignIn(t, kind)
       \/ RegisterReads(t) \/ Register(t) \/ Login(t)
       \/ SendRefresh(t) \/ Refresh(t) \/ SendLogout(t) \/ Logout(t)
       \/ Receive(t) \/ Lose(t) \/ Fail(t)
  \/ \E b \in Browsers : AccessExpires(b) \/ CookieExpires(b)
  \/ \E i \in DOMAIN tokens : TokenExpires(i)

Spec == Init /\ [][Next]_vars

-----------------------------------------------------------------------------
Answered(b, i) ==
  \E t \in Tabs : BrowserOf[t] = b /\ Pending(t, "answered") /\ request[t].token = i

(* A user whose tabs did not refresh at the same time, who lost no answer   *)
(* and presented no expired token, stays signed in on every device: the     *)
(* token a browser holds is not revoked, except by the answer it waits for. *)
(* Whatever else happens to other users, the reuse of a token revokes only  *)
(* its own user's.                                                          *)
SessionsSurvive ==
  \A b \in Browsers :
    UserOf[b] \notin disturbed /\ jar[b] # NoCookie
      => tokens[jar[b]].status # "revoked" \/ Answered(b, jar[b])

LiveTokens(login) == {i \in DOMAIN tokens : tokens[i].login = login /\ tokens[i].status # "revoked"}

Exchanging(login) ==
  \E t \in Tabs :
    Pending(t, "live") /\ request[t].kind = "refresh" /\ Presented(t).login = login

Over(login) == LiveTokens(login) = {} /\ ~Exchanging(login)

(* A session that is over (signed out, or revoked with its user's others)   *)
(* stays over.  It is not while its token is being exchanged: the commit of *)
(* refresh does not look whether the token was revoked meanwhile.           *)
EndedSessionsStayEnded ==
  [][\A i \in DOMAIN tokens : Over(tokens[i].login) => Over(tokens[i].login)']_vars
=============================================================================
