------------------------------ MODULE SessionsProofs ------------------------------
(***************************************************************************)
(* What Sessions promises for any users, browsers and tabs: a session that *)
(* is over stays over, and one that nothing disturbed survives.            *)
(***************************************************************************)
EXTENDS Sessions, SequenceTheorems, TLAPS

(* The tokens a request knows of, and those a browser does. *)
Refs(t) == IF request[t] = None THEN {} ELSE {request[t].token, request[t].cookie}

InRange ==
  /\ \A b \in Browsers : jar[b] \in 0 .. Len(tokens)
  /\ \A t \in Tabs : \A i \in Refs(t) : i \in 0 .. Len(tokens)

(* A session begins with one of its tokens; only an answer brings a cookie;  *)
(* what is exchanged is a token.                                             *)
Ordered ==
  /\ \A i \in 1 .. Len(tokens) : tokens[i].login <= i
  /\ \A t \in Tabs : request[t] # None =>
       /\ request[t].stage # "answered" => request[t].cookie = NoCookie
       /\ request[t].stage = "live" /\ request[t].kind = "refresh" => request[t].token # NoCookie

(* A token belongs to the user of the browser that knows it ... *)
Owned ==
  /\ \A b \in Browsers : jar[b] # NoCookie => tokens[jar[b]].user = UserOf[b]
  /\ \A t \in Tabs : \A i \in Refs(t) : i # NoCookie => tokens[i].user = User(t)

(* ... and no other browser knows it. *)
OneHolder ==
  /\ \A b, c \in Browsers : jar[b] = jar[c] /\ jar[b] # NoCookie => b = c
  /\ \A b \in Browsers, t \in Tabs : jar[b] \in Refs(t) /\ jar[b] # NoCookie => BrowserOf[t] = b
  /\ \A t, u \in Tabs : \A i \in Refs(t) : i \in Refs(u) /\ i # NoCookie => BrowserOf[t] = BrowserOf[u]

(* The browser of a user who is not disturbed has one request at a time, ... *)
OneRequest ==
  \A t, u \in Tabs :
    t # u /\ BrowserOf[t] = BrowserOf[u] /\ request[t] # None /\ request[u] # None
      => User(t) \in disturbed

(* ... whose token is not revoked before it is answered, nor is its cookie. *)
RequestsAreGood ==
  \A t \in Tabs : request[t] # None /\ User(t) \notin disturbed =>
    /\ request[t].stage # "answered" /\ request[t].token # NoCookie
         => tokens[request[t].token].status # "revoked"
    /\ request[t].cookie # NoCookie => tokens[request[t].cookie].status # "revoked"

IInv ==
  /\ TypeOK /\ InRange /\ Ordered /\ Owned /\ OneHolder /\ OneRequest
  /\ RequestsAreGood /\ SessionsSurvive

USE SessionsAssumption DEF NoCookie

-----------------------------------------------------------------------------
LEMMA InitHolds == Init => IInv
  <1> SUFFICES ASSUME Init PROVE IInv
    OBVIOUS
  <1>1. TypeOK BY DEF Init, TypeOK
  <1>2. InRange /\ Ordered /\ Owned /\ OneHolder
    BY DEF Init, InRange, Ordered, Owned, OneHolder, Refs
  <1>3. OneRequest /\ RequestsAreGood /\ SessionsSurvive
    BY DEF Init, OneRequest, RequestsAreGood, SessionsSurvive
  <1>4. QED BY <1>1, <1>2, <1>3 DEF IInv

(* Tables: what the statements of a handler make of the tokens. *)
LEMMA Revoked ==
  ASSUME NEW table \in Seq(Token), NEW ids
  PROVE  /\ Revoke(table, ids) \in Seq(Token) /\ Len(Revoke(table, ids)) = Len(table)
         /\ \A i \in 1 .. Len(table) :
              /\ Revoke(table, ids)[i].user = table[i].user
              /\ Revoke(table, ids)[i].login = table[i].login
              /\ Revoke(table, ids)[i].status = IF i \in ids THEN "revoked" ELSE table[i].status
  <1>1. DOMAIN table = 1 .. Len(table) /\ Len(table) \in Nat
        /\ \A i \in 1 .. Len(table) : table[i] \in Token
    OBVIOUS
  <1> DEFINE n == Len(table)
             r == Revoke(table, ids)
  <1>2. r = [i \in 1 .. n |-> IF i \in ids THEN [table[i] EXCEPT !.status = "revoked"] ELSE table[i]]
    BY <1>1 DEF Revoke
  <1>3. \A i \in 1 .. n :
          /\ r[i] \in Token /\ r[i].user = table[i].user /\ r[i].login = table[i].login
          /\ r[i].status = IF i \in ids THEN "revoked" ELSE table[i].status
    BY <1>1, <1>2 DEF Token
  <1>4. r \in [1 .. n -> Token]
    BY <1>2, <1>3
  <1>5. n \in Nat BY <1>1
  <1> HIDE DEF r, n
  <1>6. r \in Seq(Token) /\ Len(r) = n
    BY <1>4, <1>5
  <1>7. QED BY <1>3, <1>6 DEF r, n

LEMMA IssuedToken ==
  ASSUME NEW table \in Seq(Token), NEW u \in Users, NEW login \in TokenIds
  PROVE  /\ Issue(table, u, login) \in Seq(Token)
         /\ Len(Issue(table, u, login)) = Len(table) + 1
         /\ \A i \in 1 .. Len(table) : Issue(table, u, login)[i] = table[i]
         /\ Issue(table, u, login)[Len(table) + 1] = [user |-> u, login |-> login, status |-> "live"]
  <1> DEFINE e == [user |-> u, login |-> login, status |-> "live"]
  <1>1. e \in Token BY DEF Token
  <1> HIDE DEF e
  <1>2. Issue(table, u, login) = Append(table, e) BY DEF Issue, e
  <1>3. QED BY <1>1, <1>2 DEF e

-----------------------------------------------------------------------------
(* The next row of the refresh_tokens table. *)
Added == Len(tokens) + 1

(* A step of t's request, which becomes q: it may add a token, and it        *)
(* revokes only tokens of disturbed users, or the one it answers for.        *)
LEMMA RequestStep ==
  ASSUME IInv, NEW t \in Tabs, NEW q \in Requests \cup {None}, request' = [request EXCEPT ![t] = q],
         UNCHANGED jar,
         accounts' \subseteq Users, access' \in [Browsers -> BOOLEAN],
         disturbed \subseteq disturbed', disturbed' \subseteq Users,
         tokens' \in Seq(Token), Len(tokens') \in {Len(tokens), Added},
         \A i \in 1 .. Len(tokens) :
           tokens'[i].user = tokens[i].user /\ tokens'[i].login = tokens[i].login,
         \A i \in 1 .. Len(tokens) :
           \/ tokens'[i].status = "revoked" => tokens[i].status = "revoked"
           \/ tokens[i].user \in disturbed'
           \/ i = request[t].token /\ request[t] # None
              /\ q # None /\ q.stage = "answered" /\ q.token = i,
         Len(tokens') = Added =>
           tokens'[Added].user = User(t) /\ tokens'[Added].login <= Added,
         q # None =>
           /\ q.token \in {NoCookie, Jar(t)} \cup Refs(t)
           /\ q.cookie \in {NoCookie, Added} \cup Refs(t)
           /\ q.cookie = Added => Len(tokens') = Added
           /\ q.stage # "answered" => q.cookie = NoCookie
           /\ q.stage = "live" /\ q.kind = "refresh" => q.token # NoCookie,
         request[t] = None /\ q # None /\ Overlaps(t) => User(t) \in disturbed',
         q # None /\ User(t) \notin disturbed' =>
           /\ q.stage # "answered" /\ q.token # NoCookie => tokens'[q.token].status # "revoked"
           /\ q.cookie # NoCookie => tokens'[q.cookie].status # "revoked",
         Pending(t, "answered") => User(t) \in disturbed'
  PROVE  IInv'
  <1>1. TypeOK'
    BY DEF IInv, TypeOK
  <1>2. Len(tokens) \in Nat /\ Added \notin 0 .. Len(tokens) /\ Added # NoCookie
        /\ Added \in 0 .. Added
    BY DEF IInv, TypeOK, Added
  <1>3. \A u \in Tabs : request'[u] = IF u = t THEN q ELSE request[u]
    BY DEF IInv, TypeOK
  <1>4. \A u \in Tabs : u # t => Refs(u)' = Refs(u)
    BY <1>3 DEF Refs
  <1>5. \A i \in Refs(t)' : i \in {NoCookie, Jar(t), Added} \cup Refs(t) /\ (i = Added => Len(tokens') = Added)
    <2>1. CASE q = None BY <1>3, <2>1 DEF Refs
    <2>2. CASE q # None
      <3>1. Jar(t) # Added /\ Added \notin Refs(t) BY <1>2 DEF IInv, InRange, Jar
      <3>2. QED BY <1>2, <1>3, <2>2, <3>1 DEF Refs
    <2>3. QED BY <2>1, <2>2
  <1>6. InRange'
    <2>1. 0 .. Len(tokens) \subseteq 0 .. Len(tokens')
      BY <1>2 DEF Added
    <2>2. \A b \in Browsers : jar'[b] \in 0 .. Len(tokens')
      BY <2>1 DEF IInv, InRange
    <2>3. ASSUME NEW u \in Tabs, NEW i \in Refs(u)' PROVE i \in 0 .. Len(tokens')
      <3>1. CASE u # t
        BY <1>4, <2>1, <2>3, <3>1 DEF IInv, InRange
      <3>2. CASE u = t
        <4>1. i \in {NoCookie, Jar(t)} \cup Refs(t) => i \in 0 .. Len(tokens)
          BY <1>2 DEF IInv, InRange, Jar
        <4>2. i = Added => i \in 0 .. Len(tokens')
          BY <1>2, <1>5, <2>3, <3>2
        <4>3. QED BY <1>5, <2>1, <2>3, <3>2, <4>1, <4>2
      <3>3. QED BY <3>1, <3>2
    <2>4. QED BY <2>2, <2>3 DEF InRange
  <1>7. Ordered'
    <2>1. \A i \in 1 .. Len(tokens') : i \in 1 .. Len(tokens) \/ (i = Added /\ Len(tokens') = Added)
      BY <1>2 DEF Added
    <2>2. \A i \in 1 .. Len(tokens') : tokens'[i].login <= i
      BY <2>1 DEF IInv, Ordered
    <2>3. QED BY <1>3, <2>2 DEF IInv, Ordered
  <1>8. Owned'
    <2>1. \A i \in 1 .. Len(tokens) : tokens'[i].user = tokens[i].user
      OBVIOUS
    <2>2. \A b \in Browsers : jar[b] # NoCookie => jar[b] \in 1 .. Len(tokens)
      BY <1>2 DEF IInv, InRange
    <2>3. \A u \in Tabs : \A i \in Refs(u) : i # NoCookie => i \in 1 .. Len(tokens)
      BY <1>2 DEF IInv, InRange
    <2>4. \A b \in Browsers : jar[b] # NoCookie => tokens'[jar[b]].user = UserOf[b]
      BY <2>1, <2>2 DEF IInv, Owned
    <2>5. ASSUME NEW u \in Tabs, NEW i \in Refs(u)', i # NoCookie PROVE tokens'[i].user = User(u)
      <3>1. CASE u # t
        BY <1>4, <2>1, <2>3, <2>5, <3>1 DEF IInv, Owned
      <3>2. CASE u = t /\ i \in Refs(t)
        BY <2>1, <2>3, <2>5, <3>2 DEF IInv, Owned
      <3>3. CASE u = t /\ i = Jar(t)
        BY <2>4, <2>5, <3>3 DEF Jar, User
      <3>4. CASE u = t /\ i = Added
        BY <1>5, <2>5, <3>4
      <3>5. QED BY <1>5, <2>5, <3>1, <3>2, <3>3, <3>4
    <2>6. QED BY <2>4, <2>5 DEF Owned, User
  <1>9. OneHolder'
    <2>1. ASSUME NEW b \in Browsers, NEW u \in Tabs, jar[b] \in Refs(u)', jar[b] # NoCookie
          PROVE  BrowserOf[u] = b
      <3>1. jar[b] # Added BY <1>2 DEF IInv, InRange
      <3>2. QED BY <1>4, <1>5, <2>1, <3>1 DEF IInv, OneHolder, Jar
    <2>2. ASSUME NEW u \in Tabs, u # t, NEW i \in Refs(t)', i \in Refs(u), i # NoCookie
          PROVE  BrowserOf[t] = BrowserOf[u]
      <3>1. i # Added BY <1>2, <2>2 DEF IInv, InRange
      <3>2. QED BY <1>5, <2>2, <3>1 DEF IInv, OneHolder, Jar
    <2>3. ASSUME NEW u \in Tabs, NEW v \in Tabs, NEW i \in Refs(u)', i \in Refs(v)', i # NoCookie
          PROVE  BrowserOf[u] = BrowserOf[v]
      BY <1>4, <2>2, <2>3 DEF IInv, OneHolder
    <2>4. \A b, c \in Browsers : jar'[b] = jar'[c] /\ jar'[b] # NoCookie => b = c
      BY DEF IInv, OneHolder
    <2>5. QED BY <2>1, <2>3, <2>4 DEF OneHolder
  <1>10. OneRequest'
    <2>1. SUFFICES ASSUME NEW u \in Tabs, NEW v \in Tabs, u # v, BrowserOf[u] = BrowserOf[v],
                          request'[u] # None, request'[v] # None
                   PROVE  User(u) \in disturbed'
      BY DEF OneRequest, User
    <2>2. CASE request[u] # None /\ request[v] # None
      BY <2>1, <2>2 DEF IInv, OneRequest
    <2>3. CASE request[u] = None
      BY <1>3, <2>1, <2>3 DEF Overlaps
    <2>4. CASE request[v] = None
      BY <1>3, <2>1, <2>4 DEF Overlaps, User
    <2>5. QED BY <2>2, <2>3, <2>4
  <1>11. ASSUME NEW u \in Tabs, u # t, request[u] # None, User(u) \notin disturbed',
                NEW i \in Refs(u), i # NoCookie, tokens[i].status # "revoked"
         PROVE  tokens'[i].status # "revoked"
    <2>1. i \in 1 .. Len(tokens) /\ tokens[i].user = User(u)
      BY <1>2, <1>11 DEF IInv, InRange, Owned
    <2>2. ~(i = request[t].token /\ request[t] # None)
      <3>1. SUFFICES ASSUME i = request[t].token, request[t] # None PROVE FALSE
        OBVIOUS
      <3>2. i \in Refs(t) BY <3>1 DEF Refs
      <3>3. BrowserOf[u] = BrowserOf[t] BY <1>11, <3>2 DEF IInv, OneHolder
      <3>4. User(u) \in disturbed BY <1>11, <3>1, <3>3 DEF IInv, OneRequest
      <3>5. QED BY <1>11, <3>4
    <2>3. QED BY <1>11, <2>1, <2>2
  <1>12. RequestsAreGood'
    <2>1. SUFFICES ASSUME NEW u \in Tabs, request'[u] # None, User(u) \notin disturbed'
                   PROVE  /\ request'[u].stage # "answered" /\ request'[u].token # NoCookie
                               => tokens'[request'[u].token].status # "revoked"
                          /\ request'[u].cookie # NoCookie
                               => tokens'[request'[u].cookie].status # "revoked"
      BY DEF RequestsAreGood, User
    <2>2. CASE u = t BY <1>3, <2>1, <2>2
    <2>3. CASE u # t
      <3>1. request'[u] = request[u] /\ request[u] # None /\ User(u) \notin disturbed
        BY <1>3, <2>1, <2>3
      <3>2. request[u].token \in Refs(u) /\ request[u].cookie \in Refs(u)
        BY <3>1 DEF Refs
      <3>3. QED BY <1>11, <2>1, <2>3, <3>1, <3>2 DEF IInv, RequestsAreGood
    <2>4. QED BY <2>2, <2>3
  <1>13. SessionsSurvive'
    <2>1. SUFFICES ASSUME NEW b \in Browsers, UserOf[b] \notin disturbed', jar[b] # NoCookie,
                          tokens'[jar[b]].status = "revoked"
                   PROVE  \E u \in Tabs : BrowserOf[u] = b /\ request'[u] # None
                            /\ request'[u].stage = "answered" /\ request'[u].token = jar[b]
      BY DEF SessionsSurvive, Answered, Pending
    <2>2. jar[b] \in 1 .. Len(tokens) /\ tokens[jar[b]].user = UserOf[b]
      BY <1>2, <2>1 DEF IInv, InRange, Owned
    <2>3. CASE tokens[jar[b]].status = "revoked"
      <3>1. PICK u \in Tabs : BrowserOf[u] = b /\ Pending(u, "answered") /\ request[u].token = jar[b]
        BY <2>1, <2>3 DEF IInv, SessionsSurvive, Answered
      <3>2. u # t BY <2>1, <3>1 DEF User
      <3>3. QED BY <1>3, <3>1, <3>2 DEF Pending
    <2>4. CASE jar[b] = request[t].token /\ request[t] # None /\ q # None
               /\ q.stage = "answered" /\ q.token = jar[b]
      <3>1. jar[b] \in Refs(t) BY <2>4 DEF Refs
      <3>2. BrowserOf[t] = b BY <2>1, <3>1 DEF IInv, OneHolder
      <3>3. QED BY <1>3, <2>4, <3>2
    <2>5. QED BY <2>1, <2>2, <2>3, <2>4
  <1>14. QED BY <1>1, <1>6, <1>7, <1>8, <1>9, <1>10, <1>12, <1>13 DEF IInv

-----------------------------------------------------------------------------
(* The request of a tab that has one, before its step. *)
LEMMA Requested ==
  ASSUME IInv, NEW t \in Tabs, request[t] # None
  PROVE  /\ request[t] \in Requests
         /\ request[t].token \in Refs(t) /\ request[t].cookie \in Refs(t)
         /\ request[t].token \in 0 .. Len(tokens) /\ request[t].cookie \in 0 .. Len(tokens)
         /\ request[t].token # NoCookie => tokens[request[t].token].user = User(t)
  BY DEF IInv, TypeOK, InRange, Owned, Refs

(* Steps that leave the tokens alone. *)
LEMMA QuietStep ==
  ASSUME IInv, NEW t \in Tabs, NEW q \in Requests \cup {None}, request' = [request EXCEPT ![t] = q],
         UNCHANGED <<accounts, tokens, jar, access>>,
         disturbed \subseteq disturbed', disturbed' \subseteq Users,
         q # None =>
           /\ q.token \in {NoCookie, Jar(t)} \cup Refs(t) /\ q.cookie \in {NoCookie} \cup Refs(t)
           /\ q.stage # "answered" => q.cookie = NoCookie
           /\ q.stage = "live" /\ q.kind = "refresh" => q.token # NoCookie,
         request[t] = None /\ q # None /\ Overlaps(t) => User(t) \in disturbed',
         q # None /\ User(t) \notin disturbed' =>
           /\ q.stage # "answered" /\ q.token # NoCookie => tokens[q.token].status # "revoked"
           /\ q.cookie # NoCookie => tokens[q.cookie].status # "revoked",
         Pending(t, "answered") => User(t) \in disturbed'
  PROVE  IInv'
  <1>1. Len(tokens) \in Nat /\ Added # NoCookie /\ Added \notin Refs(t) /\ Len(tokens) # Added
    BY DEF IInv, TypeOK, InRange, Added
  <1>2. accounts' \subseteq Users /\ access' \in [Browsers -> BOOLEAN] /\ tokens' \in Seq(Token)
    BY DEF IInv, TypeOK
  <1>3. q # None => (q.cookie = Added => Len(tokens') = Added)
    BY <1>1
  <1>4. QED BY <1>1, <1>2, <1>3, RequestStep

LEMMA SendKeeps ==
  ASSUME IInv, NEW t \in Tabs, NEW kind \in {"register", "login", "refresh", "logout"}, Send(t, kind)
  PROVE  IInv'
  <1> DEFINE token == IF kind \in {"refresh", "logout"} THEN Jar(t) ELSE NoCookie
             q == [kind |-> kind, stage |-> "sent", cookie |-> NoCookie, token |-> token]
  <1>1. token \in {NoCookie, Jar(t)} /\ token \in TokenIds \cup {NoCookie}
    BY DEF Jar, IInv, TypeOK
  <1>2. request' = [request EXCEPT ![t] = q]
    BY DEF Send
  <1>3. /\ request[t] = None
        /\ disturbed' = disturbed \cup IF Overlaps(t) THEN {User(t)} ELSE {}
        /\ UNCHANGED <<accounts, tokens, jar, access>>
    BY DEF Send
  <1> HIDE DEF token
  <1>4. q \in Requests /\ q.stage = "sent" /\ q.cookie = NoCookie /\ q.token = token
    BY <1>1 DEF Requests
  <1> HIDE DEF q
  <1>5. disturbed' \subseteq Users /\ disturbed \subseteq disturbed'
        /\ (Overlaps(t) => User(t) \in disturbed')
    BY <1>3 DEF IInv, TypeOK, User
  <1>6. ASSUME User(t) \notin disturbed', token # NoCookie PROVE tokens[token].status # "revoked"
    <2>1. ~Overlaps(t) /\ User(t) \notin disturbed BY <1>5, <1>6
    <2>2. token = jar[BrowserOf[t]] /\ BrowserOf[t] \in Browsers BY <1>1, <1>6 DEF Jar
    <2>3. ~Answered(BrowserOf[t], token)
      BY <1>3, <2>1 DEF Answered, Pending, Overlaps
    <2>4. QED BY <1>6, <2>1, <2>2, <2>3 DEF IInv, SessionsSurvive, User
  <1>7. ~Pending(t, "answered") BY <1>3 DEF Pending
  <1>8. QED BY <1>1, <1>2, <1>3, <1>4, <1>5, <1>6, <1>7, QuietStep

(* What was refused, failed or lost. *)
LEMMA RefuseKeeps ==
  ASSUME IInv, NEW t \in Tabs, Refuse(t), ~Pending(t, "answered"),
         UNCHANGED <<accounts, tokens, jar, access, disturbed>>
  PROVE  IInv'
  <1>1. disturbed' \subseteq Users BY DEF IInv, TypeOK
  <1>2. QED BY <1>1, QuietStep DEF Refuse

LEMMA ProceedKeeps ==
  ASSUME IInv, NEW t \in Tabs, Pending(t, "sent"), Proceed(t),
         request[t].kind = "refresh" => request[t].token # NoCookie,
         UNCHANGED <<accounts, tokens, jar, access, disturbed>>
  PROVE  IInv'
  <1> DEFINE q == [request[t] EXCEPT !.stage = "live"]
  <1>1. request[t] \in Requests /\ request[t].token \in Refs(t) /\ request[t].cookie = NoCookie
        /\ request[t] # None
    BY Requested DEF Pending, IInv, Ordered
  <1>2. q \in Requests /\ q.stage = "live" /\ q.token = request[t].token /\ q.cookie = NoCookie
        /\ q.kind = request[t].kind
    BY <1>1 DEF Requests
  <1>3. request' = [request EXCEPT ![t] = q] BY DEF Proceed
  <1> HIDE DEF q
  <1>4. User(t) \notin disturbed' /\ q.token # NoCookie => tokens[q.token].status # "revoked"
    BY <1>1, <1>2 DEF Pending, IInv, RequestsAreGood
  <1>5. disturbed' \subseteq Users /\ ~Pending(t, "answered") BY DEF IInv, TypeOK, Pending
  <1>6. QED BY <1>1, <1>2, <1>3, <1>4, <1>5, QuietStep

LEMMA LoseKeeps == ASSUME IInv, NEW t \in Tabs, Lose(t) PROVE IInv'
  <1> DEFINE token == IF request[t].token = NoCookie THEN request[t].token ELSE Jar(t)
             q == [request[t] EXCEPT !.stage = "sent", !.cookie = NoCookie, !.token = token]
  <1>1. request[t] \in Requests /\ request[t] # None /\ disturbed' = disturbed \cup {User(t)}
        /\ UNCHANGED <<accounts, tokens, jar, access>>
    BY Requested DEF Lose, Pending
  <1>2. token \in {NoCookie, Jar(t)} /\ token \in TokenIds \cup {NoCookie}
    BY DEF Jar, IInv, TypeOK
  <1>3. request' = [request EXCEPT ![t] = q] BY DEF Lose
  <1> HIDE DEF token
  <1>4. q \in Requests /\ q.stage = "sent" /\ q.token = token /\ q.cookie = NoCookie
    BY <1>1, <1>2 DEF Requests
  <1> HIDE DEF q
  <1>5. disturbed' \subseteq Users BY <1>1 DEF IInv, TypeOK, User
  <1>6. QED BY <1>1, <1>2, <1>3, <1>4, <1>5, QuietStep

-----------------------------------------------------------------------------
(* register and login: a token begins a session. *)
LEMMA IssuedKeeps ==
  ASSUME IInv, NEW t \in Tabs, request[t] # None, ~Pending(t, "answered"), Issued(t, Added),
         accounts' \subseteq Users
  PROVE  IInv'
  <1> DEFINE q == [request[t] EXCEPT !.stage = "answered", !.cookie = Added]
  <1>1. request[t] \in Requests /\ request[t].token \in Refs(t)
        /\ UNCHANGED <<jar, access, disturbed>> /\ Added \in TokenIds
    BY Requested DEF Issued
  <1>2. request' = [request EXCEPT ![t] = q] BY DEF Issued, Respond
  <1>3. q \in Requests /\ q.stage = "answered" /\ q.token = request[t].token /\ q.cookie = Added
    BY <1>1 DEF Requests
  <1> HIDE DEF q
  <1>4. /\ tokens' \in Seq(Token) /\ Len(tokens') = Added
        /\ \A i \in 1 .. Len(tokens) : tokens'[i] = tokens[i]
        /\ tokens'[Added] = [user |-> User(t), login |-> Added, status |-> "live"]
    BY <1>1, IssuedToken DEF Issued, IInv, TypeOK, User, Added
  <1>5. Added <= Added /\ access' \in [Browsers -> BOOLEAN] /\ disturbed' \subseteq Users
    BY <1>1 DEF IInv, TypeOK, Added
  <1>6. tokens'[Added].user = User(t) /\ tokens'[Added].login <= Added
        /\ tokens'[Added].status # "revoked"
    BY <1>4, <1>5
  <1>7. QED BY <1>1, <1>2, <1>3, <1>4, <1>5, <1>6, RequestStep

LEMMA SignInKeeps ==
  ASSUME IInv, NEW t \in Tabs, RegisterReads(t) \/ Register(t) \/ Login(t)
  PROVE  IInv'
  <1>1. request[t] # None /\ ~Pending(t, "answered")
    BY DEF RegisterReads, Register, Login, Pending
  <1>2. CASE RegisterReads(t)
    <2>1. Pending(t, "sent") /\ request[t].kind # "refresh" BY <1>2 DEF RegisterReads
    <2>2. QED BY <1>1, <1>2, <2>1, RefuseKeeps, ProceedKeeps DEF RegisterReads
  <1>3. CASE Register(t) \/ Login(t)
    <2>1. Issued(t, Added) /\ accounts' \subseteq Users
      BY <1>3 DEF Register, Login, Added, IInv, TypeOK, User
    <2>2. QED BY <1>1, <2>1, IssuedKeeps
  <1>4. QED BY <1>2, <1>3

LEMMA RefreshReadsKeeps == ASSUME IInv, NEW t \in Tabs, RefreshReads(t) PROVE IInv'
  <1>1. Pending(t, "sent") /\ ~Pending(t, "answered")
        /\ UNCHANGED <<accounts, tokens, jar, access, disturbed>>
    BY DEF RefreshReads, Pending
  <1>2. CASE request[t].token = NoCookie
    BY <1>1, <1>2, RefuseKeeps DEF RefreshReads
  <1>3. CASE request[t].token # NoCookie
    BY <1>1, <1>3, ProceedKeeps DEF RefreshReads
  <1>4. QED BY <1>2, <1>3

(* A token that was revoked is only presented again by a disturbed user. *)
LEMMA RevocationsKeep == ASSUME IInv, NEW t \in Tabs, RevokeFamily(t) \/ RevokeExpired(t) PROVE IInv'
  <1>1. request[t] # None /\ request[t].stage = "sent" /\ request[t].token # NoCookie
        /\ request' = [request EXCEPT ![t] = None] /\ UNCHANGED <<accounts, jar, access>>
    BY DEF RevokeFamily, RevokeExpired, Pending, Refuse
  <1>2. request[t].token \in 1 .. Len(tokens) /\ Presented(t).user = User(t) /\ Len(tokens) \in Nat
    BY <1>1, Requested DEF Presented, IInv, TypeOK
  <1>3. /\ User(t) \in disturbed' /\ disturbed \subseteq disturbed' /\ disturbed' \subseteq Users
    <2>1. CASE RevokeFamily(t)
      <3>1. tokens[request[t].token].status = "revoked" BY <2>1 DEF RevokeFamily, Presented
      <3>2. User(t) \in disturbed BY <1>1, <3>1 DEF IInv, RequestsAreGood
      <3>3. QED BY <2>1, <3>2 DEF RevokeFamily, IInv, TypeOK
    <2>2. CASE RevokeExpired(t)
      BY <2>2 DEF RevokeExpired, IInv, TypeOK, User
    <2>3. QED BY <2>1, <2>2
  <1>4. PICK ids : /\ tokens' = Revoke(tokens, ids)
                   /\ \A i \in ids : i \in 1 .. Len(tokens) => tokens[i].user = User(t)
    BY <1>2 DEF RevokeFamily, RevokeExpired, Family, Presented
  <1>5. /\ tokens' \in Seq(Token) /\ Len(tokens') = Len(tokens)
        /\ \A i \in 1 .. Len(tokens) :
             /\ tokens'[i].user = tokens[i].user /\ tokens'[i].login = tokens[i].login
             /\ tokens'[i].status = IF i \in ids THEN "revoked" ELSE tokens[i].status
    BY <1>4, Revoked DEF IInv, TypeOK
  <1>6. Len(tokens') # Added BY <1>2, <1>5 DEF Added
  <1>7. ~Pending(t, "answered") BY <1>1 DEF Pending
  <1>8. accounts' \subseteq Users /\ access' \in [Browsers -> BOOLEAN]
    BY <1>1 DEF IInv, TypeOK
  <1>9. QED BY <1>1, <1>3, <1>4, <1>5, <1>6, <1>7, <1>8, RequestStep

(* The token presented is revoked, and the answer says so. *)
LEMMA LogoutKeeps == ASSUME IInv, NEW t \in Tabs, Logout(t) PROVE IInv'
  <1> DEFINE q == [request[t] EXCEPT !.stage = "answered", !.cookie = NoCookie]
  <1>1. request[t] \in Requests /\ request[t] # None /\ request[t].token \in Refs(t)
        /\ UNCHANGED <<accounts, jar, access, disturbed>>
    BY Requested DEF Logout, Pending
  <1>2. request' = [request EXCEPT ![t] = q] BY DEF Logout, Respond
  <1>3. q \in Requests /\ q.stage = "answered" /\ q.token = request[t].token /\ q.cookie = NoCookie
        /\ q # None
    <2>1. q \in Requests /\ q.stage = "answered" /\ q.token = request[t].token /\ q.cookie = NoCookie
      BY <1>1 DEF Requests
    <2> HIDE DEF q
    <2>2. QED BY <2>1
  <1> HIDE DEF q
  <1>4. /\ tokens' \in Seq(Token) /\ Len(tokens') = Len(tokens)
        /\ \A i \in 1 .. Len(tokens) :
             /\ tokens'[i].user = tokens[i].user /\ tokens'[i].login = tokens[i].login
             /\ tokens'[i].status = IF i \in {request[t].token} THEN "revoked" ELSE tokens[i].status
    BY Revoked DEF Logout, IInv, TypeOK
  <1>5. Len(tokens') # Added /\ Added # NoCookie /\ ~Pending(t, "answered")
    BY <1>4 DEF Added, Logout, Pending, IInv, TypeOK
  <1>6. accounts' \subseteq Users /\ access' \in [Browsers -> BOOLEAN] /\ disturbed' \subseteq Users
    BY <1>1 DEF IInv, TypeOK
  <1>7. \A i \in 1 .. Len(tokens) :
          \/ tokens'[i].status = "revoked" => tokens[i].status = "revoked"
          \/ i = request[t].token /\ request[t] # None
             /\ q # None /\ q.stage = "answered" /\ q.token = i
    BY <1>1, <1>3, <1>4
  <1>8. QED BY <1>1, <1>2, <1>3, <1>4, <1>5, <1>6, <1>7, RequestStep

(* What an exchange leaves in the table. *)
LEMMA Rotated ==
  ASSUME IInv, NEW t \in Tabs, Rotate(t)
  PROVE  /\ request[t].token \in 1 .. Len(tokens) /\ Presented(t).user = User(t)
         /\ tokens' \in Seq(Token) /\ Len(tokens') = Added
         /\ \A i \in 1 .. Len(tokens) :
              /\ tokens'[i].user = tokens[i].user /\ tokens'[i].login = tokens[i].login
              /\ tokens'[i].status = IF i \in {request[t].token} THEN "revoked" ELSE tokens[i].status
         /\ tokens'[Added].user = User(t) /\ tokens'[Added].login = Presented(t).login
         /\ tokens'[Added].login <= Added /\ tokens'[Added].status = "live"
  <1> DEFINE table == Revoke(tokens, {request[t].token})
  <1>1. request[t] # None /\ request[t].token \in 1 .. Len(tokens) /\ Presented(t).user = User(t)
        /\ Len(tokens) \in Nat
    BY Requested DEF Rotate, Pending, Presented, IInv, TypeOK, Ordered
  <1>2. Presented(t) \in Token /\ Presented(t).login <= request[t].token
    BY <1>1 DEF Presented, IInv, TypeOK, Ordered
  <1>3. Presented(t).user \in Users /\ Presented(t).login \in TokenIds
    BY <1>2 DEF Token
  <1>4. /\ table \in Seq(Token) /\ Len(table) = Len(tokens)
        /\ \A i \in 1 .. Len(tokens) :
             /\ table[i].user = tokens[i].user /\ table[i].login = tokens[i].login
             /\ table[i].status = IF i \in {request[t].token} THEN "revoked" ELSE tokens[i].status
    BY Revoked DEF IInv, TypeOK
  <1>5. tokens' = Issue(table, Presented(t).user, Presented(t).login)
    BY DEF Rotate
  <1> HIDE DEF table
  <1>6. /\ tokens' \in Seq(Token) /\ Len(tokens') = Len(table) + 1
        /\ \A i \in 1 .. Len(table) : tokens'[i] = table[i]
        /\ tokens'[Len(table) + 1] = [user |-> Presented(t).user, login |-> Presented(t).login,
                                      status |-> "live"]
    BY <1>3, <1>4, <1>5, IssuedToken
  <1>7. Presented(t).login <= Added
    BY <1>1, <1>2, <1>3 DEF Added, TokenIds
  <1>8. QED BY <1>1, <1>4, <1>6, <1>7 DEF Added

LEMMA RotateKeeps == ASSUME IInv, NEW t \in Tabs, Rotate(t) PROVE IInv'
  <1> DEFINE q == [request[t] EXCEPT !.stage = "answered", !.cookie = Added]
  <1>1. request[t] \in Requests /\ request[t] # None /\ request[t].token \in Refs(t)
        /\ UNCHANGED <<accounts, jar, access, disturbed>> /\ Added \in TokenIds
        /\ ~Pending(t, "answered")
    BY Requested DEF Rotate, Pending, Added
  <1>2. request' = [request EXCEPT ![t] = q] BY DEF Rotate, Respond, Added
  <1>3. q \in Requests /\ q.stage = "answered" /\ q.token = request[t].token /\ q.cookie = Added
    BY <1>1 DEF Requests
  <1> HIDE DEF q
  <1>4. q # None BY <1>3
  <1>5. /\ tokens' \in Seq(Token) /\ Len(tokens') = Added
        /\ \A i \in 1 .. Len(tokens) :
             tokens'[i].user = tokens[i].user /\ tokens'[i].login = tokens[i].login
        /\ tokens'[Added].user = User(t) /\ tokens'[Added].login <= Added
        /\ tokens'[Added].status # "revoked"
    BY Rotated
  <1>6. \A i \in 1 .. Len(tokens) :
          \/ tokens'[i].status = "revoked" => tokens[i].status = "revoked"
          \/ i = request[t].token /\ request[t] # None
             /\ q # None /\ q.stage = "answered" /\ q.token = i
    BY <1>1, <1>3, <1>4, Rotated
  <1>7. accounts' \subseteq Users /\ access' \in [Browsers -> BOOLEAN] /\ disturbed' \subseteq Users
    BY <1>1 DEF IInv, TypeOK
  <1>8. QED BY <1>1, <1>2, <1>3, <1>4, <1>5, <1>6, <1>7, RequestStep

-----------------------------------------------------------------------------
LEMMA ReceiveKeeps == ASSUME IInv, NEW t \in Tabs, Receive(t) PROVE IInv'
  <1> DEFINE c == request[t].cookie
             b == BrowserOf[t]
  <1>1. /\ request[t] # None /\ request[t].stage = "answered"
        /\ request' = [request EXCEPT ![t] = None]
        /\ jar' = [jar EXCEPT ![b] = c]
        /\ access' = [access EXCEPT ![b] = (c # NoCookie)]
        /\ UNCHANGED <<accounts, tokens, disturbed>>
    BY DEF Receive, Pending
  <1>2. c \in TokenIds \cup {NoCookie} /\ c \in Refs(t) /\ c \in 0 .. Len(tokens) /\ b \in Browsers
    BY <1>1, Requested DEF Requests
  <1> HIDE DEF c
  <1>3. TypeOK'
    BY <1>1, <1>2 DEF IInv, TypeOK
  <1>4. \A u \in Tabs : request'[u] = IF u = t THEN None ELSE request[u]
    BY <1>1 DEF IInv, TypeOK
  <1>5. \A u \in Tabs : Refs(u)' = IF u = t THEN {} ELSE Refs(u)
    BY <1>4 DEF Refs
  <1>6. \A d \in Browsers : jar'[d] = IF d = b THEN c ELSE jar[d]
    BY <1>1 DEF IInv, TypeOK
  <1>7. InRange' /\ Ordered'
    BY <1>1, <1>2, <1>4, <1>5, <1>6 DEF IInv, InRange, Ordered
  <1>8. Owned'
    <2>1. ASSUME NEW d \in Browsers, jar'[d] # NoCookie PROVE tokens'[jar'[d]].user = UserOf[d]
      <3>1. c # NoCookie => tokens[c].user = UserOf[b] BY <1>2 DEF IInv, Owned, User
      <3>2. QED BY <1>1, <1>6, <2>1, <3>1 DEF IInv, Owned
    <2>2. ASSUME NEW u \in Tabs, NEW i \in Refs(u)', i # NoCookie PROVE tokens'[i].user = User(u)
      <3>1. i \in Refs(u) BY <1>5, <2>2
      <3>2. QED BY <1>1, <2>2, <3>1 DEF IInv, Owned
    <2>3. QED BY <2>1, <2>2 DEF Owned, User
  <1>9. OneHolder'
    <2>1. \A d \in Browsers, u \in Tabs :
            jar'[d] # NoCookie /\ jar'[d] \in Refs(u) => BrowserOf[u] = d
      BY <1>2, <1>6 DEF IInv, OneHolder
    <2>2. ASSUME NEW d \in Browsers, NEW e \in Browsers, jar'[d] = jar'[e], jar'[d] # NoCookie
          PROVE  d = e
      <3>1. \A f \in Browsers : jar[f] = c /\ c # NoCookie => f = b
        BY <1>2 DEF IInv, OneHolder
      <3>2. QED BY <1>6, <2>2, <3>1 DEF IInv, OneHolder
    <2>3. ASSUME NEW d \in Browsers, NEW u \in Tabs, jar'[d] \in Refs(u)', jar'[d] # NoCookie
          PROVE  BrowserOf[u] = d
      BY <1>5, <2>1, <2>3
    <2>4. ASSUME NEW u \in Tabs, NEW v \in Tabs, NEW i \in Refs(u)', i \in Refs(v)', i # NoCookie
          PROVE  BrowserOf[u] = BrowserOf[v]
      <3>1. i \in Refs(u) /\ i \in Refs(v) BY <1>5, <2>4
      <3>2. QED BY <2>4, <3>1 DEF IInv, OneHolder
    <2>5. QED BY <2>2, <2>3, <2>4 DEF OneHolder
  <1>10. OneRequest' /\ RequestsAreGood'
    BY <1>1, <1>4 DEF IInv, OneRequest, RequestsAreGood, User
  <1>11. SessionsSurvive'
    <2>1. SUFFICES ASSUME NEW d \in Browsers, UserOf[d] \notin disturbed, jar'[d] # NoCookie,
                          tokens[jar'[d]].status = "revoked"
                   PROVE  \E u \in Tabs : BrowserOf[u] = d /\ request'[u] # None
                            /\ request'[u].stage = "answered" /\ request'[u].token = jar'[d]
      BY <1>1 DEF SessionsSurvive, Answered, Pending
    <2>2. CASE d = b
      BY <1>1, <1>6, <2>1, <2>2 DEF IInv, RequestsAreGood, User, c
    <2>3. CASE d # b
      <3>1. PICK u \in Tabs : BrowserOf[u] = d /\ Pending(u, "answered") /\ request[u].token = jar[d]
        BY <1>6, <2>1, <2>3 DEF IInv, SessionsSurvive, Answered
      <3>2. QED BY <1>4, <1>6, <2>3, <3>1 DEF Pending
    <2>4. QED BY <2>2, <2>3
  <1>12. QED BY <1>3, <1>7, <1>8, <1>9, <1>10, <1>11 DEF IInv

(* What expires on its own. *)
LEMMA AccessExpiresKeeps == ASSUME IInv, NEW b \in Browsers, AccessExpires(b) PROVE IInv'
  <1>1. UNCHANGED <<accounts, tokens, jar, request, disturbed>>
    BY DEF AccessExpires
  <1>2. TypeOK' BY DEF AccessExpires, IInv, TypeOK
  <1>3. InRange' /\ Ordered' /\ Owned'
    BY <1>1 DEF IInv, InRange, Ordered, Owned, Refs, User
  <1>4. OneHolder' /\ OneRequest'
    BY <1>1 DEF IInv, OneHolder, OneRequest, Refs, User
  <1>5. RequestsAreGood' /\ SessionsSurvive'
    BY <1>1 DEF IInv, RequestsAreGood, SessionsSurvive, Answered, Pending, User
  <1>6. QED BY <1>2, <1>3, <1>4, <1>5 DEF IInv

LEMMA StutterKeeps == ASSUME IInv, UNCHANGED vars PROVE IInv'
  <1>1. UNCHANGED <<accounts, tokens, jar, access, request, disturbed>>
    BY DEF vars
  <1>2. TypeOK' BY <1>1 DEF IInv, TypeOK
  <1>3. InRange' /\ Ordered' /\ Owned'
    BY <1>1 DEF IInv, InRange, Ordered, Owned, Refs, User
  <1>4. OneHolder' /\ OneRequest'
    BY <1>1 DEF IInv, OneHolder, OneRequest, Refs, User
  <1>5. RequestsAreGood' /\ SessionsSurvive'
    BY <1>1 DEF IInv, RequestsAreGood, SessionsSurvive, Answered, Pending, User
  <1>6. QED BY <1>2, <1>3, <1>4, <1>5 DEF IInv

LEMMA CookieExpiresKeeps == ASSUME IInv, NEW b \in Browsers, CookieExpires(b) PROVE IInv'
  <1>1. UNCHANGED <<accounts, tokens, access, request, disturbed>>
        /\ \A d \in Browsers : jar'[d] = IF d = b THEN NoCookie ELSE jar[d]
    BY DEF CookieExpires, IInv, TypeOK
  <1>2. TypeOK' BY DEF CookieExpires, IInv, TypeOK
  <1>3. InRange' /\ Ordered' /\ Owned'
    <2>1. NoCookie \in 0 .. Len(tokens) BY DEF IInv, TypeOK
    <2>2. QED BY <1>1, <2>1 DEF IInv, InRange, Ordered, Owned, Refs, User
  <1>4. OneHolder' /\ OneRequest'
    BY <1>1 DEF IInv, OneHolder, OneRequest, Refs, User
  <1>5. RequestsAreGood' /\ SessionsSurvive'
    BY <1>1 DEF IInv, RequestsAreGood, SessionsSurvive, Answered, Pending, User
  <1>6. QED BY <1>2, <1>3, <1>4, <1>5 DEF IInv

LEMMA TokenExpiresKeeps == ASSUME IInv, NEW i \in DOMAIN tokens, TokenExpires(i) PROVE IInv'
  <1>1. UNCHANGED <<accounts, jar, access, request, disturbed>> /\ i \in 1 .. Len(tokens)
        /\ tokens[i] \in Token
    BY DEF TokenExpires, IInv, TypeOK
  <1>2. [tokens[i] EXCEPT !.status = "expired"] \in Token
    BY <1>1 DEF Token
  <1>3. tokens' = [tokens EXCEPT ![i] = [tokens[i] EXCEPT !.status = "expired"]]
    BY DEF TokenExpires
  <1>4. /\ tokens' \in Seq(Token) /\ Len(tokens') = Len(tokens)
        /\ \A j \in 1 .. Len(tokens) :
             tokens'[j] = IF j = i THEN [tokens[i] EXCEPT !.status = "expired"] ELSE tokens[j]
    BY <1>1, <1>2, <1>3, ExceptSeq DEF IInv, TypeOK
  <1>5. \A j \in 1 .. Len(tokens) :
          /\ tokens'[j].user = tokens[j].user /\ tokens'[j].login = tokens[j].login
          /\ tokens[j].status # "revoked" => tokens'[j].status # "revoked"
    BY <1>1, <1>4 DEF Token
  <1>6. /\ \A b \in Browsers : jar[b] # NoCookie => jar[b] \in 1 .. Len(tokens)
        /\ \A t \in Tabs : \A j \in Refs(t) : j # NoCookie => j \in 1 .. Len(tokens)
    BY DEF IInv, TypeOK, InRange
  <1>7. TypeOK' BY <1>1, <1>4 DEF IInv, TypeOK
  <1>8. InRange' /\ Ordered' /\ Owned'
    BY <1>1, <1>4, <1>5, <1>6 DEF IInv, InRange, Ordered, Owned, Refs, User
  <1>9. OneHolder' /\ OneRequest'
    BY <1>1 DEF IInv, OneHolder, OneRequest, Refs, User
  <1>10. RequestsAreGood'
    BY <1>1, <1>5, <1>6, Requested DEF IInv, RequestsAreGood, User, Refs
  <1>11. SessionsSurvive'
    BY <1>1, <1>5, <1>6 DEF IInv, SessionsSurvive, Answered, Pending
  <1>12. QED BY <1>7, <1>8, <1>9, <1>10, <1>11 DEF IInv

LEMMA NextKeeps == ASSUME IInv, [Next]_vars PROVE IInv'
  <1>1. CASE UNCHANGED vars BY <1>1, StutterKeeps
  <1>2. ASSUME NEW t \in Tabs, NEW kind \in {"register", "login"}, SignIn(t, kind) PROVE IInv'
    BY <1>2, SendKeeps DEF SignIn
  <1>3. ASSUME NEW t \in Tabs, RegisterReads(t) \/ Register(t) \/ Login(t) PROVE IInv'
    BY <1>3, SignInKeeps
  <1>4. ASSUME NEW t \in Tabs, SendRefresh(t) \/ SendLogout(t) PROVE IInv'
    BY <1>4, SendKeeps DEF SendRefresh, SendLogout
  <1>5. ASSUME NEW t \in Tabs, Refresh(t) PROVE IInv'
    BY <1>5, RefreshReadsKeeps, RevocationsKeep, RotateKeeps DEF Refresh
  <1>6. ASSUME NEW t \in Tabs, Logout(t) \/ Receive(t) \/ Lose(t) PROVE IInv'
    BY <1>6, LogoutKeeps, ReceiveKeeps, LoseKeeps
  <1>7. ASSUME NEW t \in Tabs, Fail(t) PROVE IInv'
    <2>1. request[t] # None /\ ~Pending(t, "answered") BY <1>7 DEF Fail, Pending
    <2>2. QED BY <1>7, <2>1, RefuseKeeps DEF Fail
  <1>8. ASSUME NEW b \in Browsers, AccessExpires(b) \/ CookieExpires(b) PROVE IInv'
    BY <1>8, AccessExpiresKeeps, CookieExpiresKeeps
  <1>9. ASSUME NEW i \in DOMAIN tokens, TokenExpires(i) PROVE IInv'
    BY <1>9, TokenExpiresKeeps
  <1>10. QED BY <1>1, <1>2, <1>3, <1>4, <1>5, <1>6, <1>7, <1>8, <1>9 DEF Next

THEOREM Invariance == Spec => []IInv
  BY InitHolds, NextKeeps, PTL DEF Spec

(* Every table, cookie and request has its type. *)
THEOREM Typing == Spec => []TypeOK
  <1>1. IInv => TypeOK BY DEF IInv
  <1>2. QED BY <1>1, Invariance, PTL

(* A session that nothing disturbed survives what happens to the others. *)
THEOREM UndisturbedSessionsSurvive == Spec => []SessionsSurvive
  <1>1. IInv => SessionsSurvive BY DEF IInv
  <1>2. QED BY <1>1, Invariance, PTL

-----------------------------------------------------------------------------
(* What a step never does: it leaves a token its session and what is revoked *)
(* revoked; a token it adds begins a session or comes of an exchange; and it *)
(* begins an exchange only of a token that is live.                          *)
TableLasts ==
  /\ Len(tokens') \in {Len(tokens), Added}
  /\ \A j \in 1 .. Len(tokens) :
       /\ tokens'[j].login = tokens[j].login
       /\ tokens'[j].status # "revoked" => tokens[j].status # "revoked"
  /\ Len(tokens') = Added =>
       \/ tokens'[Added].login = Added
       \/ \E t \in Tabs : /\ Pending(t, "live") /\ request[t].kind = "refresh"
                          /\ Presented(t).login = tokens'[Added].login

BeginsLive ==
  \A t \in Tabs : request'[t] # None /\ request'[t].stage = "live" /\ request'[t].kind = "refresh" =>
    /\ request[t] # None /\ request[t].kind = "refresh"
    /\ request'[t].token = request[t].token /\ request[t].token # NoCookie
    /\ request[t].stage = "live" \/ tokens[request[t].token].status = "live"

LEMMA SameRequests == ASSUME IInv, UNCHANGED request PROVE BeginsLive
  BY DEF BeginsLive, IInv, Ordered

LEMMA SameTable == ASSUME IInv, UNCHANGED tokens PROVE TableLasts
  <1>1. Len(tokens) # Added BY DEF Added, IInv, TypeOK
  <1>2. QED BY <1>1 DEF TableLasts

LEMMA RevokedTable == ASSUME IInv, NEW ids, tokens' = Revoke(tokens, ids) PROVE TableLasts
  <1>1. tokens \in Seq(Token) /\ Len(tokens) # Added BY DEF Added, IInv, TypeOK
  <1>2. Len(tokens') = Len(tokens) /\ \A j \in 1 .. Len(tokens) :
          /\ tokens'[j].login = tokens[j].login
          /\ tokens'[j].status # "revoked" => tokens[j].status # "revoked"
    BY <1>1, Revoked
  <1>3. QED BY <1>1, <1>2 DEF TableLasts

(* A request that is not let through a refresh begins no exchange. *)
LEMMA OtherRequest ==
  ASSUME IInv, NEW t \in Tabs, NEW q, request' = [request EXCEPT ![t] = q],
         q = None \/ q.stage # "live" \/ q.kind # "refresh"
  PROVE  BeginsLive
  <1>1. \A u \in Tabs : request'[u] = IF u = t THEN q ELSE request[u]
    BY DEF IInv, TypeOK
  <1>2. QED BY <1>1 DEF BeginsLive, IInv, Ordered

LEMMA SignInLasts ==
  ASSUME IInv, NEW t \in Tabs, RegisterReads(t) \/ Register(t) \/ Login(t)
  PROVE  TableLasts /\ BeginsLive
  <1>1. request[t] \in Requests /\ request[t] # None /\ request[t].kind # "refresh"
    BY Requested DEF RegisterReads, Register, Login, Pending
  <1>2. CASE RegisterReads(t)
    <2> DEFINE q == [request[t] EXCEPT !.stage = "live"]
    <2>1. q.kind # "refresh" BY <1>1 DEF Requests
    <2>2. request' = [request EXCEPT ![t] = None] \/ request' = [request EXCEPT ![t] = q]
      BY <1>2 DEF RegisterReads, Refuse, Proceed
    <2> HIDE DEF q
    <2>3. QED BY <1>2, <2>1, <2>2, OtherRequest, SameTable DEF RegisterReads
  <1>3. CASE Register(t) \/ Login(t)
    <2> DEFINE q == [request[t] EXCEPT !.stage = "answered", !.cookie = Added]
    <2>1. q.kind # "refresh" BY <1>1 DEF Requests
    <2>2. Issued(t, Added) BY <1>3 DEF Register, Login, Added
    <2>3. request' = [request EXCEPT ![t] = q] BY <2>2 DEF Issued, Respond
    <2> HIDE DEF q
    <2>4. /\ Len(tokens') = Added /\ \A i \in 1 .. Len(tokens) : tokens'[i] = tokens[i]
          /\ tokens'[Added] = [user |-> User(t), login |-> Added, status |-> "live"]
      BY <2>2, IssuedToken DEF Issued, IInv, TypeOK, User, Added
    <2>5. tokens'[Added].login = Added BY <2>4
    <2>6. TableLasts BY <2>4, <2>5 DEF TableLasts
    <2>7. QED BY <2>1, <2>3, <2>6, OtherRequest
  <1>4. QED BY <1>2, <1>3

LEMMA RefreshLasts == ASSUME IInv, NEW t \in Tabs, Refresh(t) PROVE TableLasts /\ BeginsLive
  <1>1. request[t] \in Requests /\ request[t] # None
    BY Requested DEF Refresh, RefreshReads, RevokeFamily, RevokeExpired, Rotate, Pending
  <1>2. CASE RefreshReads(t)
    <2>1. TableLasts BY <1>2, SameTable DEF RefreshReads
    <2>2. CASE request[t].token = NoCookie
      <3>1. request' = [request EXCEPT ![t] = None] BY <1>2, <2>2 DEF RefreshReads, Refuse
      <3>2. BeginsLive BY <3>1, OtherRequest
      <3>3. QED BY <2>1, <3>2
    <2>3. CASE request[t].token # NoCookie
      <3> DEFINE q == [request[t] EXCEPT !.stage = "live"]
      <3>1. q.token = request[t].token /\ request[t].kind = "refresh" BY <1>1, <1>2 DEF Requests, RefreshReads
      <3>2. request' = [request EXCEPT ![t] = q] /\ tokens[request[t].token].status = "live"
        BY <1>2, <2>3 DEF RefreshReads, Proceed, Usable, Presented
      <3> HIDE DEF q
      <3>3. \A u \in Tabs : request'[u] = IF u = t THEN q ELSE request[u]
        BY <3>2 DEF IInv, TypeOK
      <3>4. BeginsLive BY <1>1, <2>3, <3>1, <3>2, <3>3 DEF BeginsLive, IInv, Ordered
      <3>5. QED BY <2>1, <3>4
    <2>4. QED BY <2>1, <2>2, <2>3
  <1>3. CASE RevokeFamily(t) \/ RevokeExpired(t)
    <2>1. request' = [request EXCEPT ![t] = None] /\ \E ids : tokens' = Revoke(tokens, ids)
      BY <1>3 DEF RevokeFamily, RevokeExpired, Refuse
    <2>2. QED BY <2>1, RevokedTable, OtherRequest
  <1>4. CASE Rotate(t)
    <2> DEFINE q == [request[t] EXCEPT !.stage = "answered", !.cookie = Added]
    <2>1. q.stage = "answered" BY <1>1 DEF Requests
    <2>2. request' = [request EXCEPT ![t] = q] BY <1>4 DEF Rotate, Respond, Added
    <2> HIDE DEF q
    <2>3. BeginsLive BY <2>1, <2>2, OtherRequest
    <2>4. /\ Len(tokens') = Added /\ tokens'[Added].login = Presented(t).login
          /\ \A j \in 1 .. Len(tokens) :
               /\ tokens'[j].login = tokens[j].login
               /\ tokens'[j].status # "revoked" => tokens[j].status # "revoked"
      BY <1>4, Rotated
    <2>5. Pending(t, "live") /\ request[t].kind = "refresh" BY <1>4 DEF Rotate
    <2>6. TableLasts BY <2>4, <2>5 DEF TableLasts
    <2>7. QED BY <2>3, <2>6
  <1>5. QED BY <1>2, <1>3, <1>4 DEF Refresh

LEMMA StepLasts == ASSUME IInv, [Next]_vars PROVE TableLasts /\ BeginsLive
  <1>1. CASE UNCHANGED vars BY <1>1, SameTable, SameRequests DEF vars
  <1>2. ASSUME NEW t \in Tabs, NEW kind \in {"register", "login", "refresh", "logout"}, Send(t, kind)
        PROVE  TableLasts /\ BeginsLive
    <2> DEFINE q == [kind |-> kind, stage |-> "sent", cookie |-> NoCookie,
                     token |-> IF kind \in {"refresh", "logout"} THEN Jar(t) ELSE NoCookie]
    <2>1. request' = [request EXCEPT ![t] = q] /\ q.stage # "live" BY <1>2 DEF Send
    <2> HIDE DEF q
    <2>2. BeginsLive BY <2>1, OtherRequest
    <2>3. TableLasts BY <1>2, SameTable DEF Send
    <2>4. QED BY <2>2, <2>3
  <1>3. ASSUME NEW t \in Tabs, RegisterReads(t) \/ Register(t) \/ Login(t)
        PROVE  TableLasts /\ BeginsLive
    BY <1>3, SignInLasts
  <1>4. ASSUME NEW t \in Tabs, Refresh(t) PROVE TableLasts /\ BeginsLive
    BY <1>4, RefreshLasts
  <1>5. ASSUME NEW t \in Tabs, Logout(t) PROVE TableLasts /\ BeginsLive
    <2> DEFINE q == [request[t] EXCEPT !.stage = "answered", !.cookie = NoCookie]
    <2>1. q.stage = "answered" BY <1>5, Requested DEF Logout, Pending, Requests
    <2>2. request' = [request EXCEPT ![t] = q] BY <1>5 DEF Logout, Respond
    <2> HIDE DEF q
    <2>3. BeginsLive BY <2>1, <2>2, OtherRequest
    <2>4. TableLasts BY <1>5, RevokedTable DEF Logout
    <2>5. QED BY <2>3, <2>4
  <1>6. ASSUME NEW t \in Tabs, Lose(t) PROVE TableLasts /\ BeginsLive
    <2> DEFINE q == [request[t] EXCEPT !.stage = "sent", !.cookie = NoCookie,
                                       !.token = IF @ = NoCookie THEN @ ELSE Jar(t)]
    <2>1. q.stage = "sent" BY <1>6, Requested DEF Lose, Pending, Requests
    <2>2. request' = [request EXCEPT ![t] = q] BY <1>6 DEF Lose
    <2> HIDE DEF q
    <2>3. BeginsLive BY <2>1, <2>2, OtherRequest
    <2>4. TableLasts BY <1>6, SameTable DEF Lose
    <2>5. QED BY <2>3, <2>4
  <1>7. ASSUME NEW t \in Tabs, Receive(t) \/ Fail(t) PROVE TableLasts /\ BeginsLive
    BY <1>7, OtherRequest, SameTable DEF Receive, Fail, Refuse
  <1>8. ASSUME NEW b \in Browsers, AccessExpires(b) \/ CookieExpires(b) PROVE TableLasts /\ BeginsLive
    BY <1>8, SameRequests, SameTable DEF AccessExpires, CookieExpires
  <1>9. ASSUME NEW i \in DOMAIN tokens, TokenExpires(i) PROVE TableLasts /\ BeginsLive
    <2>1. tokens[i] \in Token /\ tokens[i].status = "live" /\ i \in 1 .. Len(tokens)
          /\ tokens' = [tokens EXCEPT ![i] = [tokens[i] EXCEPT !.status = "expired"]]
      BY <1>9 DEF TokenExpires, IInv, TypeOK
    <2>2. /\ Len(tokens') = Len(tokens)
          /\ \A j \in 1 .. Len(tokens) :
               tokens'[j] = IF j = i THEN [tokens[i] EXCEPT !.status = "expired"] ELSE tokens[j]
      <3>1. [tokens[i] EXCEPT !.status = "expired"] \in Token BY <2>1 DEF Token
      <3>2. QED BY <2>1, <3>1, ExceptSeq DEF IInv, TypeOK
    <2>3. Len(tokens) # Added BY DEF Added, IInv, TypeOK
    <2>4. \A j \in 1 .. Len(tokens) :
            /\ tokens'[j].login = tokens[j].login
            /\ tokens'[j].status # "revoked" => tokens[j].status # "revoked"
      BY <2>1, <2>2 DEF Token
    <2>5. TableLasts BY <2>2, <2>3, <2>4 DEF TableLasts
    <2>6. QED BY <1>9, <2>5, SameRequests DEF TokenExpires
  <1>10. QED BY <1>1, <1>2, <1>3, <1>4, <1>5, <1>6, <1>7, <1>8, <1>9
          DEF Next, SignIn, SendRefresh, SendLogout

LEMMA EndsForGood ==
  ASSUME IInv, IInv', TableLasts, BeginsLive, NEW i \in 1 .. Len(tokens), Over(tokens[i].login)
  PROVE  Over(tokens[i].login)'
  <1> DEFINE login == tokens[i].login
  <1>1. Len(tokens) \in Nat /\ Len(tokens') \in Nat /\ login <= i /\ login \in TokenIds
    <2>1. tokens \in Seq(Token) /\ login <= i BY DEF IInv, TypeOK, Ordered
    <2>2. Len(tokens) \in Nat /\ tokens[i] \in Token BY <2>1
    <2>3. login \in TokenIds BY <2>2 DEF Token
    <2>4. Len(tokens') \in Nat BY <2>2 DEF TableLasts, Added
    <2>5. QED BY <2>1, <2>2, <2>3, <2>4
  <1>2. login # Added BY <1>1 DEF Added, TokenIds
  <1>3. tokens'[i].login = login BY DEF TableLasts
  <1> HIDE DEF login
  <1>4. /\ \A j \in 1 .. Len(tokens) : tokens[j].login = login => tokens[j].status = "revoked"
        /\ \A t \in Tabs : ~(/\ Pending(t, "live") /\ request[t].kind = "refresh"
                             /\ Presented(t).login = login)
    BY <1>1 DEF Over, LiveTokens, Exchanging, login, IInv, TypeOK
  <1>5. ASSUME NEW j \in 1 .. Len(tokens'), tokens'[j].login = login
        PROVE  tokens'[j].status = "revoked"
    <2>1. CASE j \in 1 .. Len(tokens) BY <1>4, <1>5, <2>1 DEF TableLasts
    <2>2. CASE j \notin 1 .. Len(tokens)
      <3>1. j = Added /\ Len(tokens') = Added BY <1>1, <2>2 DEF TableLasts, Added
      <3>2. QED BY <1>2, <1>4, <1>5, <3>1 DEF TableLasts
    <2>3. QED BY <2>1, <2>2
  <1>6. ASSUME NEW t \in Tabs, request'[t] # None, request'[t].stage = "live",
               request'[t].kind = "refresh", tokens'[request'[t].token].login = login
        PROVE  FALSE
    <2>1. /\ request[t] # None /\ request[t].kind = "refresh"
          /\ request'[t].token = request[t].token /\ request[t].token # NoCookie
          /\ request[t].stage = "live" \/ tokens[request[t].token].status = "live"
      BY <1>6 DEF BeginsLive
    <2>2. request[t].token \in 1 .. Len(tokens) BY <1>1, <2>1, Requested
    <2>3. tokens[request[t].token].login = login BY <1>6, <2>1, <2>2 DEF TableLasts
    <2>4. QED BY <1>4, <2>1, <2>2, <2>3 DEF Pending, Presented
  <1>7. DOMAIN tokens' = 1 .. Len(tokens') BY DEF IInv, TypeOK
  <1>8. LiveTokens(tokens[i].login)' = {} BY <1>3, <1>5, <1>7 DEF LiveTokens
  <1>9. ~Exchanging(tokens[i].login)'
    BY <1>3, <1>6 DEF Exchanging, Pending, Presented
  <1>10. QED BY <1>8, <1>9 DEF Over

(* A session that is over stays over: what was revoked is never live again,  *)
(* and no token is added to it.                                              *)
THEOREM EndedSessions == Spec => EndedSessionsStayEnded
  <1>1. ASSUME IInv, [Next]_vars
        PROVE  \A i \in DOMAIN tokens : Over(tokens[i].login) => Over(tokens[i].login)'
    <2>1. DOMAIN tokens = 1 .. Len(tokens) BY <1>1 DEF IInv, TypeOK
    <2>2. IInv' /\ TableLasts /\ BeginsLive BY <1>1, NextKeeps, StepLasts
    <2>3. QED BY <1>1, <2>1, <2>2, EndsForGood
  <1>2. QED BY <1>1, Invariance, PTL DEF Spec, EndedSessionsStayEnded
=============================================================================
