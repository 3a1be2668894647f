---------------------------- MODULE SessionProofs ----------------------------
(***************************************************************************)
(* Proofs about the tabs of one browser, for any number of users, tabs,    *)
(* sign-ins and clicks, whatever becomes of the accounts meanwhile and in  *)
(* whatever order the answers arrive: what the pages show goes with the    *)
(* session they name, and a live session is ended by nobody but its user.  *)
(*                                                                         *)
(* The invariant says what a request on its way, or its answer, is still   *)
(* right about when it arrives.  What it is right about is never undone:   *)
(* tokens are only signed, cookies only set, accounts only go on, pages    *)
(* are only left.                                                          *)
(***************************************************************************)
EXTENDS InternalTabs, TLAPS

Wire ==
  [kind : {"login", "demo", "logout", "me", "load"}, tab : Tabs, page : Nat,
   no : Nat, user : Users \cup {"nobody"}, cause : Int,
   at : {"sent", "checked", "answered"}, version : Nat, token : Nat,
   status : Statuses]

SessionTypes ==
  /\ version \in [Users -> Nat]
  /\ \A u \in Users : version[u] \in DOMAIN History[u]
  /\ tokens \in Seq([user : Users, version : Nat]) /\ Len(tokens) <= MaxTokens
  /\ alive \subseteq DOMAIN tokens
  /\ jar \in Seq(Nat) /\ \A i \in DOMAIN jar : jar[i] \in DOMAIN tokens
  /\ cookie \in {0, Len(jar)}
  /\ wire \subseteq Wire

TabTypes ==
  /\ at \in [Tabs -> {"login", "home", "internal"}]
  /\ page \in [Tabs -> Nat \ {0}]
  /\ loading \in [Tabs -> BOOLEAN]
  /\ profile \in [Tabs -> [user : Users \cup {"nobody"}, version : Nat, no : Nat]]
  /\ shown \in [Tabs -> Nat]
  /\ refused \subseteq Tabs
  /\ clicks \in 0..MaxClicks

\* The account was active in the version v that was read for u.
ReadActive(u, v) == v \in 1..version[u] /\ AccountOf(u, v).active

TokensTrue == \A n \in DOMAIN tokens : ReadActive(tokens[n].user, tokens[n].version)

\* The cookie in place i of the jar deserved to be refused.
NoGood(i) == jar[i] \notin alive \/ DeactivatedSince(jar[i])

\* What a sign-in on its way is right about.
SignInTrue(r) ==
  /\ r.kind = "login" => r.user \in Users
  /\ r.at = "checked" =>
       r.kind \in {"login", "demo"} /\ r.user \in Users /\ ReadActive(r.user, r.version)
  /\ r.kind \in {"login", "demo"} /\ r.status = 200 => r.token # 0

\* What an answer to a page is right about.
AnswerTrue(r) ==
  /\ r.kind \in {"me", "load"} /\ r.status = 401 => r.no = 0 \/ NoGood(r.no)
  /\ r.kind \in {"me", "load"} /\ r.status = 200 => r.no # 0
  /\ r.kind = "me" /\ r.status = 200 =>
       r.user = tokens[jar[r.no]].user /\ r.version \in 1..version[r.user]
  /\ r.kind = "load" /\ r.status = 403 => r.no # 0 /\ RoleIn(jar[r.no]) \notin PageRoles

\* What a logout goes back to.
LogoutTrue(r) ==
  r.kind = "logout" =>
    r.cause \in {0, Nothing} \/ (r.cause \in DOMAIN jar /\ NoGood(r.cause))

RequestTrue(r) ==
  /\ r.no <= Len(jar) /\ r.token <= Len(tokens) /\ r.page <= page[r.tab]
  /\ SignInTrue(r) /\ AnswerTrue(r) /\ LogoutTrue(r)

\* What a page knows of its user.
ProfileTrue(t) ==
  /\ profile[t].no <= Len(jar)
  /\ profile[t].no # 0 =>
       profile[t].user \in Users /\ profile[t].user = tokens[jar[profile[t].no]].user
  /\ profile[t].no = 0 => profile[t] = NoProfile
  /\ t \in refused => profile[t].no # 0
  /\ shown[t] <= Len(jar)

\* A page asks who its user is before anything else, and loads what the answer
\* allows, with the cookie of then.
InOrder(r) ==
  r.page = page[r.tab] =>
    /\ r.kind = "me" => profile[r.tab].no = 0
    /\ r.kind = "load" =>
         /\ profile[r.tab].no # 0
         /\ MayLoad(profile[r.tab].user, profile[r.tab].version)
         /\ r.no = 0 \/ profile[r.tab].no <= r.no

AsksOnce ==
  \A r, s \in wire :
    r.kind = "me" /\ s.kind = "me" /\ r.tab = s.tab /\ r.page = s.page => r = s

TabsInv ==
  /\ SessionTypes /\ TabTypes /\ TokensTrue
  /\ \A r \in wire : RequestTrue(r) /\ InOrder(r)
  /\ \A t \in Tabs : ProfileTrue(t)
  /\ AsksOnce
  /\ DataNotOlderThanProfile /\ RefusalsExplained

-----------------------------------------------------------------------------
(* What has been found stays found.                                        *)

\* The step leaves a page, signs, sets or reads no less than there was.
Grows ==
  /\ \A u \in Users : version[u] <= version'[u]
  /\ Len(tokens) <= Len(tokens') /\ \A n \in DOMAIN tokens : tokens'[n] = tokens[n]
  /\ Len(jar) <= Len(jar') /\ \A i \in DOMAIN jar : jar'[i] = jar[i]
  /\ alive' \cap DOMAIN tokens \subseteq alive
  /\ \A t \in Tabs : page[t] <= page'[t]

LEMMA SequenceFacts ==
  ASSUME NEW S, NEW q \in Seq(S)
  PROVE  Len(q) \in Nat /\ DOMAIN q = 1..Len(q) /\ \A i \in DOMAIN q : q[i] \in S
OBVIOUS

LEMMA AppendFacts ==
  ASSUME NEW S, NEW q \in Seq(S), NEW e \in S
  PROVE  /\ Append(q, e) \in Seq(S) /\ Len(Append(q, e)) = Len(q) + 1
         /\ DOMAIN Append(q, e) = 1..(Len(q) + 1)
         /\ \A i \in DOMAIN q : Append(q, e)[i] = q[i]
         /\ Append(q, e)[Len(q) + 1] = e
OBVIOUS

\* The same for the two sequences of a session, in either state of a step.
LEMMA SessionRows ==
  ASSUME NEW tks \in Seq([user : Users, version : Nat]), NEW j \in Seq(Nat)
  PROVE  /\ Len(tks) \in Nat /\ DOMAIN tks = 1..Len(tks)
         /\ \A n \in DOMAIN tks : n \in Nat /\ tks[n].user \in Users /\ tks[n].version \in Nat
         /\ Len(j) \in Nat /\ DOMAIN j = 1..Len(j)
         /\ \A i \in DOMAIN j : i \in Nat /\ j[i] \in Nat
<1>1. /\ Len(tks) \in Nat /\ DOMAIN tks = 1..Len(tks)
      /\ \A n \in DOMAIN tks : tks[n] \in [user : Users, version : Nat]
  BY SequenceFacts
<1>2. /\ Len(j) \in Nat /\ DOMAIN j = 1..Len(j)
      /\ \A i \in DOMAIN j : j[i] \in Nat
  BY SequenceFacts
<1> QED BY <1>1, <1>2

\* What was read of an account that was active was read of it for good.
LEMMA ReadingsStay ==
  ASSUME SessionTypes, SessionTypes', Grows, NEW u \in Users, NEW v \in Nat,
         ReadActive(u, v)
  PROVE  ReadActive(u, v)'
<1>1. version[u] \in Nat /\ version'[u] \in Nat /\ version[u] <= version'[u]
  BY DEF SessionTypes, Grows
<1> QED BY <1>1 DEF ReadActive, AccountOf

\* A cookie that deserved to be refused still does.
LEMMA RefusalsStay ==
  ASSUME SessionTypes, SessionTypes', TokensTrue, Grows, NEW i \in DOMAIN jar, NoGood(i)
  PROVE  NoGood(i)'
<1> DEFINE n == jar[i]
<1>1. i \in Nat /\ jar'[i] = n /\ n \in DOMAIN tokens
  BY SessionRows DEF SessionTypes, Grows
<1>2. tokens'[n] = tokens[n] /\ tokens[n].user \in Users /\ tokens[n].version \in Nat
  BY <1>1, SessionRows DEF SessionTypes, Grows
<1>3. CASE n \notin alive
  <2>1. n \notin alive'
    BY <1>1, <1>3 DEF Grows
  <2> QED BY <2>1, <1>1 DEF NoGood
<1>4. CASE DeactivatedSince(n)
  <2> DEFINE u == tokens[n].user
  <2>1. PICK v \in tokens[n].version..version[u] : ~AccountOf(u, v).active
    BY <1>4 DEF DeactivatedSince
  <2>2. version[u] \in Nat /\ version'[u] \in Nat /\ version[u] <= version'[u]
    BY <1>2 DEF SessionTypes, Grows
  <2>3. v \in tokens[n].version..version'[u]
    BY <2>1, <2>2, <1>2
  <2> QED BY <2>1, <2>3, <1>1, <1>2 DEF NoGood, DeactivatedSince, AccountOf
<1> QED BY <1>3, <1>4 DEF NoGood

\* What a request is right about when it is sent or answered it is right about
\* when it arrives.
LEMMA RequestsStayTrue ==
  ASSUME SessionTypes, SessionTypes', TabTypes, TabTypes', TokensTrue, Grows,
         NEW r \in Wire, RequestTrue(r)
  PROVE  RequestTrue(r)'
<1>1. /\ r.no \in Nat /\ r.tab \in Tabs /\ r.page \in Nat /\ r.token \in Nat
      /\ r.version \in Nat /\ r.cause \in Int
  BY DEF Wire
<1>2. /\ Len(jar) \in Nat /\ Len(jar') \in Nat /\ Len(jar) <= Len(jar')
      /\ Len(tokens) \in Nat /\ Len(tokens') \in Nat /\ Len(tokens) <= Len(tokens')
      /\ page[r.tab] \in Nat /\ page'[r.tab] \in Nat /\ page[r.tab] <= page'[r.tab]
      /\ DOMAIN jar = 1..Len(jar)
  <2>1. Len(jar) \in Nat /\ Len(tokens) \in Nat /\ DOMAIN jar = 1..Len(jar)
    BY SessionRows DEF SessionTypes
  <2>2. Len(jar') \in Nat /\ Len(tokens') \in Nat
    BY SessionRows DEF SessionTypes
  <2>3. page[r.tab] \in Nat /\ page'[r.tab] \in Nat
    BY <1>1 DEF TabTypes
  <2> QED BY <1>1, <2>1, <2>2, <2>3 DEF Grows
<1>3. r.no <= Len(jar') /\ r.token <= Len(tokens') /\ r.page <= page'[r.tab]
  BY <1>1, <1>2, SMTT(30) DEF RequestTrue
<1>4. SignInTrue(r)'
  <2>1. SignInTrue(r)
    BY DEF RequestTrue
  <2>2. CASE r.at = "checked"
    <3>1. r.user \in Users /\ ReadActive(r.user, r.version)
      BY <2>1, <2>2 DEF SignInTrue
    <3>2. ReadActive(r.user, r.version)'
      BY <3>1, <1>1, ReadingsStay
    <3> QED BY <2>1, <2>2, <3>1, <3>2 DEF SignInTrue
  <2> QED BY <2>1, <2>2 DEF SignInTrue
<1>5. ASSUME r.no # 0
      PROVE  /\ r.no \in DOMAIN jar /\ jar'[r.no] = jar[r.no]
             /\ jar[r.no] \in DOMAIN tokens /\ tokens'[jar[r.no]] = tokens[jar[r.no]]
             /\ tokens[jar[r.no]].user \in Users
  <2>1. r.no \in DOMAIN jar
    BY <1>1, <1>2, <1>5 DEF RequestTrue
  <2> QED BY <2>1, SessionRows DEF SessionTypes, Grows
<1>6. AnswerTrue(r)'
  <2>1. AnswerTrue(r)
    BY DEF RequestTrue
  <2>2. ASSUME r.kind \in {"me", "load"}, r.status = 401
        PROVE  r.no = 0 \/ NoGood(r.no)'
    BY <2>1, <2>2, <1>5, RefusalsStay DEF AnswerTrue
  <2>3. ASSUME r.kind = "me", r.status = 200
        PROVE  r.user = tokens'[jar'[r.no]].user /\ r.version \in 1..version'[r.user]
    <3>1. r.no # 0 /\ r.user = tokens[jar[r.no]].user /\ r.version \in 1..version[r.user]
      BY <2>1, <2>3 DEF AnswerTrue
    <3>2. r.user \in Users
      BY <3>1, <1>5
    <3>3. version[r.user] \in Nat /\ version'[r.user] \in Nat
          /\ version[r.user] <= version'[r.user]
      BY <3>2 DEF SessionTypes, Grows
    <3> QED BY <3>1, <3>3, <1>5
  <2>4. ASSUME r.kind = "load", r.status = 403
        PROVE  r.no # 0 /\ (RoleIn(jar[r.no]) \notin PageRoles)'
    BY <2>1, <2>4, <1>5 DEF AnswerTrue, RoleIn, AccountOf
  <2> QED BY <2>1, <2>2, <2>3, <2>4 DEF AnswerTrue
<1>7. LogoutTrue(r)'
  <2>1. LogoutTrue(r)
    BY DEF RequestTrue
  <2>2. ASSUME r.cause \in DOMAIN jar, NoGood(r.cause)
        PROVE  r.cause \in DOMAIN jar' /\ NoGood(r.cause)'
    <3>1. NoGood(r.cause)'
      BY <2>2, RefusalsStay
    <3>2. DOMAIN jar' = 1..Len(jar')
      BY SessionRows DEF SessionTypes
    <3> QED BY <3>1, <3>2, <2>2, <1>1, <1>2
  <2> QED BY <2>1, <2>2 DEF LogoutTrue
<1> QED BY <1>3, <1>4, <1>6, <1>7 DEF RequestTrue

-----------------------------------------------------------------------------
(* The API: a request is replaced by one that has come further.            *)

Handled(r, s) ==
  /\ wire' = (wire \ {r}) \cup {s}
  /\ s.kind = r.kind /\ s.tab = r.tab /\ s.page = r.page /\ s.no = r.no

LEMMA RequestFacts ==
  ASSUME TabsInv, NEW r \in wire
  PROVE  /\ r \in Wire /\ RequestTrue(r)
         /\ r.no \in Nat /\ r.no <= Len(jar) /\ Len(jar) \in Nat
         /\ r.no # 0 => r.no \in DOMAIN jar /\ jar[r.no] \in DOMAIN tokens
         /\ r.no # 0 => /\ tokens[jar[r.no]].user \in Users
                        /\ tokens[jar[r.no]].version \in 1..version[tokens[jar[r.no]].user]
                        /\ version[tokens[jar[r.no]].user] \in Nat
<1>1. r \in Wire /\ RequestTrue(r) /\ r.no <= Len(jar)
  BY DEF TabsInv, SessionTypes, RequestTrue
<1>2. r.no \in Nat
  BY <1>1 DEF Wire
<1>3. Len(jar) \in Nat /\ DOMAIN jar = 1..Len(jar)
  BY SessionRows DEF TabsInv, SessionTypes
<1>4. ASSUME r.no # 0
      PROVE  r.no \in DOMAIN jar /\ jar[r.no] \in DOMAIN tokens
  <2>1. r.no \in DOMAIN jar
    BY <1>1, <1>2, <1>3, <1>4
  <2> QED BY <2>1 DEF TabsInv, SessionTypes
<1>5. ASSUME r.no # 0
      PROVE  /\ tokens[jar[r.no]].user \in Users
             /\ tokens[jar[r.no]].version \in 1..version[tokens[jar[r.no]].user]
             /\ version[tokens[jar[r.no]].user] \in Nat
  <2>1. tokens[jar[r.no]].user \in Users
    BY <1>4, <1>5, SessionRows DEF TabsInv, SessionTypes
  <2>2. ReadActive(tokens[jar[r.no]].user, tokens[jar[r.no]].version)
    BY <1>4, <1>5 DEF TabsInv, TokensTrue
  <2> QED BY <2>1, <2>2 DEF TabsInv, SessionTypes, ReadActive
<1> QED BY <1>1, <1>2, <1>3, <1>4, <1>5

\* An answer with nothing to it but its status.
LEMMA PlainAnswer ==
  ASSUME TabsInv, NEW r \in wire, NEW status \in Statuses, Answer(r, status),
         r.kind \in {"login", "demo"} => status # 200,
         r.kind \in {"me", "load"} => status # 200,
         r.kind \in {"me", "load"} /\ status = 401 => r.no = 0 \/ NoGood(r.no),
         r.kind = "load" /\ status = 403 => r.no # 0 /\ RoleIn(jar[r.no]) \notin PageRoles
  PROVE  \E s \in Wire : Handled(r, s) /\ RequestTrue(s)
<1> DEFINE s == [r EXCEPT !.at = "answered", !.status = status]
<1>1. r \in Wire /\ RequestTrue(r)
  BY RequestFacts
<1>2. /\ s \in Wire /\ s.kind = r.kind /\ s.tab = r.tab /\ s.page = r.page /\ s.no = r.no
      /\ s.user = r.user /\ s.cause = r.cause /\ s.version = r.version
      /\ s.token = r.token /\ s.at = "answered" /\ s.status = status
  BY <1>1 DEF Wire
<1>3. Handled(r, s)
  BY <1>2 DEF Handled, Answer, Replace
<1> HIDE DEF s
<1>4. SignInTrue(s)
  BY <1>1, <1>2, "answered" # "checked" DEF RequestTrue, SignInTrue
<1>5. AnswerTrue(s)
  BY <1>1, <1>2 DEF AnswerTrue
<1>6. LogoutTrue(s)
  BY <1>1, <1>2 DEF RequestTrue, LogoutTrue
<1> QED BY <1>1, <1>2, <1>3, <1>4, <1>5, <1>6 DEF RequestTrue

\* A sign-in whose account was read.
LEMMA CheckedSignIn ==
  ASSUME TabsInv, NEW r \in wire, r.kind \in {"login", "demo"},
         NEW s \in Wire, Handled(r, s), s.user \in Users, Active(s.user),
         s.version = version[s.user], s.token = r.token, s.status = r.status
  PROVE  RequestTrue(s)
<1>1. r \in Wire /\ RequestTrue(r) /\ SignInTrue(r)
  BY RequestFacts DEF RequestTrue
<1>2. version[s.user] \in Nat /\ version[s.user] \in DOMAIN History[s.user]
  BY DEF TabsInv, SessionTypes
<1>3. DOMAIN History[s.user] = 1..Len(History[s.user])
  BY SessionAssumption, SequenceFacts
<1>4. version[s.user] \in 1..version[s.user]
  BY <1>2, <1>3
<1>5. SignInTrue(s)
  BY <1>1, <1>4 DEF SignInTrue, ReadActive, Active, Handled
<1>6. AnswerTrue(s) /\ LogoutTrue(s)
  BY DEF AnswerTrue, LogoutTrue, Handled
<1> QED BY <1>1, <1>5, <1>6 DEF RequestTrue, Handled

\* Whatever the API does with a request, what comes of it is right.
LEMMA HandlersAnswerTrue ==
  ASSUME TabsInv, NEW r \in wire, Handle(r), ~IssueToken(r)
  PROVE  \E s \in Wire : Handled(r, s) /\ RequestTrue(s)
<1>1. r \in Wire /\ RequestTrue(r)
  BY RequestFacts
<1>200. 200 \in Statuses
  BY DEF Statuses
<1>2. CASE CheckLogin(r)
  <2>1. r.kind = "login" /\ r.user \in Users
    BY <1>1, <1>2 DEF CheckLogin, RequestTrue, SignInTrue
  <2>2. CASE Answer(r, 401)
    BY <2>1, <2>2, PlainAnswer DEF Statuses
  <2>3. CASE Active(r.user) /\ Replace(r, [r EXCEPT !.at = "checked", !.version = version[r.user]])
    <3> DEFINE s == [r EXCEPT !.at = "checked", !.version = version[r.user]]
    <3>1. version[r.user] \in Nat
      BY <2>1 DEF TabsInv, SessionTypes
    <3>2. /\ s \in Wire /\ s.kind = r.kind /\ s.tab = r.tab /\ s.page = r.page
          /\ s.no = r.no /\ s.user = r.user /\ s.version = version[s.user]
          /\ s.token = r.token /\ s.status = r.status
      BY <1>1, <3>1 DEF Wire
    <3>3. Handled(r, s)
      BY <2>3, <3>2 DEF Handled, Replace
    <3> HIDE DEF s
    <3>4. RequestTrue(s)
      BY <2>1, <2>3, <3>2, <3>3, CheckedSignIn
    <3> QED BY <3>2, <3>3, <3>4
  <2> QED BY <1>2, <2>2, <2>3 DEF CheckLogin
<1>3. CASE CheckDemo(r)
  <2>1. r.kind = "demo"
    BY <1>3 DEF CheckDemo
  <2>2. CASE Answer(r, 404)
    BY <2>1, <2>2, PlainAnswer DEF Statuses
  <2>3. CASE Answer(r, 503)
    BY <2>1, <2>3, PlainAnswer DEF Statuses
  <2>4. ASSUME NEW u \in ActiveGuests,
               Replace(r, [r EXCEPT !.at = "checked", !.user = u, !.version = version[u]])
        PROVE  \E s \in Wire : Handled(r, s) /\ RequestTrue(s)
    <3> DEFINE s == [r EXCEPT !.at = "checked", !.user = u, !.version = version[u]]
    <3>1. u \in Users /\ Active(u) /\ version[u] \in Nat
      <4>1. u \in Users /\ Active(u)
        BY SessionAssumption DEF ActiveGuests
      <4> QED BY <4>1 DEF TabsInv, SessionTypes
    <3>2. /\ s \in Wire /\ s.kind = r.kind /\ s.tab = r.tab /\ s.page = r.page
          /\ s.no = r.no /\ s.user = u /\ s.version = version[u]
          /\ s.token = r.token /\ s.status = r.status
      BY <1>1, <3>1 DEF Wire
    <3>3. Handled(r, s)
      BY <2>4, <3>2 DEF Handled, Replace
    <3> HIDE DEF s
    <3>4. RequestTrue(s)
      BY <2>1, <3>1, <3>2, <3>3, CheckedSignIn
    <3> QED BY <3>2, <3>3, <3>4
  <2> QED BY <1>3, <2>2, <2>3, <2>4 DEF CheckDemo
<1>4. CASE HandleMe(r)
  <2>1. r.kind = "me" /\ r.at = "sent"
    BY <1>4 DEF HandleMe
  <2>2. CASE Authenticated(r) /\ Active(tokens[jar[r.no]].user)
    <3>1. PICK u \in Users, v \in Nat :
            /\ r.no # 0 /\ u = tokens[jar[r.no]].user
            /\ v = version[u] /\ v \in 1..version[u]
      <4>1. /\ r.no # 0 /\ tokens[jar[r.no]].user \in Users
            /\ version[tokens[jar[r.no]].user] \in Nat
            /\ version[tokens[jar[r.no]].user] \in 1..version[tokens[jar[r.no]].user]
        BY <2>2, RequestFacts DEF Authenticated
      <4> QED BY <4>1
    <3> DEFINE s == [r EXCEPT !.at = "answered", !.status = 200, !.user = u, !.version = v]
    <3>2. /\ s \in Wire /\ s.kind = r.kind /\ s.tab = r.tab /\ s.page = r.page
          /\ s.no = r.no /\ s.user = u /\ s.version = v
          /\ s.token = r.token /\ s.at = "answered" /\ s.status = 200
      BY <1>1, <1>200, ZenonT(60) DEF Wire
    <3>3. Replace(r, s)
      BY <1>4, <2>2, <3>1 DEF HandleMe
    <3>4. Handled(r, s)
      BY <3>2, <3>3 DEF Handled, Replace
    <3> HIDE DEF s
    <3>5. SignInTrue(s) /\ LogoutTrue(s)
      BY <2>1, <3>2, "answered" # "checked" DEF SignInTrue, LogoutTrue
    <3>6. AnswerTrue(s)
      BY <2>1, <3>1, <3>2 DEF AnswerTrue
    <3> QED BY <1>1, <3>2, <3>4, <3>5, <3>6 DEF RequestTrue
  <2>3. CASE ~(Authenticated(r) /\ Active(tokens[jar[r.no]].user))
    <3>1. Answer(r, 401)
      BY <1>4, <2>3 DEF HandleMe
    <3>2. r.no = 0 \/ NoGood(r.no)
      <4>1. CASE ~Authenticated(r)
        BY <4>1 DEF Authenticated, NoGood
      <4>2. ASSUME r.no # 0, ~Active(tokens[jar[r.no]].user)
            PROVE  NoGood(r.no)
        <5> DEFINE u == tokens[jar[r.no]].user
        <5>1. version[u] \in Nat /\ tokens[jar[r.no]].version \in 1..version[u]
          BY <4>2, RequestFacts
        <5>2. version[u] \in tokens[jar[r.no]].version..version[u]
          BY <5>1
        <5> QED BY <4>2, <5>2 DEF NoGood, DeactivatedSince, Active
      <4> QED BY <2>3, <4>1, <4>2 DEF Authenticated
    <3> QED BY <2>1, <3>1, <3>2, PlainAnswer DEF Statuses
  <2> QED BY <2>2, <2>3
<1>5. CASE HandleLoad(r)
  <2>1. r.kind = "load" /\ r.at = "sent"
    BY <1>5 DEF HandleLoad
  <2>2. CASE ~Authenticated(r)
    <3>1. Answer(r, 401)
      BY <1>5, <2>2 DEF HandleLoad
    <3>2. r.no = 0 \/ NoGood(r.no)
      BY <2>2 DEF Authenticated, NoGood
    <3> QED BY <2>1, <3>1, <3>2, PlainAnswer DEF Statuses
  <2>3. CASE Authenticated(r) /\ RoleIn(jar[r.no]) \notin PageRoles
    <3>1. Answer(r, 403)
      BY <1>5, <2>3 DEF HandleLoad
    <3> QED BY <2>1, <2>3, <3>1, PlainAnswer DEF Statuses, Authenticated
  <2>4. CASE Authenticated(r) /\ RoleIn(jar[r.no]) \in PageRoles
    <3>1. PICK u \in Users : r.no # 0 /\ u = tokens[jar[r.no]].user
      BY <2>4, RequestFacts DEF Authenticated
    <3> DEFINE s == [r EXCEPT !.at = "answered", !.status = 200, !.user = u]
    <3>2. /\ s \in Wire /\ s.kind = r.kind /\ s.tab = r.tab /\ s.page = r.page
          /\ s.no = r.no /\ s.token = r.token /\ s.at = "answered" /\ s.status = 200
      BY <1>1, <1>200 DEF Wire
    <3>3. Replace(r, s)
      BY <1>5, <2>4, <3>1 DEF HandleLoad
    <3>4. Handled(r, s)
      BY <3>2, <3>3 DEF Handled, Replace
    <3> HIDE DEF s
    <3>5. SignInTrue(s) /\ LogoutTrue(s)
      BY <2>1, <3>2, "answered" # "checked" DEF SignInTrue, LogoutTrue
    <3>6. AnswerTrue(s)
      BY <2>1, <3>1, <3>2 DEF AnswerTrue
    <3> QED BY <1>1, <3>2, <3>4, <3>5, <3>6 DEF RequestTrue
  <2> QED BY <2>2, <2>3, <2>4
<1>6. CASE HandleLogout(r)
  <2>1. r.kind = "logout" /\ Answer(r, 200)
    BY <1>6 DEF HandleLogout
  <2> QED BY <2>1, PlainAnswer DEF Statuses
<1>7. CASE RequestFails(r)
  <2>1. Answer(r, 500)
    BY <1>7 DEF RequestFails
  <2> QED BY <2>1, PlainAnswer DEF Statuses
<1> QED BY <1>2, <1>3, <1>4, <1>5, <1>6, <1>7 DEF Handle

\* A cookie stays whose it was.
LEMMA CookiesStay ==
  ASSUME SessionTypes, Grows, NEW i \in DOMAIN jar
  PROVE  /\ i \in Nat /\ jar'[i] = jar[i] /\ jar[i] \in DOMAIN tokens
         /\ tokens'[jar[i]] = tokens[jar[i]] /\ tokens[jar[i]].user \in Users
<1>1. i \in Nat /\ jar'[i] = jar[i] /\ jar[i] \in DOMAIN tokens
  BY SessionRows DEF SessionTypes, Grows
<1>2. tokens'[jar[i]] = tokens[jar[i]]
  BY <1>1 DEF Grows
<1>3. tokens[jar[i]].user \in Users
  BY <1>1, SessionRows DEF SessionTypes
<1> QED BY <1>1, <1>2, <1>3

\* A step that shows no page anything new: what is on the wire was there before,
\* or has come further, or is a sign-in or a sign-out.
LEMMA PagesUntouched ==
  ASSUME TabsInv, SessionTypes', TabTypes', TokensTrue', Grows,
         UNCHANGED <<jar, page, profile, shown, refused>>,
         \A q \in wire' : RequestTrue(q)',
         \A q \in wire' : q.kind \in {"me", "load"} => \E p \in wire :
           q.kind = p.kind /\ q.tab = p.tab /\ q.page = p.page /\ q.no = p.no,
         AsksOnce'
  PROVE  TabsInv'
<1>1. TabTypes'
  OBVIOUS
<1>2. UNCHANGED <<jar, page, profile, shown, refused>>
  OBVIOUS
<1>3. ASSUME NEW q \in wire', q.kind \in {"me", "load"}
      PROVE  InOrder(q)'
  <2>1. PICK p \in wire :
          q.kind = p.kind /\ q.tab = p.tab /\ q.page = p.page /\ q.no = p.no
    BY <1>3
  <2>2. InOrder(p)
    BY DEF TabsInv
  <2> QED BY <1>2, <2>1, <2>2 DEF InOrder, MayLoad, AccountOf
<1>4. ASSUME NEW t \in Tabs, profile[t].no # 0
      PROVE  profile[t].no \in DOMAIN jar /\ tokens'[jar[profile[t].no]] = tokens[jar[profile[t].no]]
  <2>1. profile[t].no \in Nat /\ profile[t].no <= Len(jar)
    BY DEF TabsInv, TabTypes, ProfileTrue
  <2>2. profile[t].no \in DOMAIN jar
    BY <1>4, <2>1, SessionRows DEF TabsInv, SessionTypes
  <2> QED BY <2>2, CookiesStay DEF TabsInv
<1>5. ASSUME NEW t \in Tabs
      PROVE  ProfileTrue(t)'
  <2>1. ProfileTrue(t)
    BY DEF TabsInv
  <2> QED BY <1>2, <1>4, <2>1 DEF ProfileTrue
<1>6. DataNotOlderThanProfile'
  BY <1>2 DEF TabsInv, DataNotOlderThanProfile
<1>7. RefusalsExplained'
  <2> SUFFICES ASSUME NEW t \in refused'
               PROVE  (Len(jar) > profile[t].no
                         \/ tokens[jar[profile[t].no]].version # profile[t].version)'
    BY DEF RefusalsExplained
  <2>1. t \in refused /\ t \in Tabs
    BY <1>2 DEF TabsInv, TabTypes
  <2>2. profile[t].no # 0
    BY <2>1 DEF TabsInv, ProfileTrue
  <2>3. Len(jar) > profile[t].no \/ tokens[jar[profile[t].no]].version # profile[t].version
    BY <2>1 DEF TabsInv, RefusalsExplained
  <2> QED BY <1>2, <1>4, <2>1, <2>2, <2>3
<1>8. ASSUME NEW q \in wire', q.kind \notin {"me", "load"}
      PROVE  InOrder(q)'
  BY <1>8 DEF InOrder
<1> QED BY <1>1, <1>3, <1>5, <1>6, <1>7, <1>8 DEF TabsInv

\* An account, a token or the cookie reaches its end.
LEMMA EndsKeepInv ==
  ASSUME TabsInv, AccountChanges \/ CookieExpires, UNCHANGED tabVars
  PROVE  TabsInv'
<1>1. UNCHANGED <<tokens, jar, wire, page>>
  BY DEF AccountChanges, ChangeAccount, Expire, CookieExpires, tabVars
<1>2. SessionTypes /\ TokensTrue
  BY DEF TabsInv
<1>3. /\ version' \in [Users -> Nat] /\ \A u \in Users : version'[u] \in DOMAIN History[u]
      /\ \A u \in Users : version[u] <= version'[u]
  <2>1. ASSUME NEW u \in Users, ChangeAccount(u)
        PROVE  /\ version' \in [Users -> Nat]
               /\ \A v \in Users : version'[v] \in DOMAIN History[v]
               /\ \A v \in Users : version[v] <= version'[v]
    <3>1. version \in [Users -> Nat] /\ \A v \in Users : version[v] \in DOMAIN History[v]
      BY <1>2 DEF SessionTypes
    <3>2. version[u] < Len(History[u]) /\ version' = [version EXCEPT ![u] = @ + 1]
      BY <2>1 DEF ChangeAccount
    <3>3. Len(History[u]) \in Nat /\ DOMAIN History[u] = 1..Len(History[u])
      BY SessionAssumption, SequenceFacts
    <3>4. version[u] + 1 \in DOMAIN History[u] /\ version[u] \in Nat
      BY <3>1, <3>2, <3>3
    <3> QED BY <3>1, <3>2, <3>4
  <2>2. CASE UNCHANGED version
    <3>1. version \in [Users -> Nat] /\ \A v \in Users : version[v] \in DOMAIN History[v]
      BY <1>2 DEF SessionTypes
    <3> QED BY <2>2, <3>1
  <2> QED BY <2>1, <2>2 DEF AccountChanges, Expire, CookieExpires
<1>4. alive' \subseteq alive /\ cookie' \in {0, Len(jar)}
  BY <1>2 DEF AccountChanges, ChangeAccount, Expire, CookieExpires, SessionTypes
<1>5. SessionTypes'
  BY <1>1, <1>2, <1>3, <1>4 DEF SessionTypes
<1>6. Grows
  <2>1. Len(tokens) \in Nat /\ Len(jar) \in Nat
    BY <1>2, SessionRows DEF SessionTypes
  <2>2. \A t \in Tabs : page[t] \in Nat
    BY DEF TabsInv, TabTypes
  <2> QED BY <1>1, <1>3, <1>4, <2>1, <2>2 DEF Grows
<1>7. TokensTrue'
  <2>1. ASSUME NEW n \in DOMAIN tokens
        PROVE  ReadActive(tokens[n].user, tokens[n].version)'
    <3>1. ReadActive(tokens[n].user, tokens[n].version)
      BY <1>2 DEF TokensTrue
    <3>2. tokens[n].user \in Users /\ tokens[n].version \in Nat
      BY <1>2, SessionRows DEF SessionTypes
    <3> QED BY <1>1, <1>2, <1>5, <1>6, <3>1, <3>2, ReadingsStay
  <2> QED BY <1>1, <2>1 DEF TokensTrue
<1>8. TabTypes /\ TabTypes'
  BY DEF TabsInv, TabTypes, tabVars
<1>9. \A q \in wire' : RequestTrue(q)'
  <2>1. ASSUME NEW q \in wire
        PROVE  RequestTrue(q)'
    <3>1. q \in Wire /\ RequestTrue(q)
      BY RequestFacts
    <3> QED BY <1>2, <1>5, <1>6, <1>8, <3>1, RequestsStayTrue
  <2> QED BY <1>1, <2>1
<1>10. AsksOnce'
  BY <1>1 DEF TabsInv, AsksOnce
<1> QED BY <1>1, <1>5, <1>6, <1>7, <1>8, <1>9, <1>10, PagesUntouched DEF tabVars

\* The token that is signed names an account that was active when it was read.
LEMMA IssueTokenFacts ==
  ASSUME TabsInv, NEW r \in wire, IssueToken(r), UNCHANGED tabVars
  PROVE  /\ SessionTypes' /\ Grows /\ TokensTrue'
         /\ \E s \in Wire : Handled(r, s) /\ RequestTrue(s)'
<1> DEFINE new == [user |-> r.user, version |-> r.version]
<1>1. r \in Wire /\ RequestTrue(r) /\ SignInTrue(r)
  BY RequestFacts DEF RequestTrue
<1>2. r.user \in Users /\ r.version \in Nat /\ r.kind \in {"login", "demo"}
      /\ ReadActive(r.user, r.version)
  BY <1>1 DEF IssueToken, SignInTrue, Wire
<1>3. SessionTypes /\ TabTypes /\ TokensTrue
  BY DEF TabsInv
<1>4. /\ UNCHANGED <<version, jar, cookie, page>>
      /\ tokens' = Append(tokens, new) /\ alive' = alive \cup {Len(tokens')}
      /\ Len(tokens) < MaxTokens
  BY DEF IssueToken, tabVars
<1>5. tokens \in Seq([user : Users, version : Nat]) /\ new \in [user : Users, version : Nat]
  BY <1>2, <1>3 DEF SessionTypes
<1>6. /\ Len(tokens) \in Nat /\ Len(jar) \in Nat /\ DOMAIN tokens = 1..Len(tokens)
      /\ DOMAIN jar = 1..Len(jar)
  BY <1>3, SessionRows DEF SessionTypes
<1>0. PICK k \in Nat : k = Len(tokens) + 1
  BY <1>6
<1>7. /\ tokens' \in Seq([user : Users, version : Nat])
      /\ Len(tokens') = k /\ DOMAIN tokens' = 1..k
      /\ \A n \in DOMAIN tokens : tokens'[n] = tokens[n]
      /\ tokens'[k] = new
  BY <1>4, <1>5, <1>6, <1>0, AppendFacts
<1>8. MaxTokens \in Nat
  BY SessionAssumption
<1> DEFINE s == [r EXCEPT !.at = "answered", !.status = 200, !.token = k]
<1>9. 200 \in Statuses
  BY DEF Statuses
<1>10. /\ s \in Wire /\ s.kind = r.kind /\ s.tab = r.tab /\ s.page = r.page /\ s.no = r.no
       /\ s.user = r.user /\ s.token = k /\ s.at = "answered" /\ s.status = 200
  BY <1>1, <1>6, <1>9, ZenonT(60) DEF Wire
<1>11. wire' = (wire \ {r}) \cup {s}
  BY <1>7 DEF IssueToken, Replace
<1> HIDE DEF s, new
<1>12. SessionTypes'
  <2>1. wire' \subseteq Wire
    BY <1>3, <1>10, <1>11 DEF SessionTypes
  <2>2. alive' \subseteq DOMAIN tokens' /\ \A i \in DOMAIN jar : jar[i] \in DOMAIN tokens'
    <3>1. alive \subseteq DOMAIN tokens /\ \A i \in DOMAIN jar : jar[i] \in DOMAIN tokens
      BY <1>3 DEF SessionTypes
    <3> QED BY <3>1, <1>4, <1>6, <1>7, <1>0
  <2>3. Len(tokens') <= MaxTokens
    BY <1>4, <1>6, <1>7, <1>8, <1>0
  <2>4. /\ version' \in [Users -> Nat] /\ \A u \in Users : version'[u] \in DOMAIN History[u]
        /\ jar' \in Seq(Nat) /\ cookie' \in {0, Len(jar')}
    BY <1>3, <1>4 DEF SessionTypes
  <2> QED BY <1>4, <1>7, <2>1, <2>2, <2>3, <2>4 DEF SessionTypes
<1>13. Grows
  <2>1. \A u \in Users : version[u] \in Nat
    BY <1>3 DEF SessionTypes
  <2>2. \A t \in Tabs : page[t] \in Nat
    BY <1>3 DEF TabTypes
  <2>3. k \notin DOMAIN tokens
    BY <1>6, <1>0
  <2>4. alive' \cap DOMAIN tokens \subseteq alive
    BY <1>4, <1>7, <2>3
  <2> QED BY <1>4, <1>6, <1>7, <1>0, <2>1, <2>2, <2>4 DEF Grows
<1>14. TokensTrue'
  <2>1. ASSUME NEW n \in DOMAIN tokens
        PROVE  ReadActive(tokens[n].user, tokens[n].version)'
    <3>1. ReadActive(tokens[n].user, tokens[n].version)
      BY <1>3 DEF TokensTrue
    <3>2. tokens'[n] = tokens[n]
      BY <1>7
    <3> QED BY <1>4, <3>1, <3>2 DEF ReadActive, AccountOf
  <2>2. ReadActive(tokens[k].user, tokens[k].version)'
    <3>1. tokens'[k].user = r.user /\ tokens'[k].version = r.version
      BY <1>7 DEF new
    <3> QED BY <1>2, <1>4, <3>1 DEF ReadActive, AccountOf
  <2> QED BY <1>6, <1>7, <1>0, <2>1, <2>2 DEF TokensTrue
<1>15. RequestTrue(s)'
  <2>1. TabTypes'
    BY <1>3 DEF TabTypes, tabVars
  <2>2. RequestTrue(r)'
    BY <1>1, <1>3, <1>12, <1>13, <2>1, RequestsStayTrue
  <2>3. SignInTrue(s)'
    BY <1>6, <1>0, <1>10, "answered" # "checked", <2>2, <1>2 DEF SignInTrue, RequestTrue
  <2>4. AnswerTrue(s)' /\ LogoutTrue(s)'
    BY <1>2, <1>10 DEF AnswerTrue, LogoutTrue
  <2> QED BY <1>6, <1>0, <1>7, <1>10, <2>2, <2>3, <2>4 DEF RequestTrue
<1> QED BY <1>10, <1>11, <1>12, <1>13, <1>14, <1>15 DEF Handled

\* The API keeps the invariant, whatever it answers.
LEMMA HandleKeepsInv ==
  ASSUME TabsInv, NEW r \in wire, Handle(r), UNCHANGED tabVars
  PROVE  TabsInv'
<1>1. SessionTypes /\ TabTypes /\ TokensTrue
  BY DEF TabsInv
<1>2. TabTypes'
  BY <1>1 DEF TabTypes, tabVars
<1>3. jar' = jar
  BY DEF Handle, CheckLogin, CheckDemo, IssueToken, HandleMe, HandleLoad, HandleLogout,
         RequestFails
<1>4. /\ SessionTypes' /\ Grows /\ TokensTrue'
      /\ \E s \in Wire : Handled(r, s) /\ RequestTrue(s)'
  <2>1. CASE IssueToken(r)
    BY <2>1, IssueTokenFacts
  <2>2. CASE ~IssueToken(r)
    <3>1. PICK s \in Wire : Handled(r, s) /\ RequestTrue(s)
      BY <2>2, HandlersAnswerTrue
    <3>2. UNCHANGED <<version, tokens, alive, jar, cookie, page>>
      BY <2>2 DEF Handle, CheckLogin, CheckDemo, HandleMe, HandleLoad, HandleLogout,
                  RequestFails, tabVars
    <3>3. wire' \subseteq Wire
      BY <1>1, <3>1 DEF SessionTypes, Handled
    <3>4. SessionTypes'
      BY <1>1, <3>2, <3>3 DEF SessionTypes
    <3>5. Grows
      <4>1. Len(tokens) \in Nat /\ Len(jar) \in Nat
        BY <1>1, SessionRows DEF SessionTypes
      <4>2. \A t \in Tabs : page[t] \in Nat
        BY <1>1 DEF TabTypes
      <4>3. \A u \in Users : version[u] \in Nat
        BY <1>1 DEF SessionTypes
      <4> QED BY <3>2, <4>1, <4>2, <4>3 DEF Grows
    <3>6. TokensTrue'
      BY <1>1, <3>2 DEF TokensTrue, ReadActive, AccountOf
    <3>7. RequestTrue(s)'
      BY <1>1, <1>2, <3>1, <3>4, <3>5, RequestsStayTrue
    <3> QED BY <3>1, <3>4, <3>5, <3>6, <3>7
  <2> QED BY <2>1, <2>2
<1>5. PICK s \in Wire : Handled(r, s) /\ RequestTrue(s)'
  BY <1>4
<1>6. ASSUME NEW q \in wire'
      PROVE  /\ RequestTrue(q)'
             /\ \E p \in wire :
                  q.kind = p.kind /\ q.tab = p.tab /\ q.page = p.page /\ q.no = p.no
  <2>1. CASE q = s
    BY <1>5, <2>1 DEF Handled
  <2>2. CASE q # s
    <3>1. q \in wire
      BY <1>5, <2>2 DEF Handled
    <3>2. q \in Wire /\ RequestTrue(q)
      BY <3>1, RequestFacts
    <3>3. RequestTrue(q)'
      BY <1>1, <1>2, <1>4, <3>2, RequestsStayTrue
    <3> QED BY <3>1, <3>3
  <2> QED BY <2>1, <2>2
<1>7. AsksOnce'
  <2>1. AsksOnce
    BY DEF TabsInv
  <2> QED BY <2>1, <1>5 DEF AsksOnce, Handled
<1> QED BY <1>2, <1>3, <1>4, <1>6, <1>7, PagesUntouched DEF tabVars

-----------------------------------------------------------------------------
(* The tabs.                                                               *)

\* A step of a tab leaves accounts and tokens alone, and may set a cookie.
LEMMA TabsOnly ==
  ASSUME TabsInv, TabTypes', UNCHANGED <<version, tokens, alive>>,
         \/ jar' = jar
         \/ \E k \in DOMAIN tokens : jar' = Append(jar, k),
         cookie' \in {0, Len(jar')}, wire' \subseteq Wire,
         \A t \in Tabs : page[t] <= page'[t]
  PROVE  /\ SessionTypes' /\ TokensTrue' /\ Grows
         /\ \A r \in wire : RequestTrue(r)'
<1>1. SessionTypes /\ TokensTrue /\ TabTypes
  BY DEF TabsInv
<1>2. /\ jar \in Seq(Nat) /\ Len(jar) \in Nat /\ DOMAIN jar = 1..Len(jar)
      /\ \A i \in DOMAIN jar : jar[i] \in DOMAIN tokens
      /\ Len(tokens) \in Nat /\ \A n \in DOMAIN tokens : n \in Nat
  BY <1>1, SessionRows DEF SessionTypes
<1>3. /\ jar' \in Seq(Nat) /\ Len(jar) <= Len(jar')
      /\ \A i \in DOMAIN jar : jar'[i] = jar[i]
      /\ \A i \in DOMAIN jar' : jar'[i] \in DOMAIN tokens
  <2>1. CASE jar' = jar
    BY <1>2, <2>1
  <2>2. ASSUME NEW k \in DOMAIN tokens, jar' = Append(jar, k)
        PROVE  /\ jar' \in Seq(Nat) /\ Len(jar) <= Len(jar')
               /\ \A i \in DOMAIN jar : jar'[i] = jar[i]
               /\ \A i \in DOMAIN jar' : jar'[i] \in DOMAIN tokens
    <3>0. k \in Nat
      BY <1>2
    <3> DEFINE longer == Append(jar, k)
    <3>1. /\ longer \in Seq(Nat) /\ Len(longer) = Len(jar) + 1
          /\ DOMAIN longer = 1..(Len(jar) + 1)
          /\ \A i \in DOMAIN jar : longer[i] = jar[i]
          /\ longer[Len(jar) + 1] = k
      <4> HIDE DEF longer
      <4>1. jar \in Seq(Nat)
        BY <1>2
      <4> QED BY <4>1, <3>0, AppendFacts DEF longer
    <3>2. jar' = longer
      BY <2>2
    <3> HIDE DEF longer
    <3> QED BY <1>2, <3>1, <3>2
  <2> QED BY <2>1, <2>2
<1>4. SessionTypes'
  BY <1>1, <1>3 DEF SessionTypes
<1>5. TokensTrue'
  BY <1>1 DEF TokensTrue, ReadActive, AccountOf
<1>6. Grows
  <2>1. \A u \in Users : version[u] \in Nat
    BY <1>1 DEF SessionTypes
  <2> QED BY <1>2, <1>3, <2>1 DEF Grows
<1>7. ASSUME NEW r \in wire
      PROVE  RequestTrue(r)'
  <2>1. r \in Wire /\ RequestTrue(r)
    BY RequestFacts
  <2> QED BY <1>1, <1>4, <1>6, <2>1, RequestsStayTrue
<1> QED BY <1>4, <1>5, <1>6, <1>7

\* A request that has just been sent is right about what it goes back to.
LEMMA FreshRequestTrue ==
  ASSUME TabTypes', NEW r \in Wire, r.at = "sent", r.status = 0, r.token = 0,
         r.page <= page'[r.tab], r.no <= Len(jar'), Len(tokens') \in Nat,
         r.kind = "login" => r.user \in Users,
         r.kind = "logout" => \/ r.cause \in {0, Nothing}
                              \/ r.cause \in DOMAIN jar' /\ NoGood(r.cause)'
  PROVE  RequestTrue(r)'
<1>1. SignInTrue(r)' /\ AnswerTrue(r)' /\ LogoutTrue(r)'
  BY "sent" # "checked" DEF SignInTrue, AnswerTrue, LogoutTrue
<1> QED BY <1>1 DEF RequestTrue

LEMMA WireFacts ==
  ASSUME TabsInv, NEW r \in wire
  PROVE  /\ r.kind \in {"login", "demo", "logout", "me", "load"} /\ r.tab \in Tabs
         /\ r.page \in Nat /\ page[r.tab] \in Nat /\ r.page <= page[r.tab]
         /\ r.no \in Nat /\ r.version \in Nat /\ r.token \in Nat /\ r.cause \in Int
         /\ r.user \in Users \cup {"nobody"} /\ r.status \in Statuses
<1>1. r \in Wire /\ RequestTrue(r)
  BY RequestFacts
<1>2. r.tab \in Tabs
  BY <1>1 DEF Wire
<1>3. page[r.tab] \in Nat
  BY <1>2 DEF TabsInv, TabTypes
<1> QED BY <1>1, <1>2, <1>3 DEF Wire, RequestTrue

\* A tab that leaves its page starts from nothing.
LEMMA ShowKeepsInv ==
  ASSUME TabsInv, NEW t \in Tabs, NEW where \in {"login", "home", "internal"},
         Show(t, where), clicks' \in 0..MaxClicks,
         UNCHANGED <<version, tokens, alive>>,
         \/ jar' = jar
         \/ \E k \in DOMAIN tokens : jar' = Append(jar, k),
         cookie' \in {0, Len(jar')},
         wire' \subseteq wire \cup {Request("me", t, page[t] + 1, cookie', "nobody", 0)}
  PROVE  TabsInv'
<1>1. TabTypes /\ SessionTypes /\ AsksOnce
  BY DEF TabsInv
<1>2. /\ page[t] \in Nat /\ page'[t] = page[t] + 1
      /\ profile'[t] = NoProfile /\ shown'[t] = 0 /\ t \notin refused'
      /\ refused' \subseteq refused
      /\ \A s \in Tabs \ {t} : /\ page'[s] = page[s] /\ profile'[s] = profile[s]
                               /\ shown'[s] = shown[s]
  BY <1>1 DEF Show, TabTypes
<1>3. TabTypes'
  <2>1. NoProfile \in [user : Users \cup {"nobody"}, version : Nat, no : Nat]
    BY DEF NoProfile
  <2>2. /\ at' \in [Tabs -> {"login", "home", "internal"}]
        /\ loading' \in [Tabs -> BOOLEAN]
        /\ shown' \in [Tabs -> Nat] /\ refused' \subseteq Tabs
    BY <1>1 DEF Show, TabTypes
  <2>3. page' \in [Tabs -> Nat \ {0}]
    BY <1>1 DEF Show, TabTypes
  <2>4. profile' \in [Tabs -> [user : Users \cup {"nobody"}, version : Nat, no : Nat]]
    BY <1>1, <2>1 DEF Show, TabTypes
  <2> QED BY <2>2, <2>3, <2>4 DEF TabTypes
<1>4. Len(jar') \in Nat /\ cookie' \in Nat /\ cookie' <= Len(jar')
  <2>1. jar \in Seq(Nat) /\ \A k \in DOMAIN tokens : k \in Nat
    BY <1>1, SessionRows DEF SessionTypes
  <2>2. jar' \in Seq(Nat)
    BY <2>1, AppendFacts
  <2>3. Len(jar') \in Nat
    BY <2>2
  <2> QED BY <2>3
<1>5. PICK n \in Nat, no \in Nat : n = page[t] + 1 /\ no = cookie'
  BY <1>2, <1>4
<1>6. PICK fresh : fresh = Request("me", t, n, no, "nobody", 0)
  OBVIOUS
<1>7. /\ fresh \in Wire
      /\ fresh.kind = "me" /\ fresh.tab = t /\ fresh.page = page[t] + 1
      /\ fresh.no = cookie' /\ fresh.at = "sent" /\ fresh.status = 0 /\ fresh.token = 0
  <2>1. /\ fresh \in Wire
        /\ fresh.kind = "me" /\ fresh.tab = t /\ fresh.page = n /\ fresh.no = no
        /\ fresh.at = "sent" /\ fresh.status = 0 /\ fresh.token = 0
    <3>1. 0 \in Statuses
      BY DEF Statuses
    <3> QED BY <1>6, <3>1 DEF Request, Wire
  <2> QED BY <1>5, <2>1
<1>8. wire' \subseteq Wire /\ wire' \subseteq wire \cup {fresh}
  BY <1>1, <1>5, <1>6, <1>7 DEF SessionTypes
<1>9. \A s \in Tabs : page[s] <= page'[s]
  <2>1. \A s \in Tabs : page[s] \in Nat
    BY <1>1 DEF TabTypes
  <2> QED BY <1>2, <2>1
<1>10. /\ SessionTypes' /\ TokensTrue' /\ Grows
      /\ \A r \in wire : RequestTrue(r)'
  BY <1>3, <1>8, <1>9, TabsOnly
<1>11. RequestTrue(fresh)'
  <2>1. Len(tokens') \in Nat
    BY <1>1, SessionRows DEF SessionTypes
  <2>2. fresh.page <= page'[fresh.tab]
    BY <1>2, <1>7
  <2> QED BY <1>3, <1>4, <1>7, <2>1, <2>2, FreshRequestTrue
<1>12. ASSUME NEW q \in wire'
       PROVE  RequestTrue(q)' /\ InOrder(q)'
  <2>1. CASE q = fresh
    BY <1>2, <1>7, <1>11, <2>1 DEF InOrder, NoProfile
  <2>2. CASE q \in wire
    <3>1. RequestTrue(q)'
      BY <1>10, <2>2
    <3>2. InOrder(q) /\ q.tab \in Tabs /\ q.page \in Nat /\ q.page <= page[q.tab]
      BY <2>2, WireFacts DEF TabsInv
    <3>3. CASE q.tab = t
      BY <1>2, <3>1, <3>2, <3>3 DEF InOrder
    <3>4. CASE q.tab # t
      BY <1>2, <3>1, <3>2, <3>4 DEF InOrder, MayLoad, AccountOf
    <3> QED BY <3>3, <3>4
  <2> QED BY <1>8, <2>1, <2>2
<1>13. ASSUME NEW s \in Tabs \ {t}, profile[s].no # 0
       PROVE  /\ profile[s].no \in DOMAIN jar
              /\ jar'[profile[s].no] = jar[profile[s].no]
              /\ profile[s].no \in Nat
  <2>1. profile[s].no \in Nat /\ profile[s].no <= Len(jar)
    BY <1>1 DEF TabsInv, TabTypes, ProfileTrue
  <2>2. profile[s].no \in DOMAIN jar
    BY <1>1, <1>13, <2>1, SessionRows DEF SessionTypes
  <2> QED BY <1>10, <2>1, <2>2 DEF Grows
<1>14. Len(jar) \in Nat /\ Len(jar) <= Len(jar')
  BY <1>1, <1>10, SessionRows DEF SessionTypes, Grows
<1>15. ASSUME NEW s \in Tabs
       PROVE  ProfileTrue(s)'
  <2>1. CASE s = t
    BY <1>2, <1>4, <2>1 DEF ProfileTrue, NoProfile
  <2>2. CASE s # t
    <3>1. ProfileTrue(s)
      BY DEF TabsInv
    <3>2. profile[s].no \in Nat /\ shown[s] \in Nat
      BY <1>1 DEF TabTypes
    <3> QED BY <1>2, <1>4, <1>13, <1>14, <2>2, <3>1, <3>2 DEF ProfileTrue
  <2> QED BY <2>1, <2>2
<1>16. AsksOnce'
  <2>1. \A q \in wire : q.tab = t => q.page # fresh.page
    BY <1>2, <1>7, WireFacts
  <2> QED BY <1>1, <1>7, <1>8, <2>1 DEF AsksOnce
<1>17. DataNotOlderThanProfile'
  <2>1. DataNotOlderThanProfile
    BY DEF TabsInv
  <2> QED BY <1>2, <2>1 DEF DataNotOlderThanProfile
<1>18. RefusalsExplained'
  <2> SUFFICES ASSUME NEW s \in refused'
               PROVE  (Len(jar) > profile[s].no
                         \/ tokens[jar[profile[s].no]].version # profile[s].version)'
    BY DEF RefusalsExplained
  <2>1. s \in refused /\ s \in Tabs \ {t}
    BY <1>1, <1>2 DEF TabTypes
  <2>2. profile[s].no # 0
    BY <2>1 DEF TabsInv, ProfileTrue
  <2>3. Len(jar) > profile[s].no \/ tokens[jar[profile[s].no]].version # profile[s].version
    BY <2>1 DEF TabsInv, RefusalsExplained
  <2> QED BY <1>2, <1>4, <1>13, <1>14, <2>1, <2>2, <2>3
<1> QED BY <1>3, <1>10, <1>12, <1>15, <1>16, <1>17, <1>18 DEF TabsInv

\* A sign-in or a sign-out is sent, or an answer is dropped.
LEMMA SendKeepsInv ==
  ASSUME TabsInv, TabTypes',
         UNCHANGED <<version, tokens, alive, jar, cookie, page, profile, shown, refused>>,
         NEW sent \in SUBSET Wire, wire' \subseteq wire \cup sent,
         \A s \in sent :
           /\ s.kind \in {"login", "demo", "logout"}
           /\ s.at = "sent" /\ s.status = 0 /\ s.token = 0
           /\ s.page <= page[s.tab] /\ s.no <= Len(jar)
           /\ s.kind = "login" => s.user \in Users
           /\ LogoutTrue(s)
  PROVE  TabsInv'
<1>1. SessionTypes /\ AsksOnce
  BY DEF TabsInv
<1>2. wire' \subseteq Wire /\ cookie' \in {0, Len(jar')}
  BY <1>1 DEF SessionTypes
<1>3. \A t \in Tabs : page[t] <= page'[t]
  BY DEF TabsInv, TabTypes
<1>4. /\ SessionTypes' /\ TokensTrue' /\ Grows
      /\ \A r \in wire : RequestTrue(r)'
  BY <1>2, <1>3, TabsOnly
<1>5. Len(tokens) \in Nat
  BY <1>1, SessionRows DEF SessionTypes
<1>6. ASSUME NEW s \in sent
      PROVE  RequestTrue(s)'
  <2>1. s.kind = "logout" => \/ s.cause \in {0, Nothing}
                             \/ s.cause \in DOMAIN jar' /\ NoGood(s.cause)'
    BY DEF LogoutTrue, NoGood, DeactivatedSince, AccountOf
  <2> QED BY <1>5, <2>1, FreshRequestTrue
<1>7. \A q \in wire' : RequestTrue(q)' /\ (q.kind \in {"me", "load"} => q \in wire)
  BY <1>4, <1>6
<1>8. AsksOnce'
  BY <1>1, <1>7 DEF AsksOnce
<1> QED BY <1>4, <1>7, <1>8, PagesUntouched

LEMMA OpenKeepsInv ==
  ASSUME TabsInv, NEW t \in Tabs, NEW where \in {"login", "internal"}, Open(t, where)
  PROVE  TabsInv'
<1>1. /\ Show(t, where) /\ UNCHANGED <<version, tokens, alive, jar, cookie>>
      /\ wire' = wire \cup Opening(t, where, cookie)
  BY DEF Open
<1>2. clicks' \in 0..MaxClicks
  BY TabsAssumption DEF Open, Click, TabsInv, TabTypes
<1>3. cookie' \in {0, Len(jar')}
  BY <1>1 DEF TabsInv, SessionTypes
<1>4. wire' \subseteq wire \cup {Request("me", t, page[t] + 1, cookie', "nobody", 0)}
  BY <1>1 DEF Opening
<1> QED BY <1>1, <1>2, <1>3, <1>4, ShowKeepsInv

LEMMA SubmitKeepsInv ==
  ASSUME TabsInv, NEW t \in Tabs, NEW kind \in {"login", "demo"},
         NEW u \in Users \cup {"nobody"}, kind = "login" => u \in Users,
         Submit(t, kind, u)
  PROVE  TabsInv'
<1>1. TabTypes /\ SessionTypes
  BY DEF TabsInv
<1>2. page[t] \in Nat /\ Len(jar) \in Nat /\ cookie \in Nat /\ cookie <= Len(jar)
  <2>1. page[t] \in Nat /\ Len(jar) \in Nat
    BY <1>1, SessionRows DEF SessionTypes, TabTypes
  <2> QED BY <1>1, <2>1 DEF SessionTypes
<1>3. PICK n \in Nat, no \in Nat : n = page[t] /\ no = cookie
  BY <1>2
<1>4. PICK s : s = Request(kind, t, n, no, u, 0)
  OBVIOUS
<1>5. /\ s \in Wire /\ s.kind = kind /\ s.tab = t /\ s.page = page[t] /\ s.no = cookie
      /\ s.user = u /\ s.at = "sent" /\ s.status = 0 /\ s.token = 0
  <2>1. 0 \in Statuses
    BY DEF Statuses
  <2> QED BY <1>3, <1>4, <2>1 DEF Request, Wire
<1>6. TabTypes'
  BY <1>1, TabsAssumption DEF Submit, Click, TabTypes
<1>7. /\ UNCHANGED <<version, tokens, alive, jar, cookie, page, profile, shown, refused>>
      /\ wire' = wire \cup {s}
  BY <1>3, <1>4 DEF Submit
<1>8. {s} \in SUBSET Wire
  BY <1>5
<1>9. LogoutTrue(s)
  BY <1>5 DEF LogoutTrue
<1>10. s.page <= page[s.tab] /\ s.no <= Len(jar)
  BY <1>2, <1>5
<1> QED BY <1>5, <1>6, <1>7, <1>8, <1>9, <1>10, SendKeepsInv

LEMMA SignOutKeepsInv ==
  ASSUME TabsInv, NEW t \in Tabs, SignOut(t)
  PROVE  TabsInv'
<1>1. TabTypes /\ SessionTypes
  BY DEF TabsInv
<1>2. page[t] \in Nat /\ Len(jar) \in Nat /\ cookie \in Nat /\ cookie <= Len(jar)
  <2>1. page[t] \in Nat /\ Len(jar) \in Nat
    BY <1>1, SessionRows DEF SessionTypes, TabTypes
  <2> QED BY <1>1, <2>1 DEF SessionTypes
<1>3. PICK n \in Nat, no \in Nat : n = page[t] /\ no = cookie
  BY <1>2
<1>4. PICK s : s = Request("logout", t, n, no, "nobody", 0)
  OBVIOUS
<1>5. /\ s \in Wire /\ s.kind = "logout" /\ s.tab = t /\ s.page = page[t] /\ s.no = cookie
      /\ s.cause = 0 /\ s.at = "sent" /\ s.status = 0 /\ s.token = 0
  <2>1. 0 \in Statuses
    BY DEF Statuses
  <2> QED BY <1>3, <1>4, <2>1 DEF Request, Wire
<1>6. TabTypes'
  BY <1>1, TabsAssumption DEF SignOut, Click, TabTypes
<1>7. /\ UNCHANGED <<version, tokens, alive, jar, cookie, page, profile, shown, refused>>
      /\ wire' = wire \cup {s}
  BY <1>3, <1>4 DEF SignOut
<1>8. {s} \in SUBSET Wire
  BY <1>5
<1>9. LogoutTrue(s)
  BY <1>5 DEF LogoutTrue
<1>10. s.page <= page[s.tab] /\ s.no <= Len(jar)
  BY <1>2, <1>5
<1> QED BY <1>5, <1>6, <1>7, <1>8, <1>9, <1>10, SendKeepsInv

LEMMA ReceiveSignInKeepsInv ==
  ASSUME TabsInv, NEW r \in wire, ReceiveSignIn(r)
  PROVE  TabsInv'
<1>1. r.tab \in Tabs /\ UNCHANGED <<version, tokens, alive, clicks>>
  BY WireFacts DEF ReceiveSignIn
<1>2. clicks' \in 0..MaxClicks
  BY <1>1 DEF TabsInv, TabTypes
<1>3. CASE r.status = 200
  <2>1. /\ jar' = Append(jar, r.token) /\ cookie' = Len(jar') /\ Show(r.tab, "internal")
        /\ wire' = (wire \ {r}) \cup Opening(r.tab, "internal", cookie')
    BY <1>3 DEF ReceiveSignIn
  <2>2. r.token \in DOMAIN tokens
    <3>1. r.token # 0 /\ r.token <= Len(tokens) /\ r.token \in Nat
      BY <1>3, RequestFacts, WireFacts DEF ReceiveSignIn, RequestTrue, SignInTrue
    <3>2. Len(tokens) \in Nat /\ DOMAIN tokens = 1..Len(tokens)
      BY SessionRows DEF TabsInv, SessionTypes
    <3> QED BY <3>1, <3>2
  <2>3. wire' \subseteq wire \cup {Request("me", r.tab, page[r.tab] + 1, cookie', "nobody", 0)}
    BY <2>1 DEF Opening
  <2> QED BY <1>1, <1>2, <2>1, <2>2, <2>3, ShowKeepsInv
<1>4. CASE r.status # 200
  <2>1. /\ wire' = wire \ {r}
        /\ UNCHANGED <<jar, cookie, at, page, loading, profile, shown, refused>>
    BY <1>4 DEF ReceiveSignIn
  <2>2. TabTypes'
    BY <1>1, <2>1 DEF TabsInv, TabTypes
  <2>3. wire' \subseteq wire \cup {} /\ {} \in SUBSET Wire
    BY <2>1
  <2> QED BY <1>1, <2>1, <2>2, <2>3, SendKeepsInv
<1> QED BY <1>3, <1>4

LEMMA ReceiveLogoutKeepsInv ==
  ASSUME TabsInv, NEW r \in wire, ReceiveLogout(r)
  PROVE  TabsInv'
<1>1. /\ r.tab \in Tabs /\ UNCHANGED <<version, tokens, alive, jar, clicks>>
      /\ wire' = wire \ {r} /\ Show(r.tab, IF r.cause = 0 THEN "home" ELSE "login")
  BY WireFacts DEF ReceiveLogout
<1>2. clicks' \in 0..MaxClicks /\ cookie' \in {0, Len(jar')}
  BY <1>1 DEF ReceiveLogout, TabsInv, TabTypes, SessionTypes
<1>3. PICK where \in {"login", "home", "internal"} : Show(r.tab, where)
  BY <1>1
<1> QED BY <1>1, <1>2, <1>3, ShowKeepsInv

\* A refused page signs out for a cookie that deserved it.
LEMMA SignOutAfterKeepsInv ==
  ASSUME TabsInv, TabTypes', NEW r \in wire, r.kind \in {"me", "load"}, r.status = 401,
         SignOutAfter(r),
         UNCHANGED <<version, tokens, alive, jar, cookie, page, profile, shown, refused>>
  PROVE  TabsInv'
<1>1. /\ r.tab \in Tabs /\ r.page \in Nat /\ r.page <= page[r.tab]
      /\ r.no \in Nat /\ r.no <= Len(jar) /\ (r.no # 0 => r.no \in DOMAIN jar)
      /\ Len(jar) \in Nat /\ (r.no = 0 \/ NoGood(r.no))
  BY RequestFacts, WireFacts DEF RequestTrue, AnswerTrue
<1>2. cookie \in Nat /\ cookie <= Len(jar)
  BY <1>1 DEF TabsInv, SessionTypes
<1>3. PICK no \in Nat, cause \in Int :
        no = cookie /\ cause = IF r.no = 0 THEN Nothing ELSE r.no
  BY <1>1, <1>2 DEF Nothing
<1>4. PICK s : s = Request("logout", r.tab, r.page, no, "nobody", cause)
  OBVIOUS
<1>5. /\ s \in Wire /\ s.kind = "logout" /\ s.tab = r.tab /\ s.page = r.page
      /\ s.no = cookie /\ s.cause = cause /\ s.at = "sent" /\ s.status = 0 /\ s.token = 0
  <2>1. 0 \in Statuses
    BY DEF Statuses
  <2> QED BY <1>1, <1>3, <1>4, <2>1 DEF Request, Wire
<1>6. wire' = (wire \ {r}) \cup {s}
  BY <1>3, <1>4 DEF SignOutAfter, Replace
<1>7. LogoutTrue(s)
  BY <1>1, <1>3, <1>5 DEF LogoutTrue
<1>8. {s} \in SUBSET Wire /\ wire' \subseteq wire \cup {s}
  BY <1>5, <1>6
<1>9. s.page <= page[s.tab] /\ s.no <= Len(jar)
  BY <1>1, <1>2, <1>5
<1>10. \A q \in {s} :
         /\ q.kind \in {"login", "demo", "logout"}
         /\ q.at = "sent" /\ q.status = 0 /\ q.token = 0
         /\ q.page <= page[q.tab] /\ q.no <= Len(jar)
         /\ q.kind = "login" => q.user \in Users
         /\ LogoutTrue(q)
  BY <1>5, <1>7, <1>9
<1>11. PICK sent \in SUBSET Wire : sent = {s}
  BY <1>8
<1> QED BY <1>8, <1>10, <1>11, SendKeepsInv

\* A page learns who its user is, and asks for what that user may see.
LEMMA ProfileKeepsInv ==
  ASSUME TabsInv, NEW r \in wire, r.kind = "me", r.page = page[r.tab], r.status = 200,
         UNCHANGED <<version, tokens, alive, jar, cookie, at, page, shown, refused, clicks>>,
         loading' = [loading EXCEPT ![r.tab] = FALSE],
         profile' = [profile EXCEPT ![r.tab] =
                       [user |-> r.user, version |-> r.version, no |-> r.no]],
         wire' = (wire \ {r}) \cup
           IF MayLoad(r.user, r.version)
           THEN {Request("load", r.tab, r.page, cookie, "nobody", 0)} ELSE {}
  PROVE  TabsInv'
<1> DEFINE t == r.tab
<1>1. TabTypes /\ SessionTypes /\ AsksOnce
  BY DEF TabsInv
<1>2. /\ t \in Tabs /\ r.page \in Nat /\ r.no \in Nat /\ r.version \in Nat
      /\ r.no # 0 /\ r.no <= Len(jar) /\ r.no \in DOMAIN jar /\ Len(jar) \in Nat
      /\ r.user \in Users /\ r.user = tokens[jar[r.no]].user
  BY RequestFacts, WireFacts DEF RequestTrue, AnswerTrue
<1>3. profile[t].no = 0 /\ t \notin refused /\ shown[t] = 0
  <2>1. InOrder(r) /\ ProfileTrue(t) /\ DataNotOlderThanProfile
    BY <1>2 DEF TabsInv
  <2> QED BY <1>2, <2>1 DEF InOrder, ProfileTrue, DataNotOlderThanProfile
<1>4. /\ profile'[t].user = r.user /\ profile'[t].version = r.version
      /\ profile'[t].no = r.no
      /\ \A s \in Tabs \ {t} : profile'[s] = profile[s]
  BY <1>1, <1>2 DEF TabTypes
<1>5. TabTypes'
  <2>1. [user |-> r.user, version |-> r.version, no |-> r.no]
          \in [user : Users \cup {"nobody"}, version : Nat, no : Nat]
    BY <1>2
  <2>2. profile' \in [Tabs -> [user : Users \cup {"nobody"}, version : Nat, no : Nat]]
    BY <1>1, <2>1 DEF TabTypes
  <2>3. loading' \in [Tabs -> BOOLEAN]
    BY <1>1 DEF TabTypes
  <2> QED BY <1>1, <2>2, <2>3 DEF TabTypes
<1>6. cookie \in Nat /\ cookie \in {0, Len(jar)}
  BY <1>1, <1>2 DEF SessionTypes
<1>7. PICK no \in Nat : no = cookie
  BY <1>6
<1>8. PICK load : load = Request("load", t, r.page, no, "nobody", 0)
  OBVIOUS
<1>9. /\ load \in Wire /\ load.kind = "load" /\ load.tab = t /\ load.page = r.page
      /\ load.no = cookie /\ load.at = "sent" /\ load.status = 0 /\ load.token = 0
  <2>1. 0 \in Statuses
    BY DEF Statuses
  <2> QED BY <1>2, <1>7, <1>8, <2>1 DEF Request, Wire
<1>10. /\ wire' \subseteq (wire \ {r}) \cup {load}
       /\ load \in wire' => load \in wire \/ MayLoad(r.user, r.version)
  BY <1>7, <1>8
<1>11. wire' \subseteq Wire /\ \A s \in Tabs : page[s] <= page'[s]
  BY <1>1, <1>9, <1>10 DEF SessionTypes, TabTypes
<1>12. /\ SessionTypes' /\ TokensTrue' /\ Grows
       /\ \A q \in wire : RequestTrue(q)'
  BY <1>1, <1>5, <1>11, TabsOnly DEF SessionTypes
<1>13. RequestTrue(load)'
  <2>1. Len(tokens) \in Nat
    BY <1>1, SessionRows DEF SessionTypes
  <2>2. load.page <= page'[load.tab] /\ load.no <= Len(jar')
    BY <1>2, <1>6, <1>9
  <2> QED BY <1>5, <1>9, <2>1, <2>2, FreshRequestTrue
<1>14. ASSUME NEW q \in wire'
       PROVE  RequestTrue(q)' /\ InOrder(q)'
  <2>1. CASE q \in wire
    <3>1. q # r \/ q = load
      BY <1>10
    <3>2. q # r
      BY <1>9, <3>1
    <3>3. InOrder(q)
      BY <2>1 DEF TabsInv
    <3>4. CASE q.tab = t
      <4>1. q.page = page[t] => q.kind # "me" /\ q.kind # "load"
        BY <1>1, <1>3, <2>1, <3>2, <3>3, <3>4 DEF InOrder, AsksOnce
      <4> QED BY <1>12, <2>1, <3>4, <4>1 DEF InOrder
    <3>5. CASE q.tab # t
      <4>1. q.tab \in Tabs
        BY <2>1, WireFacts
      <4> QED BY <1>4, <1>12, <2>1, <3>3, <3>5, <4>1 DEF InOrder, MayLoad, AccountOf
    <3> QED BY <3>4, <3>5
  <2>2. CASE q \notin wire
    <3>1. q = load /\ MayLoad(r.user, r.version)
      BY <1>10, <2>2
    <3>2. InOrder(q)'
      BY <1>2, <1>4, <1>6, <1>9, <3>1 DEF InOrder, MayLoad, AccountOf
    <3> QED BY <1>13, <3>1, <3>2
  <2> QED BY <2>1, <2>2
<1>15. ASSUME NEW s \in Tabs
       PROVE  ProfileTrue(s)'
  <2>1. ProfileTrue(s)
    BY DEF TabsInv
  <2>2. CASE s = t
    BY <1>2, <1>3, <1>4, <2>1, <2>2 DEF ProfileTrue
  <2>3. CASE s # t
    BY <1>4, <2>1, <2>3 DEF ProfileTrue
  <2> QED BY <2>2, <2>3
<1>16. AsksOnce'
  BY <1>1, <1>9, <1>10 DEF AsksOnce
<1>17. DataNotOlderThanProfile'
  <2>1. DataNotOlderThanProfile
    BY DEF TabsInv
  <2> QED BY <1>3, <1>4, <2>1 DEF DataNotOlderThanProfile
<1>18. RefusalsExplained'
  <2>1. RefusalsExplained /\ refused \subseteq Tabs
    BY DEF TabsInv, TabTypes
  <2> QED BY <1>3, <1>4, <2>1 DEF RefusalsExplained
<1> QED BY <1>5, <1>12, <1>14, <1>15, <1>16, <1>17, <1>18 DEF TabsInv

LEMMA ReceiveMeKeepsInv ==
  ASSUME TabsInv, NEW r \in wire, ReceiveMe(r)
  PROVE  TabsInv'
<1>1. /\ r.kind = "me" /\ r.tab \in Tabs
      /\ UNCHANGED <<version, tokens, alive, jar, cookie, at, page, shown, refused, clicks>>
  BY WireFacts DEF ReceiveMe
<1>2. TabTypes /\ {} \in SUBSET Wire
  BY DEF TabsInv
<1>3. CASE r.page # page[r.tab]
  <2>1. wire' = wire \ {r} /\ UNCHANGED <<profile, loading>>
    BY <1>3 DEF ReceiveMe
  <2>2. TabTypes'
    BY <1>1, <1>2, <2>1 DEF TabTypes
  <2>3. wire' \subseteq wire \cup {}
    BY <2>1
  <2> QED BY <1>1, <1>2, <2>1, <2>2, <2>3, SendKeepsInv
<1>4. CASE r.page = page[r.tab] /\ r.status = 401
  <2>1. SignOutAfter(r) /\ UNCHANGED <<profile, loading>>
    BY <1>4 DEF ReceiveMe
  <2>2. TabTypes'
    BY <1>1, <1>2, <2>1 DEF TabTypes
  <2> QED BY <1>1, <1>4, <2>1, <2>2, SignOutAfterKeepsInv
<1>5. CASE r.page = page[r.tab] /\ r.status = 200
  <2>1. /\ loading' = [loading EXCEPT ![r.tab] = FALSE]
        /\ profile' = [profile EXCEPT ![r.tab] =
                         [user |-> r.user, version |-> r.version, no |-> r.no]]
        /\ wire' = (wire \ {r}) \cup
             IF MayLoad(r.user, r.version)
             THEN {Request("load", r.tab, r.page, cookie, "nobody", 0)} ELSE {}
    BY <1>5 DEF ReceiveMe
  <2> QED BY <1>1, <1>5, <2>1, ProfileKeepsInv
<1>6. CASE r.page = page[r.tab] /\ r.status \notin {200, 401}
  <2>1. /\ loading' = [loading EXCEPT ![r.tab] = FALSE]
        /\ wire' = wire \ {r} /\ UNCHANGED profile
    BY <1>6 DEF ReceiveMe
  <2>2. TabTypes'
    BY <1>1, <1>2, <2>1 DEF TabTypes
  <2>3. wire' \subseteq wire \cup {}
    BY <2>1
  <2> QED BY <1>1, <1>2, <2>1, <2>2, <2>3, SendKeepsInv
<1> QED BY <1>3, <1>4, <1>5, <1>6

\* The data of a page, or its refusal, is put beside the profile it was asked for.
LEMMA ReceiveLoadKeepsInv ==
  ASSUME TabsInv, NEW r \in wire, ReceiveLoad(r)
  PROVE  TabsInv'
<1> DEFINE t == r.tab
<1>1. /\ r.kind = "load" /\ t \in Tabs /\ r.no \in Nat
      /\ UNCHANGED <<version, tokens, alive, jar, cookie, at, page, loading, profile, clicks>>
  BY WireFacts DEF ReceiveLoad
<1>2. /\ shown' = IF r.page = page[t] /\ r.status = 200 THEN [shown EXCEPT ![t] = r.no]
                  ELSE shown
      /\ refused' = IF r.page = page[t] /\ r.status = 403 THEN refused \cup {t} ELSE refused
      /\ IF r.status = 401 THEN SignOutAfter(r) ELSE wire' = wire \ {r}
  BY DEF ReceiveLoad
<1>3. TabTypes /\ SessionTypes /\ AsksOnce
  BY DEF TabsInv
<1>4. TabTypes'
  <2>1. shown' \in [Tabs -> Nat] /\ refused' \subseteq Tabs
    BY <1>1, <1>2, <1>3 DEF TabTypes
  <2> QED BY <1>1, <1>3, <2>1 DEF TabTypes
<1>5. CASE r.status = 401
  <2>1. UNCHANGED <<shown, refused>> /\ SignOutAfter(r)
    BY <1>2, <1>5
  <2> QED BY <1>1, <1>4, <1>5, <2>1, SignOutAfterKeepsInv
<1>6. CASE ~(r.page = page[t] /\ r.status \in {200, 403}) /\ r.status # 401
  <2>1. UNCHANGED <<shown, refused>> /\ wire' = wire \ {r}
    BY <1>2, <1>6
  <2>2. wire' \subseteq wire \cup {} /\ {} \in SUBSET Wire
    BY <2>1
  <2> QED BY <1>1, <1>4, <2>1, <2>2, SendKeepsInv
<1>7. CASE r.page = page[t] /\ r.status \in {200, 403}
  <2>1. wire' = wire \ {r}
    BY <1>2, <1>7
  <2>2. /\ r.no # 0 /\ r.no <= Len(jar) /\ r.no \in DOMAIN jar /\ Len(jar) \in Nat
        /\ r.status = 403 => RoleIn(jar[r.no]) \notin PageRoles
    BY <1>1, <1>7, RequestFacts DEF RequestTrue, AnswerTrue
  <2>3. /\ profile[t].no # 0 /\ profile[t].no <= r.no
        /\ MayLoad(profile[t].user, profile[t].version)
    <3>1. InOrder(r)
      BY DEF TabsInv
    <3> QED BY <1>1, <1>7, <2>2, <3>1 DEF InOrder
  <2>4. profile[t].no \in Nat /\ profile[t].user = tokens[jar[profile[t].no]].user
    <3>1. ProfileTrue(t)
      BY <1>1 DEF TabsInv
    <3> QED BY <1>1, <1>3, <2>3, <3>1 DEF ProfileTrue, TabTypes
  <2>5. wire' \subseteq Wire /\ cookie' \in {0, Len(jar')} /\ \A s \in Tabs : page[s] <= page'[s]
    BY <1>1, <1>3, <2>1 DEF SessionTypes, TabTypes
  <2>6. /\ SessionTypes' /\ TokensTrue' /\ Grows
        /\ \A q \in wire : RequestTrue(q)'
    BY <1>1, <1>4, <2>5, TabsOnly
  <2>7. ASSUME NEW q \in wire'
        PROVE  RequestTrue(q)' /\ InOrder(q)'
    <3>1. q \in wire /\ InOrder(q)
      BY <2>1 DEF TabsInv
    <3> QED BY <1>1, <2>6, <3>1 DEF InOrder, MayLoad, AccountOf
  <2>8. ASSUME NEW s \in Tabs
        PROVE  ProfileTrue(s)'
    <3>1. ProfileTrue(s)
      BY DEF TabsInv
    <3>2. shown'[s] <= Len(jar)
      BY <1>1, <1>2, <1>3, <2>2, <3>1 DEF ProfileTrue, TabTypes
    <3>3. s \in refused' => profile[s].no # 0
      BY <1>2, <2>3, <3>1 DEF ProfileTrue
    <3> QED BY <1>1, <3>1, <3>2, <3>3 DEF ProfileTrue
  <2>9. AsksOnce'
    BY <1>3, <2>1 DEF AsksOnce
  <2>10. DataNotOlderThanProfile'
    <3>1. DataNotOlderThanProfile
      BY DEF TabsInv
    <3> QED BY <1>1, <1>2, <1>3, <2>3, <3>1 DEF DataNotOlderThanProfile, TabTypes
  <2>11. RefusalsExplained'
    <3>1. \A s \in refused : \/ Len(jar) > profile[s].no
                             \/ tokens[jar[profile[s].no]].version # profile[s].version
      BY DEF TabsInv, RefusalsExplained
    <3>2. ASSUME r.status = 403
          PROVE  \/ Len(jar) > profile[t].no
                 \/ tokens[jar[profile[t].no]].version # profile[t].version
      <4>1. CASE profile[t].no # r.no
        BY <2>2, <2>3, <2>4, <1>1, <4>1
      <4>2. CASE profile[t].no = r.no
        BY <2>2, <2>3, <2>4, <3>2, <4>2 DEF RoleIn, MayLoad
      <4> QED BY <4>1, <4>2
    <3>3. \A s \in refused' : s \in refused \/ (s = t /\ r.status = 403)
      BY <1>2
    <3> QED BY <1>1, <3>1, <3>2, <3>3 DEF RefusalsExplained
  <2> QED BY <1>4, <2>6, <2>7, <2>8, <2>9, <2>10, <2>11 DEF TabsInv
<1> QED BY <1>5, <1>6, <1>7

-----------------------------------------------------------------------------
(* The theorems.                                                           *)

LEMMA InitInv == Init => TabsInv
<1> SUFFICES ASSUME Init
             PROVE  TabsInv
  OBVIOUS
<1>1. PICK t \in Tabs, u \in Users :
        /\ SessionInit(u, Request("me", t, 1, 1, "nobody", 0))
        /\ at = [s \in Tabs |-> IF s = t THEN "internal" ELSE "login"]
        /\ page = [s \in Tabs |-> 1]
        /\ loading = [s \in Tabs |-> s = t]
        /\ profile = [s \in Tabs |-> NoProfile]
        /\ shown = [s \in Tabs |-> 0]
        /\ refused = {}
        /\ clicks = 0
  BY DEF Init
<1>2. PICK r : r = Request("me", t, 1, 1, "nobody", 0)
  OBVIOUS
<1>3. /\ r \in Wire /\ r.kind = "me" /\ r.tab = t /\ r.page = 1 /\ r.no = 1
      /\ r.at = "sent" /\ r.status = 0 /\ r.token = 0
  <2>1. 0 \in Statuses
    BY DEF Statuses
  <2> QED BY <1>2, <2>1 DEF Request, Wire
<1>4. /\ AccountOf(u, 1).active /\ version = [v \in Users |-> 1]
      /\ tokens = <<[user |-> u, version |-> 1]>> /\ alive = {1} /\ jar = <<1>>
      /\ cookie = 1 /\ wire = {r}
  BY <1>1, <1>2 DEF SessionInit
<1>5. /\ DOMAIN tokens = {1} /\ Len(tokens) = 1 /\ tokens[1] = [user |-> u, version |-> 1]
      /\ tokens \in Seq([user : Users, version : Nat])
      /\ DOMAIN jar = {1} /\ Len(jar) = 1 /\ jar[1] = 1 /\ jar \in Seq(Nat)
  BY <1>4
<1>6. SessionTypes
  <2>1. \A v \in Users : 1 \in DOMAIN History[v]
    <3>1. ASSUME NEW v \in Users
          PROVE  1 \in DOMAIN History[v]
      <4>1. Len(History[v]) \in Nat /\ Len(History[v]) > 0
            /\ DOMAIN History[v] = 1..Len(History[v])
        BY SessionAssumption, SequenceFacts
      <4> QED BY <4>1
    <3> QED BY <3>1
  <2>2. MaxTokens \in Nat \ {0}
    BY SessionAssumption
  <2>3. Len(tokens) <= MaxTokens /\ cookie \in {0, Len(jar)} /\ alive \subseteq DOMAIN tokens
    BY <1>4, <1>5, <2>2
  <2>4. version \in [Users -> Nat] /\ \A v \in Users : version[v] \in DOMAIN History[v]
    BY <1>4, <2>1
  <2>5. wire \subseteq Wire
    BY <1>3, <1>4
  <2> QED BY <1>5, <2>3, <2>4, <2>5 DEF SessionTypes
<1>7. TabTypes
  <2>1. NoProfile \in [user : Users \cup {"nobody"}, version : Nat, no : Nat]
    BY DEF NoProfile
  <2>2. at \in [Tabs -> {"login", "home", "internal"}] /\ loading \in [Tabs -> BOOLEAN]
    BY <1>1
  <2>3. /\ page \in [Tabs -> Nat \ {0}] /\ shown \in [Tabs -> Nat]
        /\ refused \subseteq Tabs /\ clicks \in 0..MaxClicks
    BY <1>1, TabsAssumption
  <2>4. profile \in [Tabs -> [user : Users \cup {"nobody"}, version : Nat, no : Nat]]
    BY <1>1, <2>1
  <2> QED BY <2>2, <2>3, <2>4 DEF TabTypes
<1>8. TokensTrue
  BY <1>4, <1>5 DEF TokensTrue, ReadActive
<1>9. \A s \in Tabs : page[s] = 1 /\ profile[s] = NoProfile /\ shown[s] = 0
  BY <1>1
<1>10. RequestTrue(r)
  <2>1. SignInTrue(r) /\ AnswerTrue(r) /\ LogoutTrue(r)
    BY <1>3, "sent" # "checked" DEF SignInTrue, AnswerTrue, LogoutTrue
  <2> QED BY <1>3, <1>5, <1>9, <2>1 DEF RequestTrue
<1>11. InOrder(r)
  BY <1>3, <1>9 DEF InOrder, NoProfile
<1>12. \A s \in Tabs : ProfileTrue(s)
  BY <1>1, <1>5, <1>9 DEF ProfileTrue, NoProfile
<1>13. AsksOnce
  BY <1>4 DEF AsksOnce
<1>14. DataNotOlderThanProfile /\ RefusalsExplained
  BY <1>1, <1>9 DEF DataNotOlderThanProfile, RefusalsExplained
<1> QED BY <1>4, <1>6, <1>7, <1>8, <1>10, <1>11, <1>12, <1>13, <1>14 DEF TabsInv

LEMMA NextKeepsInv == TabsInv /\ [Next]_vars => TabsInv'
<1> SUFFICES ASSUME TabsInv, [Next]_vars
             PROVE  TabsInv'
  OBVIOUS
<1>1. CASE (AccountChanges \/ CookieExpires) /\ UNCHANGED tabVars
  BY <1>1, EndsKeepInv
<1>2. ASSUME NEW r \in wire, Handle(r), UNCHANGED tabVars
      PROVE  TabsInv'
  BY <1>2, HandleKeepsInv
<1>3. ASSUME NEW r \in wire, Receive(r)
      PROVE  TabsInv'
  BY <1>3, ReceiveSignInKeepsInv, ReceiveMeKeepsInv, ReceiveLoadKeepsInv,
     ReceiveLogoutKeepsInv DEF Receive
<1>4. ASSUME NEW t \in Tabs, TabStep(t)
      PROVE  TabsInv'
  <2>1. ASSUME NEW where \in {"login", "internal"}, Open(t, where)
        PROVE  TabsInv'
    BY <2>1, OpenKeepsInv
  <2>2. ASSUME NEW u \in Staff, Submit(t, "login", u)
        PROVE  TabsInv'
    BY <2>2, TabsAssumption, SubmitKeepsInv
  <2>3. CASE Submit(t, "demo", "nobody")
    <3>1. PICK kind \in {"login", "demo"}, u \in Users \cup {"nobody"} :
            kind = "demo" /\ u = "nobody"
      OBVIOUS
    <3>2. Submit(t, kind, u)
      BY <2>3, <3>1
    <3> QED BY <3>1, <3>2, SubmitKeepsInv
  <2>4. CASE SignOut(t)
    BY <2>4, SignOutKeepsInv
  <2> QED BY <1>4, <2>1, <2>2, <2>3, <2>4 DEF TabStep
<1>5. CASE UNCHANGED vars
  <2>1. UNCHANGED <<version, tokens, alive, jar, cookie, wire, at, page, loading, profile,
                    shown, refused, clicks>>
    BY <1>5 DEF vars, sessionVars, tabVars
  <2>2. TabTypes' /\ {} \in SUBSET Wire /\ wire' \subseteq wire \cup {}
    BY <2>1 DEF TabsInv, TabTypes
  <2> QED BY <2>1, <2>2, SendKeepsInv
<1> QED BY <1>1, <1>2, <1>3, <1>4, <1>5 DEF Next

\* The invariant, of every reachable state.
THEOREM TabsInvariant == Spec => []TabsInv
BY InitInv, NextKeepsInv, PTL DEF Spec

LEMMA InvFits == TabsInv => PagesFitSession
<1> SUFFICES ASSUME TabsInv
             PROVE  PagesFitSession
  OBVIOUS
<1>1. SessionTypes /\ TabTypes /\ TokensTrue
  BY DEF TabsInv
<1>2. SignInsWereAllowed
  BY <1>1 DEF TokensTrue, ReadActive, SignInsWereAllowed
<1>3. SessionTypeOK
  <2>1. Len(jar) \in Nat /\ Len(tokens) \in Nat
    BY <1>1, SessionRows DEF SessionTypes
  <2>2. ASSUME NEW n \in DOMAIN tokens
        PROVE  tokens[n].user \in Users /\ tokens[n].version \in DOMAIN History[tokens[n].user]
    <3>1. tokens[n].user \in Users
      BY <1>1, SessionRows DEF SessionTypes
    <3>2. tokens[n].version \in 1..version[tokens[n].user]
      BY <1>1 DEF TokensTrue, ReadActive
    <3>3. version[tokens[n].user] \in DOMAIN History[tokens[n].user]
      BY <1>1, <3>1 DEF SessionTypes
    <3>4. /\ Len(History[tokens[n].user]) \in Nat
          /\ DOMAIN History[tokens[n].user] = 1..Len(History[tokens[n].user])
      BY <3>1, SessionAssumption, SequenceFacts
    <3> QED BY <3>1, <3>2, <3>3, <3>4
  <2>3. ASSUME NEW r \in wire
        PROVE  /\ r.kind \in {"login", "demo", "logout", "me", "load"}
               /\ r.at \in {"sent", "checked", "answered"}
               /\ r.no \in 0..Len(jar) /\ r.status \in Statuses
               /\ r.token \in 0..Len(tokens)
    <3>1. r \in Wire /\ r.no <= Len(jar) /\ r.token <= Len(tokens)
      BY RequestFacts DEF RequestTrue
    <3>2. /\ r.kind \in {"login", "demo", "logout", "me", "load"}
          /\ r.at \in {"sent", "checked", "answered"}
          /\ r.no \in Nat /\ r.status \in Statuses /\ r.token \in Nat
      BY <3>1 DEF Wire
    <3> QED BY <2>1, <3>1, <3>2
  <2>4. cookie \in 0..Len(jar)
    BY <1>1, <2>1 DEF SessionTypes
  <2> QED BY <1>1, <2>2, <2>3, <2>4 DEF SessionTypes, SessionTypeOK
<1>4. TypeOK
  <2>1. ASSUME NEW t \in Tabs
        PROVE  /\ profile[t] = NoProfile \/ profile[t].user \in Users
               /\ shown[t] \in 0..Len(jar)
    <3>1. ProfileTrue(t) /\ shown[t] \in Nat
      BY DEF TabsInv, TabTypes
    <3>2. Len(jar) \in Nat
      BY <1>1, SessionRows DEF SessionTypes
    <3> QED BY <3>1, <3>2 DEF ProfileTrue
  <2>2. shown \in [Tabs -> 0..Len(jar)]
    BY <1>1, <2>1 DEF TabTypes
  <2> QED BY <1>1, <1>3, <2>1, <2>2 DEF TypeOK, TabTypes
<1>5. DataNotOlderThanProfile /\ RefusalsExplained
  BY DEF TabsInv
<1> QED BY <1>2, <1>4, <1>5 DEF PagesFitSession

\* Sign-ins, profiles, data and refusals fit together in every tab, however the
\* answers of several sessions overtake each other.
THEOREM PagesAlwaysFit == Spec => []PagesFitSession
BY TabsInvariant, InvFits, PTL

\* Only an answered logout takes a live cookie away, and what it goes back to is
\* as bad when it arrives as it was when it was found.
LEMMA LiveSessionStep ==
  ASSUME TabsInv, Next, cookie # 0, cookie' = 0, jar[cookie] \in alive
  PROVE  \E r \in wire \ wire' :
           /\ r.kind = "logout"
           /\ \/ r.cause \in {0, Nothing}
              \/ jar[r.cause] \notin alive
              \/ DeactivatedSince(jar[r.cause])
<1>1. ASSUME NEW r \in wire, ReceiveLogout(r)
      PROVE  r \in wire \ wire' /\ r.kind = "logout" /\ LogoutTrue(r)
  BY <1>1, RequestFacts DEF ReceiveLogout, RequestTrue
<1>2. \E r \in wire : ReceiveLogout(r)
  <2>1. ~CookieExpires
    BY DEF CookieExpires
  <2>2. ~AccountChanges
    BY DEF AccountChanges, ChangeAccount, Expire
  <2>3. ASSUME NEW r \in wire, Handle(r)
        PROVE  FALSE
    BY <2>3 DEF Handle, CheckLogin, CheckDemo, IssueToken, HandleMe, HandleLoad,
                HandleLogout, RequestFails
  <2>4. ASSUME NEW t \in Tabs, TabStep(t)
        PROVE  FALSE
    BY <2>4 DEF TabStep, Open, Submit, SignOut
  <2>5. ASSUME NEW r \in wire, ReceiveMe(r) \/ ReceiveLoad(r)
        PROVE  FALSE
    BY <2>5 DEF ReceiveMe, ReceiveLoad
  <2>6. ASSUME NEW r \in wire, ReceiveSignIn(r)
        PROVE  FALSE
    <3>1. r.status = 200
      BY <2>6 DEF ReceiveSignIn
    <3>2. r.token \in Nat /\ jar \in Seq(Nat)
      BY WireFacts DEF TabsInv, SessionTypes
    <3>3. Len(jar) \in Nat /\ Len(Append(jar, r.token)) = Len(jar) + 1
      BY <3>2, AppendFacts
    <3>4. cookie' = Len(Append(jar, r.token))
      BY <2>6, <3>1 DEF ReceiveSignIn
    <3> QED BY <3>3, <3>4
  <2> QED BY <2>1, <2>2, <2>3, <2>4, <2>5, <2>6 DEF Next, Receive
<1> QED BY <1>1, <1>2 DEF LogoutTrue, NoGood

\* No session whose token is still good ends but by its user, or by the late 401
\* to a request that had no cookie, or one that had deserved to be refused.
THEOREM LiveSessionsStay == Spec => LiveSessionsKept
<1>1. TabsInv /\ [Next]_vars =>
        [cookie # 0 /\ cookie' = 0 /\ jar[cookie] \in alive =>
           \E r \in wire \ wire' :
             /\ r.kind = "logout"
             /\ \/ r.cause \in {0, Nothing}
                \/ jar[r.cause] \notin alive
                \/ DeactivatedSince(jar[r.cause])]_vars
  BY LiveSessionStep
<1> QED BY <1>1, TabsInvariant, PTL DEF Spec, LiveSessionsKept

=============================================================================
