------------------------------- MODULE Session -------------------------------
(***************************************************************************)
(* Sign-in sessions: AuthService, AuthController and the guards, for one   *)
(* browser whose tabs share the session cookie.                            *)
(*                                                                         *)
(* A sign-in issues a signed token that carries the user's role and        *)
(* department of that moment.  AuthGuard only verifies the token: what     *)
(* happens to the account afterwards is seen by GET /auth/me and by        *)
(* nothing else until the token expires.                                   *)
(*                                                                         *)
(* A request is on its way, then handled, then its answer arrives; answers *)
(* arrive in any order.                                                    *)
(***************************************************************************)
EXTENDS Integers, Sequences

CONSTANTS
  Users,
  History,       \* [Users -> Seq(account)]: what becomes of each account
  PageRoles,     \* the roles with the permission the pages ask for
  DemoGuests,    \* the guests of the demo tenant
  DemoEnabled,   \* PORTFOLIO_DEMO_ENABLED
  MaxTokens,     \* bounds the sign-ins, the one at the start included
  Unreliable     \* the kinds of requests that may fail

\* Of an account, what sessions depend on.
AccountRow == [role : STRING, active : BOOLEAN]

ASSUME SessionAssumption ==
  /\ \A u \in Users : History[u] \in Seq(AccountRow) /\ Len(History[u]) > 0
  /\ DemoGuests \subseteq Users
  /\ DemoEnabled \in BOOLEAN
  /\ MaxTokens \in Nat \ {0}

VARIABLES
  version,   \* [Users -> the place of the account in its history]
  tokens,    \* Seq of the tokens signed so far: the user, and the account read
  alive,     \* the tokens that have not expired
  jar,       \* Seq of the tokens set as the browser's cookie, in that order
  cookie,    \* the place in jar of the cookie the browser sends, 0 for none
  wire       \* the requests and answers on their way

sessionVars == <<version, tokens, alive, jar, cookie, wire>>

AccountOf(u, v) == History[u][v]
Active(u) == AccountOf(u, version[u]).active
RoleIn(n) == AccountOf(tokens[n].user, tokens[n].version).role

(* A request of a tab's page.  "no" is the place of the cookie it carries; *)
(* "cause" is what a logout answers to: 0 when the user asked for it, else *)
(* the place of the cookie that was refused, or Nothing for no cookie.     *)
Nothing == -1
Request(kind, tab, page, no, user, cause) ==
  [kind |-> kind, tab |-> tab, page |-> page, no |-> no, user |-> user,
   cause |-> cause, at |-> "sent", version |-> 0, token |-> 0, status |-> 0]

Statuses == {0, 200, 401, 403, 404, 500, 503}

\* One user has just signed in.
SessionInit(u, request) ==
  /\ AccountOf(u, 1).active
  /\ version = [v \in Users |-> 1]
  /\ tokens = <<[user |-> u, version |-> 1]>>
  /\ alive = {1}
  /\ jar = <<1>>
  /\ cookie = 1
  /\ wire = {request}

SessionTypeOK ==
  /\ \A u \in Users : version[u] \in DOMAIN History[u]
  /\ \A n \in DOMAIN tokens :
       tokens[n].user \in Users /\ tokens[n].version \in DOMAIN History[tokens[n].user]
  /\ Len(tokens) <= MaxTokens
  /\ alive \subseteq DOMAIN tokens
  /\ \A i \in DOMAIN jar : jar[i] \in DOMAIN tokens
  /\ cookie \in 0..Len(jar)
  /\ \A r \in wire :
       /\ r.kind \in {"login", "demo", "logout", "me", "load"}
       /\ r.at \in {"sent", "checked", "answered"}
       /\ r.no \in 0..Len(jar) /\ r.status \in Statuses
       /\ r.token \in 0..Len(tokens)

Replace(r, s) == wire' = (wire \ {r}) \cup {s}
Answer(r, status) == Replace(r, [r EXCEPT !.at = "answered", !.status = status])

\* An administrator, outside the program: role, department or status.
ChangeAccount(u) ==
  /\ version[u] < Len(History[u])
  /\ version' = [version EXCEPT ![u] = @ + 1]
  /\ UNCHANGED <<tokens, alive, jar, cookie, wire>>

Expire(n) ==
  /\ n \in alive
  /\ alive' = alive \ {n}
  /\ UNCHANGED <<version, tokens, jar, cookie, wire>>

\* The cookie was given the token's lifetime, and was set after it was signed.
CookieExpires ==
  /\ cookie # 0 /\ jar[cookie] \notin alive
  /\ cookie' = 0
  /\ UNCHANGED <<version, tokens, alive, jar, wire>>

-----------------------------------------------------------------------------
(* The API.  Any handler may fail with a 500.                              *)

\* login, up to the comparison of the password, which takes its time.
CheckLogin(r) ==
  /\ r.kind = "login" /\ r.at = "sent"
  /\ \/ Answer(r, 401)
     \/ /\ Active(r.user)
        /\ Replace(r, [r EXCEPT !.at = "checked", !.version = version[r.user]])
  /\ UNCHANGED <<version, tokens, alive, jar, cookie>>

ActiveGuests ==
  {u \in DemoGuests : Active(u) /\ AccountOf(u, version[u]).role = "portfolio_guest"}

\* createDemoSession, for the default tenant, up to the guest it finds.
CheckDemo(r) ==
  /\ r.kind = "demo" /\ r.at = "sent"
  /\ IF ~DemoEnabled THEN Answer(r, 404)
     ELSE IF ActiveGuests = {} THEN Answer(r, 503)
     ELSE \E u \in ActiveGuests :
            Replace(r, [r EXCEPT !.at = "checked", !.user = u, !.version = version[u]])
  /\ UNCHANGED <<version, tokens, alive, jar, cookie>>

\* The token is signed with what was read, whatever has changed since.
IssueToken(r) ==
  /\ r.at = "checked"
  /\ Len(tokens) < MaxTokens
  /\ tokens' = Append(tokens, [user |-> r.user, version |-> r.version])
  /\ alive' = alive \cup {Len(tokens')}
  /\ Replace(r, [r EXCEPT !.at = "answered", !.status = 200, !.token = Len(tokens')])
  /\ UNCHANGED <<version, jar, cookie>>

\* AuthGuard.canActivate: the token's signature and lifetime, nothing else.
Authenticated(r) == r.no # 0 /\ jar[r.no] \in alive

\* getCurrentUserProfile: the account as it is now.
HandleMe(r) ==
  /\ r.kind = "me" /\ r.at = "sent"
  /\ IF Authenticated(r) /\ Active(tokens[jar[r.no]].user)
     THEN LET u == tokens[jar[r.no]].user
          IN  Replace(r, [r EXCEPT !.at = "answered", !.status = 200, !.user = u,
                                   !.version = version[u]])
     ELSE Answer(r, 401)
  /\ UNCHANGED <<version, tokens, alive, jar, cookie>>

\* A guarded read of a page: PermissionsGuard looks at the role in the token.
HandleLoad(r) ==
  /\ r.kind = "load" /\ r.at = "sent"
  /\ IF ~Authenticated(r) THEN Answer(r, 401)
     ELSE IF RoleIn(jar[r.no]) \notin PageRoles THEN Answer(r, 403)
     ELSE Replace(r, [r EXCEPT !.at = "answered", !.status = 200,
                               !.user = tokens[jar[r.no]].user])
  /\ UNCHANGED <<version, tokens, alive, jar, cookie>>

\* logout: the token stays valid, the answer clears the cookie.
HandleLogout(r) ==
  /\ r.kind = "logout" /\ r.at = "sent"
  /\ Answer(r, 200)
  /\ UNCHANGED <<version, tokens, alive, jar, cookie>>

\* The database fails, or the request never gets there or back.
RequestFails(r) ==
  /\ r.kind \in Unreliable /\ r.at # "answered"
  /\ Answer(r, 500)
  /\ UNCHANGED <<version, tokens, alive, jar, cookie>>

Handle(r) ==
  \/ CheckLogin(r) \/ CheckDemo(r) \/ IssueToken(r)
  \/ HandleMe(r) \/ HandleLoad(r) \/ HandleLogout(r) \/ RequestFails(r)

AccountChanges == (\E u \in Users : ChangeAccount(u)) \/ (\E n \in alive : Expire(n))

-----------------------------------------------------------------------------
(* Properties.                                                             *)

\* Nobody signs in but with an account that was active when its password was
\* compared, or as the guest that was read; what is signed is what was read.
SignInsWereAllowed ==
  \A n \in DOMAIN tokens : AccountOf(tokens[n].user, tokens[n].version).active

\* The account of token n was deactivated some time since it was read for it.
DeactivatedSince(n) ==
  LET u == tokens[n].user
  IN  \E v \in tokens[n].version..version[u] : ~AccountOf(u, v).active

=============================================================================
