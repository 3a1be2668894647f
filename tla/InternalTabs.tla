---------------------------- MODULE InternalTabs ----------------------------
(***************************************************************************)
(* The staff pages in the tabs of one browser: the login form, the demo    *)
(* button, useInternalSession and a page that loads once the session is    *)
(* known and the user has the permission (users, routing rules,            *)
(* departments, operations).                                               *)
(*                                                                         *)
(* Only the session hook ignores the answers of a page that was left; a    *)
(* refused load signs out and leaves for the login page wherever the tab   *)
(* is by then.                                                             *)
(***************************************************************************)
EXTENDS Session

CONSTANTS
  Tabs,
  Staff,         \* those who sign in with a password
  MaxClicks      \* bounds what the user does in all tabs together

ASSUME TabsAssumption == Staff \subseteq Users /\ MaxClicks \in Nat

VARIABLES
  at,        \* [Tabs -> "login", "home" or "internal"]
  page,      \* [Tabs -> how many pages it has shown: the current one's number]
  loading,   \* [Tabs -> BOOLEAN], of useInternalSession or of the form
  profile,   \* [Tabs -> currentUser: who, as of which version and cookie]
  shown,     \* [Tabs -> the cookie whose data the page shows, 0 for none]
  refused,   \* the tabs whose page got a 403 for its load
  clicks     \* what the user has done so far

tabVars == <<at, page, loading, profile, shown, refused, clicks>>
vars == <<sessionVars, tabVars>>

NoProfile == [user |-> "nobody", version |-> 0, no |-> 0]

\* A user has signed in in one tab, whose page asks who that was; the other
\* tabs are at the login page.
Init ==
  \E t \in Tabs, u \in Users :
    /\ SessionInit(u, Request("me", t, 1, 1, "nobody", 0))
    /\ at = [s \in Tabs |-> IF s = t THEN "internal" ELSE "login"]
    /\ page = [s \in Tabs |-> 1]
    /\ loading = [s \in Tabs |-> s = t]
    /\ profile = [s \in Tabs |-> NoProfile]
    /\ shown = [s \in Tabs |-> 0]
    /\ refused = {}
    /\ clicks = 0

TypeOK ==
  /\ SessionTypeOK
  /\ at \in [Tabs -> {"login", "home", "internal"}]
  /\ page \in [Tabs -> Nat \ {0}]
  /\ loading \in [Tabs -> BOOLEAN]
  /\ \A t \in Tabs : profile[t] = NoProfile \/ profile[t].user \in Users
  /\ shown \in [Tabs -> 0..Len(jar)]
  /\ refused \subseteq Tabs
  /\ clicks \in 0..MaxClicks

-----------------------------------------------------------------------------

\* The tab leaves its page for another.
Show(t, where) ==
  /\ at' = [at EXCEPT ![t] = where]
  /\ page' = [page EXCEPT ![t] = @ + 1]
  /\ loading' = [loading EXCEPT ![t] = where = "internal"]
  /\ profile' = [profile EXCEPT ![t] = NoProfile]
  /\ shown' = [shown EXCEPT ![t] = 0]
  /\ refused' = refused \ {t}

\* What the next page sends at once: loadSession asks who is signed in.
Opening(t, where, no) ==
  IF where = "internal" THEN {Request("me", t, page[t] + 1, no, "nobody", 0)} ELSE {}

Click == clicks < MaxClicks /\ clicks' = clicks + 1

\* A link or a typed address.
Open(t, where) ==
  /\ Click
  /\ Show(t, where)
  /\ wire' = wire \cup Opening(t, where, cookie)
  /\ UNCHANGED <<version, tokens, alive, jar, cookie>>

Waiting(t, kind) == \E r \in wire : r.tab = t /\ r.page = page[t] /\ r.kind = kind

\* handleSubmit of the login form and enterDemo: their button is disabled while
\* the answer is awaited.
Submit(t, kind, u) ==
  /\ Click
  /\ at[t] = "login" /\ ~Waiting(t, kind)
  /\ wire' = wire \cup {Request(kind, t, page[t], cookie, u, 0)}
  /\ UNCHANGED <<version, tokens, alive, jar, cookie, at, page, loading, profile,
                 shown, refused>>

\* signOut of InternalShell, as often as it is clicked.
SignOut(t) ==
  /\ Click
  /\ at[t] = "internal"
  /\ wire' = wire \cup {Request("logout", t, page[t], cookie, "nobody", 0)}
  /\ UNCHANGED <<version, tokens, alive, jar, cookie, at, page, loading, profile,
                 shown, refused>>

\* The browser keeps the cookie of the answer, then the page is pushed, even
\* when the form was left.
ReceiveSignIn(r) ==
  /\ r.kind \in {"login", "demo"} /\ r.at = "answered"
  /\ IF r.status = 200
     THEN /\ jar' = Append(jar, r.token)
          /\ cookie' = Len(jar')
          /\ Show(r.tab, "internal")
          /\ wire' = (wire \ {r}) \cup Opening(r.tab, "internal", cookie')
     ELSE /\ wire' = wire \ {r}
          /\ UNCHANGED <<jar, cookie, at, page, loading, profile, shown, refused>>
  /\ UNCHANGED <<version, tokens, alive, clicks>>

\* clearSession, on behalf of a refused request.
SignOutAfter(r) ==
  Replace(r, Request("logout", r.tab, r.page, cookie, "nobody",
                     IF r.no = 0 THEN Nothing ELSE r.no))

\* The page's hasPermission
MayLoad(u, v) == AccountOf(u, v).role \in PageRoles

\* Mutant: a refused session leaves the page loading.
ReceiveMeForgets(r) ==
  /\ r.kind = "me" /\ r.at = "answered"
  /\ IF r.page = page[r.tab] /\ r.status = 200
     THEN /\ profile' = [profile EXCEPT ![r.tab] =
                           [user |-> r.user, version |-> r.version, no |-> r.no]]
          /\ loading' = [loading EXCEPT ![r.tab] = FALSE]
          /\ wire' = (wire \ {r}) \cup
               IF MayLoad(r.user, r.version)
               THEN {Request("load", r.tab, r.page, cookie, "nobody", 0)} ELSE {}
     ELSE /\ wire' = wire \ {r}
          /\ UNCHANGED <<profile, loading>>
  /\ UNCHANGED <<version, tokens, alive, jar, cookie, at, page, shown, refused,
                 clicks>>

\* loadSession of useInternalSession, and the page's effect once it is known who
\* the user is.
ReceiveMe(r) ==
  /\ r.kind = "me" /\ r.at = "answered"
  /\ IF r.page # page[r.tab]
     THEN wire' = wire \ {r} /\ UNCHANGED <<profile, loading>>
     ELSE IF r.status = 401
     THEN SignOutAfter(r) /\ UNCHANGED <<profile, loading>>
     ELSE /\ loading' = [loading EXCEPT ![r.tab] = FALSE]
          /\ IF r.status = 200
             THEN /\ profile' = [profile EXCEPT ![r.tab] =
                                   [user |-> r.user, version |-> r.version, no |-> r.no]]
                  /\ wire' = (wire \ {r}) \cup
                       IF MayLoad(r.user, r.version)
                       THEN {Request("load", r.tab, r.page, cookie, "nobody", 0)} ELSE {}
             ELSE wire' = wire \ {r} /\ UNCHANGED profile
  /\ UNCHANGED <<version, tokens, alive, jar, cookie, at, page, shown, refused,
                 clicks>>

\* Mutant: the answer of a page that was left is shown.
ReceiveLoadEverywhere(r) ==
  /\ r.kind = "load" /\ r.at = "answered"
  /\ shown' = IF r.status = 200 THEN [shown EXCEPT ![r.tab] = r.no] ELSE shown
  /\ IF r.status = 401 THEN SignOutAfter(r) ELSE wire' = wire \ {r}
  /\ UNCHANGED <<version, tokens, alive, jar, cookie, at, page, loading, profile,
                 refused, clicks>>

\* Mutant: a missing permission signs out like a missing session.
ReceiveLoadStrict(r) ==
  /\ r.kind = "load" /\ r.at = "answered"
  /\ IF r.status \in {401, 403} THEN SignOutAfter(r) ELSE wire' = wire \ {r}
  /\ UNCHANGED <<version, tokens, alive, jar, cookie, at, page, loading, profile,
                 shown, refused, clicks>>

\* The page's load.
ReceiveLoad(r) ==
  /\ r.kind = "load" /\ r.at = "answered"
  /\ LET here == r.page = page[r.tab]
     IN  /\ shown' = IF here /\ r.status = 200 THEN [shown EXCEPT ![r.tab] = r.no]
                     ELSE shown
         /\ refused' = IF here /\ r.status = 403 THEN refused \cup {r.tab} ELSE refused
  /\ IF r.status = 401 THEN SignOutAfter(r) ELSE wire' = wire \ {r}
  /\ UNCHANGED <<version, tokens, alive, jar, cookie, at, page, loading, profile,
                 clicks>>

\* The cookie goes only when the API answered; the tab goes in any case.
ReceiveLogout(r) ==
  /\ r.kind = "logout" /\ r.at = "answered"
  /\ cookie' = IF r.status = 200 THEN 0 ELSE cookie
  /\ Show(r.tab, IF r.cause = 0 THEN "home" ELSE "login")
  /\ wire' = wire \ {r}
  /\ UNCHANGED <<version, tokens, alive, jar, clicks>>

Receive(r) ==
  ReceiveSignIn(r) \/ ReceiveMe(r) \/ ReceiveLoad(r) \/ ReceiveLogout(r)

TabStep(t) ==
  \/ \E where \in {"login", "internal"} : Open(t, where)
  \/ \E u \in Staff : Submit(t, "login", u)
  \/ Submit(t, "demo", "nobody")
  \/ SignOut(t)

Next ==
  \/ (AccountChanges \/ CookieExpires) /\ UNCHANGED tabVars
  \/ \E r \in wire : Handle(r) /\ UNCHANGED tabVars
  \/ \E r \in wire : Receive(r)
  \/ \E t \in Tabs : TabStep(t)

Spec == Init /\ [][Next]_vars

-----------------------------------------------------------------------------
(* Properties.                                                             *)

\* A page never shows data fetched under an earlier session than the one its
\* heading names.
DataNotOlderThanProfile ==
  \A t \in Tabs : shown[t] # 0 => profile[t].no # 0 /\ profile[t].no <= shown[t]

\* A page refused what its own profile allowed only when the account has changed
\* since the sign-in, or another tab signed in after the profile was read.
RefusalsExplained ==
  \A t \in refused :
    \/ Len(jar) > profile[t].no
    \/ tokens[jar[profile[t].no]].version # profile[t].version

\* Sign-ins, profiles, data and refusals fit together in every tab.
PagesFitSession ==
  TypeOK /\ SignInsWereAllowed /\ DataNotOlderThanProfile /\ RefusalsExplained

\* Nothing but the user's own sign-out ends a session whose token is still good,
\* except the late 401 to another request of the page: to one sent with the cookie
\* of another session, without any cookie, or of an account that had been
\* deactivated since it signed in.
LiveSessionsKept ==
  [][cookie # 0 /\ cookie' = 0 /\ jar[cookie] \in alive =>
       \E r \in wire \ wire' :
         /\ r.kind = "logout"
         /\ \/ r.cause \in {0, Nothing}
            \/ jar[r.cause] \notin alive
            \/ DeactivatedSince(jar[r.cause])]_vars

\* A page does not stay loading.
SessionsLoad == \A t \in Tabs : loading[t] ~> ~loading[t]

=============================================================================
