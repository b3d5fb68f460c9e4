------------------------------ MODULE Session ------------------------------
(***************************************************************************)
(* Who is logged in, in one browser (middleware.tsx, services/session,     *)
(* app/(auth), app/page.tsx, app/role-management/page.tsx,                 *)
(* components/organisms/LoginForm and RoleManagementTable,                 *)
(* components/molecules/Navbar and UserNav).                               *)
(*                                                                         *)
(* The session is a cookie, which the tabs share: the account, and the     *)
(* role it had at its login.  A page asks for it once, when it is mounted, *)
(* and goes by that answer; every call of the API goes by the cookie of    *)
(* the moment, and the API by the role in the database.                    *)
(*                                                                         *)
(* Whatever the browser asks of the Next.js server, getSession and the     *)
(* login included, is a server action: a call waits for its turn in its    *)
(* tab, is served with the cookie of that moment, and its answer reaches   *)
(* the browser later (external: one call of a tab at a time, in the order  *)
(* they were made).                                                        *)
(*                                                                         *)
(* A navigation within the tab may end long after router.push or a link    *)
(* began it, and the page can be used until then; the router (external)    *)
(* asks the middleware, or shows a page, or follows a redirection, that it *)
(* has prefetched or kept, and for back and forward it asks nobody.  So    *)
(* any page may come at any time, whatever the cookie.  A page that the    *)
(* browser itself keeps for its back button is a tab that rests.           *)
(*                                                                         *)
(* The navigation bar goes by a session of its own that react-query keeps  *)
(* for the tab, possibly an old one; it only decides which links are       *)
(* offered.  Registration at the API is Accounts'.                         *)
(***************************************************************************)
EXTENDS Naturals, Sequences, FiniteSets

CONSTANTS
  Tabs,
  Accounts,
  InitRole,   \* InitRole[a]: the role of a at the start
  Roles,
  Nobody,     \* no session
  Unread,     \* the session has not been read
  MaxLogins,  \* bound: logins asked for in this browser
  MaxPicks    \* bound: changes of roles, in the tables and elsewhere

ASSUME SessionAssumption ==
  /\ {"user", "superadmin"} \subseteq Roles
  /\ InitRole \in [Accounts -> Roles]
  /\ Nobody \notin Tabs
  /\ {MaxLogins, MaxPicks} \subseteq Nat

VARIABLES
  role,    \* the roles in the database
  cookie,  \* Nobody, or [account, role]
  tabs,    \* [page, who, users, loading, loaded, changing, calls]
  logins,  \* logins asked for so far
  picks,   \* changes so far
  dated,   \* history: the tabs whose page shows, or is about to be told, the
           \* session of before the last login
  writer   \* history: the tab whose role table last changed the role of an
           \* account; or Nobody

sessionHistory == <<logins, picks, dated, writer>>
sessionVars == <<role, cookie, tabs, sessionHistory>>

Public == {"login", "register"}
Routes == Public \cup {"home", "roles"}

NoRows == [a \in {} |-> ""]

\* The server actions of a tab.  A call waits, is "answered", or has "failed";
\* a change was made by the page as it stands (live) or by one that was left.
Ask == [kind |-> "session", pc |-> "waiting", session |-> Nobody]
Load == [kind |-> "load", pc |-> "waiting", rows |-> NoRows]
ChangeOf(a, r) ==
  [kind |-> "change", pc |-> "waiting", live |-> TRUE, account |-> a, role |-> r]
SignIn(a) == [kind |-> "login", pc |-> "waiting", account |-> a, role |-> ""]
SignOut == [kind |-> "logout", pc |-> "waiting"]

\* who: the session as the page read it.  users: the rows of the role table, and
\* loaded: the last attempt to load them succeeded.  changing: the account
\* whose row is disabled.  A page behind the login begins by asking for the
\* session.
Blank(page) ==
  [page |-> page, who |-> Unread, users |-> NoRows, loading |-> FALSE,
   loaded |-> FALSE, changing |-> Nobody,
   calls |-> IF page \in Public THEN <<>> ELSE <<Ask>>]

SessionInit ==
  /\ role = InitRole
  /\ cookie = Nobody
  /\ tabs = [t \in Tabs |-> Blank("login")]
  /\ logins = 0 /\ picks = 0
  /\ dated = {}
  /\ writer = [a \in Accounts |-> Nobody]

-----------------------------------------------------------------------------
(* Navigation.                                                             *)

\* middleware: what is shown to whom asks for a page.
Landing(page) ==
  IF cookie = Nobody /\ page \notin Public THEN "login"
  ELSE IF cookie # Nobody /\ page \in Public THEN "home" ELSE page

Ascends(f) == \A i, j \in DOMAIN f : i < j => f[i] < f[j]

\* The numbers of S in their order.
InOrder(S) == CHOOSE f \in [1..Cardinality(S) -> S] : Ascends(f)

LeaveCall(call) ==
  IF call.kind = "change" THEN [call EXCEPT !.live = FALSE] ELSE call

\* What goes on without the page that asked for it: changes of roles, logins
\* and logouts.  What the page has asked to be told, nobody hears.
Left(calls) ==
  LET order == InOrder({i \in DOMAIN calls : calls[i].kind \notin {"session", "load"}})
  IN  [i \in DOMAIN order |-> LeaveCall(calls[order[i]])]

\* Mutant: a page goes by the session that the one before it has read.
MountedKnowing(tab, page) ==
  IF tab.who \in {Unread, Nobody}
    THEN [Blank(page) EXCEPT !.calls = Left(tab.calls) \o @]
    ELSE [Blank(page) EXCEPT !.calls = Left(tab.calls), !.who = tab.who]

\* The new page is mounted.
Mounted(tab, page) == [Blank(page) EXCEPT !.calls = Left(tab.calls) \o @]

\* The tab t has a new page.
Renew(t, tab) ==
  /\ tabs' = [tabs EXCEPT ![t] = tab]
  /\ writer' = [a \in Accounts |-> IF writer[a] = t THEN Nobody ELSE writer[a]]
  /\ dated' = dated \ {t}
  /\ UNCHANGED <<role, cookie, logins, picks>>

\* A navigation ends that a link, router.push or the back button has begun.
Arrive(t, page) == Renew(t, Mounted(tabs[t], page))

\* An address is typed in, or the tab is reloaded: its calls are gone.
Open(t, page) == Renew(t, Blank(Landing(page)))

-----------------------------------------------------------------------------
(* What the pages ask of the server.                                       *)

Calls(t) == tabs[t].calls

\* The login form is submitted.
Submit(t, a) ==
  /\ tabs[t].page = "login"
  /\ logins < MaxLogins
  /\ logins' = logins + 1
  /\ tabs' = [tabs EXCEPT ![t].calls = Append(@, SignIn(a))]
  /\ UNCHANGED <<role, cookie, picks, dated, writer>>

\* handleLogout of UserNav.  (One such call at a time is enough.)
Logout(t) ==
  /\ tabs[t].page \notin Public
  /\ \A i \in DOMAIN Calls(t) : Calls(t)[i].kind # "logout"
  /\ tabs' = [tabs EXCEPT ![t].calls = Append(@, SignOut)]
  /\ UNCHANGED <<role, cookie, sessionHistory>>

Authorized(t) ==
  /\ tabs[t].page = "roles"
  /\ tabs[t].who \notin {Unread, Nobody}
  /\ tabs[t].who.role = "superadmin"

\* handleRoleChange up to its await; loading hides the table.
Pick(t, a, r) ==
  /\ Authorized(t)
  /\ ~tabs[t].loading
  /\ a \in DOMAIN tabs[t].users \ {tabs[t].changing}
  /\ picks < MaxPicks
  /\ picks' = picks + 1
  /\ tabs' = [tabs EXCEPT ![t].changing = a, ![t].calls = Append(@, ChangeOf(a, r))]
  /\ UNCHANGED <<role, cookie, logins, dated, writer>>

-----------------------------------------------------------------------------
(* The server.                                                             *)

\* The call whose turn it is in the tab.
First(t) == Head(Calls(t))
Turn(t, kind, pc) == Calls(t) # <<>> /\ First(t).kind = kind /\ First(t).pc = pc

\* It is served.
Answer(t, call) ==
  tabs' = [tabs EXCEPT ![t].calls[1] = [call EXCEPT !.pc = "answered"]]

\* getSession.
ServeSession(t) ==
  /\ Turn(t, "session", "waiting")
  /\ Answer(t, [First(t) EXCEPT !.session = cookie])
  /\ UNCHANGED <<role, cookie, sessionHistory>>

\* MIsSuperAdmin: the role of the cookie's account in the database.
Permitted == cookie # Nobody /\ role[cookie.account] = "superadmin"

\* Mutant: rows that are there are not read again.
RowsOnce(t) == IF tabs[t].users = NoRows THEN role ELSE tabs[t].users

\* getAllUsers.
Rows(t) == role

ServeLoad(t) ==
  /\ Turn(t, "load", "waiting")
  /\ Permitted
  /\ Answer(t, [First(t) EXCEPT !.rows = Rows(t)])
  /\ UNCHANGED <<role, cookie, sessionHistory>>

\* The API has changed the role.
SetRole(call, by) ==
  /\ Permitted
  /\ role' = [role EXCEPT ![call.account] = call.role]
  /\ writer' = [writer EXCEPT ![call.account] = by]

ServeRole(t) ==
  /\ Turn(t, "change", "waiting")
  /\ SetRole(First(t), IF First(t).live THEN t ELSE Nobody)
  /\ Answer(t, First(t))
  /\ UNCHANGED <<cookie, logins, picks, dated>>

\* The API accepts the password; its answer holds the role.
ServeLogin(t) ==
  /\ Turn(t, "login", "waiting")
  /\ Answer(t, [First(t) EXCEPT !.role = role[First(t).account]])
  /\ UNCHANGED <<role, cookie, sessionHistory>>

\* A change is refused, or fails; or it is made and its answer is lost.
FailChange(t) ==
  /\ Turn(t, "change", "waiting")
  /\ tabs' = [tabs EXCEPT ![t].calls[1].pc = "failed"]
  /\ UNCHANGED <<role, writer>> \/ SetRole(First(t), Nobody)
  /\ UNCHANGED <<cookie, logins, picks, dated>>

\* A role is changed from another browser, or by a call whose tab was reloaded.
Elsewhere(a, r) ==
  /\ picks < MaxPicks
  /\ picks' = picks + 1
  /\ role' = [role EXCEPT ![a] = r]
  /\ writer' = [writer EXCEPT ![a] = Nobody]
  /\ UNCHANGED <<cookie, tabs, logins, dated>>

\* The cookie expires after 30 days.
Expire ==
  /\ cookie # Nobody
  /\ cookie' = Nobody
  /\ UNCHANGED <<role, tabs, sessionHistory>>

-----------------------------------------------------------------------------
(* What the pages do with the answers.                                     *)

\* The tab without the call that was answered.
Heard(t) == [tabs[t] EXCEPT !.calls = Tail(@)]
WithLoad(tab) == [tab EXCEPT !.loading = TRUE, !.calls = Append(@, Load)]

\* The home page takes the role from the session; the page of the roles loads
\* its rows if that is superadmin.
SessionHeard(t) ==
  LET session == First(t).session
      tab == [Heard(t) EXCEPT !.who = session]
      loads == tab.page = "roles" /\ session # Nobody /\ session.role = "superadmin"
  IN
  /\ Turn(t, "session", "answered")
  /\ tabs' = [tabs EXCEPT ![t] = IF loads THEN WithLoad(tab) ELSE tab]
  /\ UNCHANGED <<role, cookie, sessionHistory>>

\* getSession throws: the home page goes on showing that it loads, the page of
\* the roles is not authorized.
SessionFails(t) ==
  /\ Turn(t, "session", "waiting")
  /\ tabs' = [tabs EXCEPT ![t] =
       IF @.page = "roles" THEN [Heard(t) EXCEPT !.who = Nobody] ELSE Heard(t)]
  /\ UNCHANGED <<role, cookie, sessionHistory>>

\* loadData ends.
LoadHeard(t) ==
  /\ Turn(t, "load", "answered")
  /\ tabs' = [tabs EXCEPT ![t] =
       [Heard(t) EXCEPT !.loading = FALSE, !.loaded = TRUE, !.users = First(t).rows]]
  /\ UNCHANGED <<role, cookie, sessionHistory>>

\* The API refuses to list the users, or one of the two calls fails: the old
\* rows stay.
LoadFails(t) ==
  /\ Turn(t, "load", "waiting")
  /\ tabs' = [tabs EXCEPT ![t] = [Heard(t) EXCEPT !.loading = FALSE, !.loaded = FALSE]]
  /\ UNCHANGED <<role, cookie, sessionHistory>>

\* handleRoleChange goes on, for the page it was begun on: after a change the
\* rows are loaded again.
ChangeHeard(t) ==
  LET tab == IF First(t).live THEN [Heard(t) EXCEPT !.changing = Nobody] ELSE Heard(t) IN
  /\ \/ /\ Turn(t, "change", "answered")
        /\ tabs' = [tabs EXCEPT ![t] = IF First(t).live THEN WithLoad(tab) ELSE tab]
     \/ /\ Turn(t, "change", "failed")
        /\ tabs' = [tabs EXCEPT ![t] = tab]
  /\ UNCHANGED <<role, cookie, sessionHistory>>

\* The page of the tab has read the session, or its answer is on the way.
Knows(t) ==
  \/ tabs[t].who # Unread
  \/ \E i \in DOMAIN Calls(t) : Calls(t)[i].kind = "session" /\ Calls(t)[i].pc = "answered"

\* The answer of the API becomes the cookie.
LoginHeard(t) ==
  /\ Turn(t, "login", "answered")
  /\ cookie' = [account |-> First(t).account, role |-> First(t).role]
  /\ dated' = {u \in Tabs : Knows(u)}
  /\ tabs' = [tabs EXCEPT ![t] = Heard(t)]
  /\ UNCHANGED <<role, logins, picks, writer>>

LoginFails(t) ==
  /\ Turn(t, "login", "waiting")
  /\ tabs' = [tabs EXCEPT ![t] = Heard(t)]
  /\ UNCHANGED <<role, cookie, sessionHistory>>

\* deleteSession, which may fail.
LogoutHeard(t) ==
  /\ Turn(t, "logout", "waiting")
  /\ cookie' \in {Nobody, cookie}
  /\ tabs' = [tabs EXCEPT ![t] = Heard(t)]
  /\ UNCHANGED <<role, sessionHistory>>

-----------------------------------------------------------------------------
Surf(t) == \E page \in Routes : Open(t, page) \/ Arrive(t, page)

Click(t) ==
  \/ \E a \in Accounts : Submit(t, a) \/ \E r \in Roles : Pick(t, a, r)
  \/ Logout(t)

ServeTab(t) ==
  ServeSession(t) \/ ServeLoad(t) \/ ServeRole(t) \/ FailChange(t) \/ ServeLogin(t)

Hear(t) ==
  \/ SessionHeard(t) \/ SessionFails(t) \/ LoadHeard(t) \/ LoadFails(t)
  \/ ChangeHeard(t) \/ LoginHeard(t) \/ LoginFails(t) \/ LogoutHeard(t)

SessionNext ==
  \/ Expire
  \/ \E a \in Accounts, r \in Roles : Elsewhere(a, r)
  \/ \E t \in Tabs : Surf(t) \/ Click(t) \/ ServeTab(t) \/ Hear(t)

SessionSpec == SessionInit /\ [][SessionNext]_sessionVars

-----------------------------------------------------------------------------
(* Properties.                                                             *)

\* What a page shows and does is of one account: the page was made for the
\* account that its calls will be made for, unless somebody has logged in, in
\* whichever tab, since the server read the session for the page.
PageIsOfItsAccount ==
  \A t \in Tabs :
    tabs[t].who \notin {Unread, Nobody} /\ cookie # Nobody
      /\ tabs[t].who.account # cookie.account
    => t \in dated

\* However changes, loads and visits overlap in the queue of the tab: when
\* all is answered and the last load succeeded, the table shows every change
\* that was made through it, and that nobody has changed since.
OwnRoleChangeShown ==
  \A t \in Tabs, a \in Accounts :
    tabs[t].calls = <<>> /\ tabs[t].loaded /\ writer[a] = t =>
      tabs[t].users[a] = role[a]
=============================================================================
