------------------------------- MODULE WebAuth -------------------------------
(***************************************************************************)
(* Signing in and out of the two web apps: AuthContext.jsx and             *)
(* AdminAuthContext.jsx, the interceptors of api/client.js, the pages that *)
(* sign in (Login, Register, AdminLogin) and out (the navigation bars),    *)
(* saveProfile, and what the server makes of the tokens (auth.py).         *)
(*                                                                         *)
(* The tabs of one browser share its localStorage (token and user) but     *)
(* each keeps the user of its React context: the tabs do not listen for    *)
(* changes of the storage.  A 401 empties the storage and loads the tab's  *)
(* document again.  `app` says which of the two apps the browser runs; the *)
(* other one lives on an origin of its own with other keys.                *)
(***************************************************************************)
EXTENDS Naturals, FiniteSets

CONSTANTS
    Tab,
    Account,
    Admin,       \* the accounts with is_admin, which no endpoint changes
    None,
    MaxCalls,    \* bound: requests a tab has under way
    MaxMishaps   \* bound: lost answers, and changes of what the server accepts

ASSUME AuthAssumption ==
    Admin \subseteq Account /\ None \notin Account /\ MaxCalls \in Nat /\ MaxMishaps \in Nat

VARIABLES
    app,         \* "user" or "admin"
    registered,  \* the server's accounts
    accepted,    \* the accounts whose tokens the server takes
    mishaps,
    token,       \* localStorage: whose token it holds
    stored,      \* localStorage: the user it holds
    open,        \* the tabs that run the app
    shown,       \* shown[t]: the user of the tab's React context
    calls,       \* the requests under way
    lateSave,    \* history: a profile was stored after the token had changed
    elsewhere    \* history: another tab changed the storage since this one set it

storage == <<token, stored>>
server == <<registered, accepted>>
vars == <<app, server, mishaps, storage, open, shown, calls, lateSave, elsewhere>>

Op == {"login", "register", "load", "save"}
CallRecord == [tab : Tab, op : Op, who : Account \cup {None}, bearer : Account \cup {None}]

Of(t) == {c \in calls : c.tab = t}
Waiting(t, op) == \E c \in Of(t) : c.op = op

Init ==
    /\ app \in {"user", "admin"}
    /\ registered \in SUBSET Account /\ Admin \subseteq registered
    /\ accepted = Account
    /\ mishaps = 0
    /\ token \in Account \cup {None}
    /\ token # None => token \in registered /\ (app = "admin" => token \in Admin)
    /\ stored = token
    /\ open = {}
    /\ shown = [t \in Tab |-> None]
    /\ calls = {}
    /\ lateSave = FALSE
    /\ elsewhere = [t \in Tab |-> FALSE]

\* PrivateRoute and GuestRoute: the pages behind the login need a user.
Screen(t) == IF t \notin open THEN "closed"
             ELSE IF shown[t] = None THEN "login" ELSE "inside"

\* The storage is written by tab t.
Store(t, newToken, newStored) ==
    /\ token' = newToken
    /\ stored' = newStored
    /\ elsewhere' = [u \in Tab |-> IF u = t THEN FALSE
                                   ELSE elsewhere[u] \/ newToken # token \/ newStored # stored]

\* AuthProvider's first state: the user app drops a stored administrator.
Start(t, found) ==
    IF app = "user" /\ found \in Admin
    THEN Store(t, None, None) /\ shown' = [shown EXCEPT ![t] = None]
    ELSE /\ shown' = [shown EXCEPT ![t] = found]
         /\ elsewhere' = [elsewhere EXCEPT ![t] = FALSE]
         /\ UNCHANGED storage

OpenTab(t) ==
    /\ t \notin open
    /\ open' = open \cup {t}
    /\ Start(t, stored)
    /\ UNCHANGED <<app, server, mishaps, calls, lateSave>>

CloseTab(t) ==
    /\ t \in open
    /\ open' = open \ {t}
    /\ shown' = [shown EXCEPT ![t] = None]
    /\ calls' = calls \ Of(t)
    /\ UNCHANGED <<app, server, mishaps, storage, lateSave, elsewhere>>

\* The request interceptor adds the token that is stored now.
Ask(t, op, who) ==
    /\ Cardinality(Of(t)) < MaxCalls
    /\ calls' = calls \cup {[tab |-> t, op |-> op, who |-> who, bearer |-> token]}
    /\ UNCHANGED <<app, server, mishaps, storage, open, shown, lateSave, elsewhere>>

\* The form's button is disabled while its request is under way.
FormOffered(t) == Screen(t) = "login" /\ ~Waiting(t, "login") /\ ~Waiting(t, "register")

SignIn(t, who) == FormOffered(t) /\ Ask(t, "login", who)
SignUp(t, who) == app = "user" /\ who \notin Admin /\ FormOffered(t) /\ Ask(t, "register", who)

\* A page behind the login polls or loads.
Load(t) == Screen(t) = "inside" /\ ~Waiting(t, "load") /\ Ask(t, "load", None)

saveProfile(t) ==
    app = "user" /\ Screen(t) = "inside" /\ ~Waiting(t, "save") /\ Ask(t, "save", None)

\* What the server decides.  Its decision and the page's step on the answer
\* are one step here: only what the server accepts could change in between,
\* and a change right after the answer has the same outcome.
LoginGranted(c)    == c.op = "login" /\ c.who \in registered \cap accepted
RegisterGranted(c) == c.op = "register" /\ c.who \notin registered
BearerAccepted(c)  == c.op \in {"load", "save"} /\ c.bearer \in accepted

\* Mutant of SignedIn: does not look at is_admin.
MutantSignedIn(c) ==
    /\ LoginGranted(c) \/ RegisterGranted(c)
    /\ registered' = registered \cup {c.who}
    /\ calls' = calls \ {c}
    /\ Store(c.tab, c.who, c.who)
    /\ shown' = [shown EXCEPT ![c.tab] = c.who]
    /\ UNCHANGED <<app, accepted, mishaps, open, lateSave>>

\* saveAuth: a signed-in administrator is sent to the other app by the user
\* app, and anybody else is turned away by the admin app.
SignedIn(c) ==
    /\ LoginGranted(c) \/ RegisterGranted(c)
    /\ registered' = registered \cup {c.who}
    /\ calls' = calls \ {c}
    /\ IF (c.who \in Admin) = (app = "admin")
       THEN Store(c.tab, c.who, c.who) /\ shown' = [shown EXCEPT ![c.tab] = c.who]
       ELSE UNCHANGED <<storage, shown, elsewhere>>
    /\ UNCHANGED <<app, accepted, mishaps, open, lateSave>>

\* setUser and localStorage.setItem('user'): the token is left as it is.
Saved(c) ==
    /\ c.op = "save" /\ BearerAccepted(c)
    /\ calls' = calls \ {c}
    /\ Store(c.tab, token, c.bearer)
    /\ shown' = [shown EXCEPT ![c.tab] = c.bearer]
    /\ lateSave' = (lateSave \/ c.bearer # token)
    /\ UNCHANGED <<app, server, mishaps, open>>

\* Mutant of Unauthorized: rejects a 401 like any other error.
MutantUnauthorized(c) ==
    /\ c.op = "login" \/ (c.op \in {"load", "save"} /\ ~BearerAccepted(c))
    /\ calls' = calls \ {c}
    /\ UNCHANGED <<app, server, mishaps, storage, open, shown, lateSave, elsewhere>>

\* The response interceptor on a 401 (a wrong password is one, too): the
\* storage is emptied and the document loaded again, which forgets the tab's
\* other requests.
Unauthorized(c) ==
    /\ c.op = "login" \/ (c.op \in {"load", "save"} /\ ~BearerAccepted(c))
    /\ Store(c.tab, None, None)
    /\ shown' = [shown EXCEPT ![c.tab] = None]
    /\ calls' = calls \ Of(c.tab)
    /\ UNCHANGED <<app, server, mishaps, open, lateSave>>

\* Data, a deactivated account (403), a registered address (400).
OtherAnswer(c) ==
    /\ \/ c.op = "load" /\ BearerAccepted(c)
       \/ c.op = "login" /\ c.who \in registered \ accepted
       \/ c.op = "register" /\ c.who \in registered
    /\ calls' = calls \ {c}
    /\ UNCHANGED <<app, server, mishaps, storage, open, shown, lateSave, elsewhere>>

\* A timeout: the server may have registered the account all the same.
Lost(c) ==
    /\ mishaps < MaxMishaps /\ mishaps' = mishaps + 1
    /\ calls' = calls \ {c}
    /\ \/ UNCHANGED registered
       \/ RegisterGranted(c) /\ registered' = registered \cup {c.who}
    /\ UNCHANGED <<app, accepted, storage, open, shown, lateSave, elsewhere>>

\* Mutant of Logout: empties the storage and leaves the context.
MutantLogout(t) ==
    /\ Screen(t) = "inside"
    /\ Store(t, None, None)
    /\ UNCHANGED <<app, server, mishaps, open, shown, calls, lateSave>>

\* handleLogout: requests under way are not cancelled.
Logout(t) ==
    /\ Screen(t) = "inside"
    /\ Store(t, None, None)
    /\ shown' = [shown EXCEPT ![t] = None]
    /\ UNCHANGED <<app, server, mishaps, open, calls, lateSave>>

\* A token expires or its account is deactivated or deleted; the account
\* comes back, or a new sign-in renews the token.
Flip(a) ==
    /\ mishaps < MaxMishaps /\ mishaps' = mishaps + 1
    /\ accepted' = IF a \in accepted THEN accepted \ {a} ELSE accepted \cup {a}
    /\ UNCHANGED <<app, registered, storage, open, shown, calls, lateSave, elsewhere>>

Answer(c) == SignedIn(c) \/ Saved(c) \/ Unauthorized(c) \/ OtherAnswer(c)

Next ==
    \/ \E t \in Tab :
         \/ OpenTab(t) \/ CloseTab(t) \/ Load(t) \/ saveProfile(t) \/ Logout(t)
         \/ \E who \in Account : SignUp(t, who) \/ SignIn(t, who)
    \/ \E c \in calls : Answer(c) \/ Lost(c)
    \/ \E a \in Account : Flip(a)

\* The dashboards of both apps poll, and their requests are answered.
Fairness ==
    \A t \in Tab : WF_vars(Load(t)) /\ WF_vars(\E c \in Of(t) : Answer(c))

Spec == Init /\ [][Next]_vars /\ Fairness

TypeOK ==
    /\ app \in {"user", "admin"}
    /\ registered \subseteq Account /\ accepted \subseteq Account
    /\ mishaps \in 0 .. MaxMishaps
    /\ token \in Account \cup {None} /\ stored \in Account \cup {None}
    /\ open \subseteq Tab
    /\ shown \in [Tab -> Account \cup {None}]
    /\ calls \subseteq CallRecord
    /\ lateSave \in BOOLEAN
    /\ elsewhere \in [Tab -> BOOLEAN]

(***************************************************************************)
(* "Admin tokens must never live in the user app" (AuthContext.jsx:9), and *)
(* only administrators get into the admin app, whatever the storage held   *)
(* when the first tab was opened and whoever signs in in which tab.        *)
(***************************************************************************)
OnlyOwnKind ==
    open # {} => \A a \in {token, stored} \cup {shown[t] : t \in open} :
                   a # None => (a \in Admin <=> app = "admin")

(***************************************************************************)
(* A tab shows the user whose token its requests bear, unless another tab  *)
(* changed the storage meanwhile or a saved profile was answered after the *)
(* token had changed: the name in the bar is then not who is charged.      *)
(***************************************************************************)
ShownIsSignedIn ==
    \A t \in open : ~elsewhere[t] /\ ~lateSave => shown[t] = token

(***************************************************************************)
(* The two keys of the storage name the same user, however the tabs write  *)
(* them, unless a profile was stored late.                                 *)
(***************************************************************************)
KeysAgree == ~lateSave => stored = token

\* The tab is behind the login with a token the server does not accept.
Dead(t) == Screen(t) = "inside" /\ (token = None \/ token \notin accepted)

(***************************************************************************)
(* A tab that polls does not stay behind the login with a token that is no *)
(* longer accepted, or that another tab has removed.                       *)
(***************************************************************************)
DeadSessionEnds == \A t \in Tab : Dead(t) ~> ~Dead(t)
=============================================================================
