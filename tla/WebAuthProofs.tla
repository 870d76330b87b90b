---------------------------- MODULE WebAuthProofs ----------------------------
(***************************************************************************)
(* Who is signed in where, for any number of tabs, accounts and requests   *)
(* under way.                                                              *)
(***************************************************************************)
EXTENDS WebAuth, TLAPS

(* A form names the account it signs in or up; what loads and saves does not. *)
CallsNamed ==
    \A c \in calls : c.op \in {"login", "register"} => c.who \in Account

TypeInv == TypeOK /\ CallsNamed

-----------------------------------------------------------------------------
(* What the steps write, one lemma per way to write the storage. *)

LEMMA StoreType ==
    ASSUME TypeInv, NEW t \in Tab, NEW x \in Account \cup {None}, NEW y \in Account \cup {None},
           Store(t, x, y)
    PROVE  /\ token' = x /\ stored' = y
           /\ elsewhere' \in [Tab -> BOOLEAN]
           /\ ~elsewhere'[t]
           /\ \A u \in Tab \ {t} : ~elsewhere'[u] => ~elsewhere[u] /\ x = token /\ y = stored
BY DEF TypeInv, TypeOK, Store

LEMMA CallFields ==
    ASSUME TypeInv, NEW c \in calls
    PROVE  /\ c.tab \in Tab /\ c.op \in Op
           /\ c.who \in Account \cup {None} /\ c.bearer \in Account \cup {None}
           /\ c.op \in {"login", "register"} => c.who \in Account
BY DEF TypeInv, TypeOK, CallRecord, CallsNamed

(* What an answer that signs somebody in, or stores a profile, is about. *)
LEMMA SignedInFields ==
    ASSUME TypeInv, NEW c \in calls, LoginGranted(c) \/ RegisterGranted(c)
    PROVE  c.who \in Account /\ c.tab \in Tab
BY CallFields DEF LoginGranted, RegisterGranted

LEMMA SavedFields ==
    ASSUME TypeInv, NEW c \in calls, BearerAccepted(c)
    PROVE  c.bearer \in Account /\ c.tab \in Tab
BY CallFields DEF BearerAccepted, TypeInv, TypeOK

(* The requests after a step are those before and, of Ask, one more. *)
LEMMA AskType ==
    ASSUME TypeInv, NEW t \in Tab, NEW op \in Op, NEW who \in Account \cup {None},
           op \in {"login", "register"} => who \in Account,
           Ask(t, op, who)
    PROVE  /\ calls' \subseteq CallRecord
           /\ CallsNamed'
BY DEF TypeInv, TypeOK, CallsNamed, Ask, CallRecord

-----------------------------------------------------------------------------
LEMMA InitType == Init => TypeInv
<1> SUFFICES ASSUME Init PROVE TypeInv
    OBVIOUS
<1>1. mishaps \in 0 .. MaxMishaps
    BY AuthAssumption DEF Init
<1>2. /\ registered \subseteq Account /\ accepted \subseteq Account
      /\ shown \in [Tab -> Account \cup {None}] /\ elsewhere \in [Tab -> BOOLEAN]
    BY DEF Init
<1>3. QED
    BY <1>1, <1>2 DEF Init, TypeInv, TypeOK, CallsNamed

LEMMA AskKeepsType ==
    ASSUME TypeInv, NEW t \in Tab, NEW op \in Op, NEW who \in Account \cup {None},
           op \in {"login", "register"} => who \in Account,
           Ask(t, op, who)
    PROVE  TypeInv'
<1>1. calls' \subseteq CallRecord /\ CallsNamed'
    BY AskType
<1>2. TypeOK'
    BY <1>1 DEF TypeInv, TypeOK, Ask, server, storage
<1>3. QED
    BY <1>1, <1>2 DEF TypeInv

LEMMA TabKeepsType ==
    ASSUME TypeInv, NEW t \in Tab,
           \/ OpenTab(t) \/ CloseTab(t) \/ Load(t) \/ saveProfile(t) \/ Logout(t)
           \/ \E who \in Account : SignUp(t, who) \/ SignIn(t, who)
    PROVE  TypeInv'
<1>1. CASE OpenTab(t)
  <2>1. stored \in Account \cup {None}
    BY DEF TypeInv, TypeOK
  <2>2. /\ shown' \in [Tab -> Account \cup {None}]
        /\ token' \in Account \cup {None} /\ stored' \in Account \cup {None}
        /\ elsewhere' \in [Tab -> BOOLEAN]
    BY <1>1, <2>1, StoreType DEF TypeInv, TypeOK, OpenTab, Start, storage
  <2>3. QED
    BY <1>1, <2>2 DEF TypeInv, TypeOK, CallsNamed, OpenTab, server
<1>2. CASE CloseTab(t)
    BY <1>2 DEF TypeInv, TypeOK, CallsNamed, CloseTab, server, storage
<1>3. CASE Load(t)
    BY <1>3, AskKeepsType DEF Load, Op
<1>4. CASE saveProfile(t)
    BY <1>4, AskKeepsType DEF saveProfile, Op
<1>5. CASE Logout(t)
  <2>1. Store(t, None, None)
    BY <1>5 DEF Logout
  <2>2. token' = None /\ stored' = None /\ elsewhere' \in [Tab -> BOOLEAN]
    BY <2>1, StoreType
  <2>3. QED
    BY <1>5, <2>2 DEF TypeInv, TypeOK, CallsNamed, Logout, server
<1>6. CASE \E who \in Account : SignUp(t, who) \/ SignIn(t, who)
    BY <1>6, AskKeepsType DEF SignUp, SignIn, Op
<1>7. QED
    BY <1>1, <1>2, <1>3, <1>4, <1>5, <1>6

LEMMA AnswerKeepsType ==
    ASSUME TypeInv, NEW c \in calls, Answer(c) \/ Lost(c)
    PROVE  TypeInv'
<1>0. c.tab \in Tab
    BY CallFields
<1>1. CASE SignedIn(c)
  <2>1. c.who \in Account
    BY <1>1, SignedInFields DEF SignedIn
  <2>2. /\ token' \in Account \cup {None} /\ stored' \in Account \cup {None}
        /\ elsewhere' \in [Tab -> BOOLEAN]
        /\ shown' \in [Tab -> Account \cup {None}]
    <3>1. CASE Store(c.tab, c.who, c.who) /\ shown' = [shown EXCEPT ![c.tab] = c.who]
        BY <1>0, <2>1, <3>1, StoreType DEF TypeInv, TypeOK
    <3>2. CASE UNCHANGED <<storage, shown, elsewhere>>
        BY <3>2 DEF TypeInv, TypeOK, storage
    <3>3. QED
        BY <1>1, <3>1, <3>2 DEF SignedIn
  <2>3. QED
    BY <1>1, <2>1, <2>2 DEF TypeInv, TypeOK, CallsNamed, SignedIn
<1>2. CASE Saved(c)
  <2>1. c.bearer \in Account /\ token \in Account \cup {None}
    BY <1>2, SavedFields DEF Saved, TypeInv, TypeOK
  <2>2. token' = token /\ stored' = c.bearer /\ elsewhere' \in [Tab -> BOOLEAN]
    BY <1>0, <1>2, <2>1, StoreType DEF Saved
  <2>3. QED
    BY <1>2, <2>1, <2>2 DEF TypeInv, TypeOK, CallsNamed, Saved, server
<1>3. CASE Unauthorized(c)
  <2>1. token' = None /\ stored' = None /\ elsewhere' \in [Tab -> BOOLEAN]
    BY <1>0, <1>3, StoreType DEF Unauthorized
  <2>2. QED
    BY <1>3, <2>1 DEF TypeInv, TypeOK, CallsNamed, Unauthorized, server
<1>4. CASE OtherAnswer(c)
    BY <1>4 DEF TypeInv, TypeOK, CallsNamed, OtherAnswer, server, storage
<1>5. CASE Lost(c)
  <2>1. registered' \subseteq Account
    BY <1>5, SignedInFields DEF Lost, TypeInv, TypeOK
  <2>2. mishaps' \in 0 .. MaxMishaps
    BY <1>5, AuthAssumption DEF Lost, TypeInv, TypeOK
  <2>3. QED
    BY <1>5, <2>1, <2>2 DEF TypeInv, TypeOK, CallsNamed, Lost, storage
<1>6. QED
    BY <1>1, <1>2, <1>3, <1>4, <1>5 DEF Answer

LEMMA FlipKeepsType ==
    ASSUME TypeInv, NEW a \in Account, Flip(a)
    PROVE  TypeInv'
<1>1. mishaps' \in 0 .. MaxMishaps
    BY AuthAssumption DEF Flip, TypeInv, TypeOK
<1>2. QED
    BY <1>1 DEF TypeInv, TypeOK, CallsNamed, Flip, storage

LEMMA NextKeepsType == TypeInv /\ [Next]_vars => TypeInv'
<1> SUFFICES ASSUME TypeInv, [Next]_vars PROVE TypeInv'
    OBVIOUS
<1>1. CASE UNCHANGED vars
    BY <1>1 DEF TypeInv, TypeOK, CallsNamed, vars, server, storage
<1>2. CASE Next
    BY <1>2, TabKeepsType, AnswerKeepsType, FlipKeepsType DEF Next
<1>3. QED
    BY <1>1, <1>2

LEMMA AlwaysTypeInv == Spec => []TypeInv
BY InitType, NextKeepsType, PTL DEF Spec

(* Type correctness: the storage and every tab name registered accounts or  *)
(* nobody, whatever tabs are opened and closed and however answers overlap. *)
THEOREM TypeCorrect == Spec => []TypeOK
<1>1. TypeInv => TypeOK
    BY DEF TypeInv
<1>2. QED
    BY <1>1, AlwaysTypeInv, PTL

-----------------------------------------------------------------------------
(* The two keys *)

(* KeysAgree is inductive: every step that stores two different names sets *)
(* lateSave.                                                               *)
LEMMA NextKeepsKeys == TypeInv /\ KeysAgree /\ [Next]_vars => KeysAgree'
<1> SUFFICES ASSUME TypeInv, KeysAgree, [Next]_vars PROVE KeysAgree'
    OBVIOUS
<1>1. CASE UNCHANGED <<storage, lateSave>>
    BY <1>1 DEF KeysAgree, storage
<1>2. ASSUME NEW t \in Tab, Store(t, None, None), UNCHANGED lateSave PROVE KeysAgree'
    BY <1>2 DEF KeysAgree, Store
<1>3. ASSUME NEW t \in Tab, NEW who \in Account, Ask(t, "login", who) \/ Ask(t, "register", who)
      PROVE  KeysAgree'
    BY <1>1, <1>3 DEF Ask
<1>4. ASSUME NEW t \in Tab, Ask(t, "load", None) \/ Ask(t, "save", None) PROVE KeysAgree'
    BY <1>1, <1>4 DEF Ask
<1>5. ASSUME NEW t \in Tab, OpenTab(t) PROVE KeysAgree'
    BY <1>1, <1>2, <1>5 DEF OpenTab, Start
<1>6. ASSUME NEW t \in Tab,
             \/ CloseTab(t) \/ Load(t) \/ saveProfile(t) \/ Logout(t)
             \/ \E who \in Account : SignUp(t, who) \/ SignIn(t, who)
      PROVE  KeysAgree'
    BY <1>1, <1>2, <1>3, <1>4, <1>6 DEF CloseTab, Load, saveProfile, Logout, SignUp, SignIn
<1>7. ASSUME NEW c \in calls, SignedIn(c) PROVE KeysAgree'
    BY <1>1, <1>7 DEF SignedIn, Store, KeysAgree
<1>8. ASSUME NEW c \in calls, Saved(c) PROVE KeysAgree'
    BY <1>8 DEF Saved, Store, KeysAgree
<1>9. ASSUME NEW c \in calls, Unauthorized(c) \/ OtherAnswer(c) \/ Lost(c) PROVE KeysAgree'
  <2>1. c.tab \in Tab
    BY CallFields
  <2>2. QED
    BY <1>1, <1>2, <1>9, <2>1 DEF Unauthorized, OtherAnswer, Lost
<1>10. ASSUME NEW a \in Account, Flip(a) PROVE KeysAgree'
    BY <1>1, <1>10 DEF Flip
<1>11. CASE UNCHANGED vars
    BY <1>1, <1>11 DEF vars
<1>12. QED
    BY <1>5, <1>6, <1>7, <1>8, <1>9, <1>10, <1>11 DEF Next, Answer

LEMMA AlwaysKeysAgree == Spec => []KeysAgree
<1>1. Init => KeysAgree
    BY DEF Init, KeysAgree
<1>2. QED
    BY <1>1, AlwaysTypeInv, NextKeepsKeys, PTL DEF Spec

(* The storage names one user, or a profile was stored after the token had  *)
(* changed: no order of signing in and out in any number of tabs separates  *)
(* the token from the user.                                                 *)
THEOREM KeysAgreeCorrect == Spec => []KeysAgree
BY AlwaysKeysAgree

-----------------------------------------------------------------------------
(* The user shown *)

(* A tab that wrote the storage last shows what it wrote; the others know   *)
(* that something has changed.                                              *)
LEMMA WriterShows ==
    ASSUME TypeInv, ShownIsSignedIn, NEW t \in Tab, NEW x \in Account \cup {None},
           NEW y \in Account \cup {None}, Store(t, x, y),
           shown' = [shown EXCEPT ![t] = x], open' \subseteq open \cup {t}, lateSave' = lateSave
    PROVE  ShownIsSignedIn'
<1> SUFFICES ASSUME NEW u \in open', ~elsewhere'[u], ~lateSave' PROVE shown'[u] = token'
    BY DEF ShownIsSignedIn
<1>1. shown \in [Tab -> Account \cup {None}] /\ open \subseteq Tab
    BY DEF TypeInv, TypeOK
<1>2. CASE u = t
    BY <1>1, <1>2, StoreType
<1>3. CASE u # t
  <2>1. ~elsewhere[u] /\ x = token
    BY <1>1, <1>3, StoreType
  <2>2. QED
    BY <1>1, <1>3, <2>1, StoreType DEF ShownIsSignedIn
<1>4. QED
    BY <1>2, <1>3

LEMMA NextKeepsShown ==
    TypeInv /\ KeysAgree /\ ShownIsSignedIn /\ [Next]_vars => ShownIsSignedIn'
<1> SUFFICES ASSUME TypeInv, KeysAgree, ShownIsSignedIn, [Next]_vars PROVE ShownIsSignedIn'
    OBVIOUS
<1>0. /\ shown \in [Tab -> Account \cup {None}] /\ open \subseteq Tab
      /\ elsewhere \in [Tab -> BOOLEAN]
      /\ token \in Account \cup {None} /\ stored \in Account \cup {None}
    BY DEF TypeInv, TypeOK
<1>1. CASE UNCHANGED <<token, open, shown, lateSave, elsewhere>>
    BY <1>1 DEF ShownIsSignedIn
<1>2. ASSUME NEW t \in Tab, OpenTab(t) PROVE ShownIsSignedIn'
  <2>1. CASE Store(t, None, None) /\ shown' = [shown EXCEPT ![t] = None]
    BY <1>2, <2>1, WriterShows DEF OpenTab
  <2>2. CASE /\ shown' = [shown EXCEPT ![t] = stored]
             /\ elsewhere' = [elsewhere EXCEPT ![t] = FALSE]
             /\ UNCHANGED storage
    BY <1>0, <1>2, <2>2 DEF OpenTab, ShownIsSignedIn, KeysAgree, storage
  <2>3. QED
    BY <1>2, <2>1, <2>2 DEF OpenTab, Start
<1>3. ASSUME NEW t \in Tab, CloseTab(t) PROVE ShownIsSignedIn'
    BY <1>0, <1>3 DEF CloseTab, ShownIsSignedIn, storage
<1>4. ASSUME NEW t \in Tab,
             \/ Load(t) \/ saveProfile(t)
             \/ \E who \in Account : SignUp(t, who) \/ SignIn(t, who)
      PROVE  ShownIsSignedIn'
    BY <1>1, <1>4 DEF Load, saveProfile, SignUp, SignIn, Ask, storage
<1>5. ASSUME NEW t \in Tab, Logout(t) PROVE ShownIsSignedIn'
    BY <1>5, WriterShows DEF Logout
<1>6. ASSUME NEW c \in calls, SignedIn(c) PROVE ShownIsSignedIn'
  <2>1. c.who \in Account /\ c.tab \in Tab
    BY <1>6, SignedInFields DEF SignedIn
  <2>2. CASE Store(c.tab, c.who, c.who) /\ shown' = [shown EXCEPT ![c.tab] = c.who]
    BY <1>6, <2>1, <2>2, WriterShows DEF SignedIn
  <2>3. CASE UNCHANGED <<storage, shown, elsewhere>>
    BY <1>1, <1>6, <2>3 DEF SignedIn, storage
  <2>4. QED
    BY <1>6, <2>2, <2>3 DEF SignedIn
<1>7. ASSUME NEW c \in calls, Saved(c) PROVE ShownIsSignedIn'
  <2>1. c.bearer \in Account /\ c.tab \in Tab
    BY <1>7, SavedFields DEF Saved
  <2>2. CASE c.bearer = token
    <3>1. lateSave' = lateSave
        BY <1>7, <2>2 DEF Saved, TypeInv, TypeOK
    <3>2. QED
        BY <1>0, <1>7, <2>1, <2>2, <3>1, WriterShows DEF Saved
  <2>3. CASE c.bearer # token
    BY <1>7, <2>3 DEF Saved, ShownIsSignedIn
  <2>4. QED
    BY <2>2, <2>3
<1>8. ASSUME NEW c \in calls, Unauthorized(c) PROVE ShownIsSignedIn'
    BY <1>8, CallFields, WriterShows DEF Unauthorized
<1>9. ASSUME NEW c \in calls, OtherAnswer(c) \/ Lost(c) PROVE ShownIsSignedIn'
    BY <1>1, <1>9 DEF OtherAnswer, Lost, storage
<1>10. ASSUME NEW a \in Account, Flip(a) PROVE ShownIsSignedIn'
    BY <1>1, <1>10 DEF Flip, storage
<1>11. CASE UNCHANGED vars
    BY <1>1, <1>11 DEF vars, storage
<1>12. QED
    BY <1>2, <1>3, <1>4, <1>5, <1>6, <1>7, <1>8, <1>9, <1>10, <1>11 DEF Next, Answer

(* A tab shows the user whose token it sends, unless another tab changed    *)
(* the storage or a profile was stored late: of the tab's own requests no   *)
(* order of answers can make it show somebody else.                         *)
THEOREM ShownCorrect == Spec => []ShownIsSignedIn
<1>1. Init => ShownIsSignedIn
    BY DEF Init, ShownIsSignedIn
<1>2. QED
    BY <1>1, AlwaysTypeInv, AlwaysKeysAgree, NextKeepsShown, PTL DEF Spec

-----------------------------------------------------------------------------
(* The kind of user *)

(* a may be signed in to this app. *)
OwnKind(a) == a # None => (a \in Admin <=> app = "admin")

(* Inductive: OnlyOwnKind, that the requests under way bear such tokens and  *)
(* belong to open tabs, and that before the first tab is opened the storage  *)
(* holds one user, whom only the user app may have to turn away.             *)
KindInv ==
    /\ \/ OwnKind(token) /\ OwnKind(stored)
       \/ open = {} /\ stored = token /\ app = "user"
    /\ \A t \in open : OwnKind(shown[t])
    /\ \A c \in calls : c.tab \in open /\ OwnKind(c.bearer)

LEMMA KindIsOnlyOwnKind == KindInv => OnlyOwnKind
BY DEF KindInv, OnlyOwnKind, OwnKind

LEMMA InitKind == Init => KindInv
<1> SUFFICES ASSUME Init PROVE KindInv
    OBVIOUS
<1>1. \/ OwnKind(token) /\ OwnKind(stored)
      \/ open = {} /\ stored = token /\ app = "user"
    BY DEF Init, OwnKind
<1>2. QED
    BY <1>1 DEF Init, KindInv

(* A step that stores users of the right kind and shows one of them. *)
LEMMA StoreKeepsKind ==
    ASSUME TypeInv, KindInv, NEW t \in Tab, NEW x \in Account \cup {None},
           NEW y \in Account \cup {None}, Store(t, x, y), OwnKind(x), OwnKind(y), app' = app,
           NEW z \in Account \cup {None}, OwnKind(z), shown' = [shown EXCEPT ![t] = z],
           open \subseteq open', open' \subseteq open \cup {t}, calls' \subseteq calls
    PROVE  KindInv'
<1>1. shown \in [Tab -> Account \cup {None}] /\ open \subseteq Tab
    BY DEF TypeInv, TypeOK
<1>2. OwnKind(token)' /\ OwnKind(stored)'
    BY StoreType DEF OwnKind
<1>3. \A u \in open' : OwnKind(shown[u])'
    BY <1>1 DEF KindInv, OwnKind
<1>4. \A c \in calls' : c.tab \in open' /\ OwnKind(c.bearer)'
    BY DEF KindInv, OwnKind
<1>5. QED
    BY <1>2, <1>3, <1>4 DEF KindInv, OwnKind

LEMMA AskKeepsKind ==
    ASSUME TypeInv, KindInv, NEW t \in open, NEW op, NEW who, Ask(t, op, who)
    PROVE  KindInv'
<1>1. OwnKind(token) /\ OwnKind(stored)
    BY DEF KindInv
<1>2. UNCHANGED <<app, token, stored, open, shown>>
    BY DEF Ask, storage
<1>3. \A c \in calls' : c.tab \in open /\ OwnKind(c.bearer)
    BY <1>1 DEF Ask, KindInv
<1>4. QED
    BY <1>1, <1>2, <1>3 DEF KindInv, OwnKind

LEMMA NextKeepsKind == TypeInv /\ KindInv /\ [Next]_vars => KindInv'
<1> SUFFICES ASSUME TypeInv, KindInv, [Next]_vars PROVE KindInv'
    OBVIOUS
<1>0. /\ shown \in [Tab -> Account \cup {None}] /\ open \subseteq Tab
      /\ token \in Account \cup {None} /\ stored \in Account \cup {None}
      /\ OwnKind(None)
    BY DEF TypeInv, TypeOK, OwnKind
<1>1. CASE UNCHANGED <<app, token, stored, open, shown>> /\ calls' \subseteq calls
    BY <1>1 DEF KindInv, OwnKind
<1>2. ASSUME NEW t \in Tab, OpenTab(t) PROVE KindInv'
  <2>1. CASE app = "user" /\ stored \in Admin
    BY <1>0, <1>2, <2>1, StoreKeepsKind DEF OpenTab, Start
  <2>2. CASE ~(app = "user" /\ stored \in Admin)
    <3>1. OwnKind(token) /\ OwnKind(stored)
        BY <2>2 DEF KindInv, OwnKind
    <3>2. /\ shown' = [shown EXCEPT ![t] = stored] /\ open' = open \cup {t}
          /\ UNCHANGED <<app, token, stored, calls>>
        BY <1>2, <2>2 DEF OpenTab, Start, storage
    <3>3. \A u \in open' : OwnKind(shown'[u])
        BY <1>0, <3>1, <3>2 DEF KindInv
    <3>4. QED
        BY <3>1, <3>2, <3>3 DEF KindInv, OwnKind
  <2>3. QED
    BY <2>1, <2>2
<1>3. ASSUME NEW t \in Tab, CloseTab(t) PROVE KindInv'
  <2>1. OwnKind(token) /\ OwnKind(stored)
    BY <1>3 DEF CloseTab, KindInv
  <2>2. \A u \in open' : shown'[u] = shown[u]
    BY <1>0, <1>3 DEF CloseTab
  <2>3. \A c \in calls' : c \in calls /\ c.tab # t
    BY <1>3 DEF CloseTab, Of
  <2>4. QED
    BY <1>3, <2>1, <2>2, <2>3 DEF CloseTab, KindInv, OwnKind, storage
<1>4. ASSUME NEW t \in Tab,
             \/ Load(t) \/ saveProfile(t)
             \/ \E who \in Account : SignUp(t, who) \/ SignIn(t, who)
      PROVE  KindInv'
  <2>1. t \in open
    BY <1>4 DEF Load, saveProfile, SignUp, SignIn, FormOffered, Screen
  <2>2. QED
    BY <1>4, <2>1, AskKeepsKind DEF Load, saveProfile, SignUp, SignIn
<1>5. ASSUME NEW t \in Tab, Logout(t) PROVE KindInv'
    BY <1>0, <1>5, StoreKeepsKind DEF Logout
<1>6. ASSUME NEW c \in calls, SignedIn(c) PROVE KindInv'
  <2>1. c.who \in Account /\ c.tab \in Tab
    BY <1>6, SignedInFields DEF SignedIn
  <2>2. CASE (c.who \in Admin) = (app = "admin")
    <3>1. OwnKind(c.who)
        BY <2>2 DEF OwnKind
    <3>2. QED
        BY <1>6, <2>1, <2>2, <3>1, StoreKeepsKind DEF SignedIn
  <2>3. CASE (c.who \in Admin) # (app = "admin")
    BY <1>1, <1>6, <2>3 DEF SignedIn, storage
  <2>4. QED
    BY <2>2, <2>3
<1>7. ASSUME NEW c \in calls, Saved(c) PROVE KindInv'
  <2>1. c.bearer \in Account /\ c.tab \in Tab /\ OwnKind(c.bearer) /\ OwnKind(token)
    BY <1>7, SavedFields DEF Saved, KindInv
  <2>2. QED
    BY <1>0, <1>7, <2>1, StoreKeepsKind DEF Saved
<1>8. ASSUME NEW c \in calls, Unauthorized(c) PROVE KindInv'
    BY <1>0, <1>8, CallFields, StoreKeepsKind DEF Unauthorized
<1>9. ASSUME NEW c \in calls, OtherAnswer(c) \/ Lost(c) PROVE KindInv'
    BY <1>1, <1>9 DEF OtherAnswer, Lost, storage
<1>10. ASSUME NEW a \in Account, Flip(a) PROVE KindInv'
    BY <1>1, <1>10 DEF Flip, storage
<1>11. CASE UNCHANGED vars
    BY <1>1, <1>11 DEF vars, storage
<1>12. QED
    BY <1>2, <1>3, <1>4, <1>5, <1>6, <1>7, <1>8, <1>9, <1>10, <1>11 DEF Next, Answer

(* No administrator gets into the user app and nobody else into the admin   *)
(* app, from whatever the storage held, for any number of tabs and requests.*)
THEOREM OnlyOwnKindCorrect == Spec => []OnlyOwnKind
BY InitKind, AlwaysTypeInv, NextKeepsKind, KindIsOnlyOwnKind, PTL DEF Spec
=============================================================================
