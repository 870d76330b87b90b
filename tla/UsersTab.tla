------------------------------ MODULE UsersTab ------------------------------
(***************************************************************************)
(* The tab "Users" of the admin panel: the accounts, edited in place, and  *)
(* the window with one user's details, where his wallet can be credited.   *)
(* The rows are loaded once, when the tab is shown, and later changed only *)
(* from the answers to what is done here.  Save sends the whole form, name *)
(* and is_active alike, whatever was edited.                               *)
(***************************************************************************)
EXTENDS Client

CONSTANTS
    User,   \* accounts that are not administrators, registered before the tab is shown
    Name

ASSUME UsersAssumption == Name # {} /\ None \notin User \cup Nat

VARIABLES
    account,         \* the server: the row of a user, or None
    wallet,          \* the server: the credits a wallet has received
    users,           \* the page's rows
    editId,          \* the row that is a form
    editForm,        \* the form, with whether is_active was ticked by hand
    detail,          \* the window: user, balance shown, what is typed and reported
    crediting,
    enteredTwice,    \* history: Enter was pressed while a credit was under way
    doubt            \* history: rows that may differ from the server's

userServer == <<account, wallet>>
userView   == <<users, editId, editForm, detail, crediting, enteredTwice, doubt>>
usersVars  == <<userServer, userView>>

Account  == [name : Name, active : BOOLEAN]
NoForm   == [name |-> None, active |-> FALSE, ticked |-> FALSE]
NoDetail == [user |-> None, balance |-> None, typed |-> FALSE, reported |-> 0]
NoUsers  == [u \in User |-> None]

UsersInit ==
    /\ account \in [User -> [name : {CHOOSE n \in Name : TRUE}, active : BOOLEAN]]
    /\ wallet = [u \in User |-> 0]
    /\ users = NoUsers
    /\ editId = None
    /\ editForm = NoForm
    /\ detail = NoDetail
    /\ crediting = FALSE
    /\ enteredTwice = FALSE
    /\ doubt = User

UsersListed == {u \in User : users[u] # None}
Covered  == detail # NoDetail     \* the window lies over the table
FormShown == ~Covered /\ editId \in UsersListed

\* A save or removal of u that may still reach the server.
Pending(u) == \E c \in Call : wire[c].op \in {"update", "remove"} /\ wire[c].arg.user = u

OpenUsers ==
    /\ ~mounted /\ mounted' = TRUE
    /\ Spend
    /\ Send("users", None)
    /\ doubt' = {u \in User : Pending(u)}
    /\ UNCHANGED <<userServer, users, editId, editForm, detail, crediting, enteredTwice>>

\* The fields start again from their first values when it is next opened.
LeaveUsers ==
    /\ Unmount
    /\ users' = NoUsers
    /\ editId' = None
    /\ editForm' = NoForm
    /\ detail' = NoDetail
    /\ crediting' = FALSE
    /\ enteredTwice' = FALSE
    /\ UNCHANGED <<userServer, doubt>>

\* getUsers().then: without catch, a failed load leaves no rows.
UsersLoaded(c) ==
    /\ \/ Answered(c, "users") /\ Take(c) /\ users' = wire[c].answer /\ UNCHANGED doubt
       \/ Rejected(c, "users") /\ doubt' = User /\ UNCHANGED users
    /\ UNCHANGED <<moves, mounted, userServer, editId, editForm, detail, crediting, enteredTwice>>

\* Mutant of startEdit: the form starts with the box ticked.
MutantStartEdit(u) ==
    /\ mounted /\ ~Covered
    /\ u \in UsersListed /\ editId # u
    /\ editId' = u
    /\ editForm' = [name |-> users[u].name, active |-> TRUE, ticked |-> FALSE]
    /\ UNCHANGED <<wire, moves, mounted, userServer, users, detail, crediting,
                   enteredTwice, doubt>>

\* The pencil copies the row as it is shown.
startEdit(u) ==
    /\ mounted /\ ~Covered
    /\ u \in UsersListed /\ editId # u
    /\ editId' = u
    /\ editForm' = [name |-> users[u].name, active |-> users[u].active, ticked |-> FALSE]
    /\ UNCHANGED <<wire, moves, mounted, userServer, users, detail, crediting,
                   enteredTwice, doubt>>

setEditForm(form) ==
    /\ mounted /\ FormShown
    /\ editForm' = form
    /\ UNCHANGED <<wire, moves, mounted, userServer, users, editId, detail, crediting,
                   enteredTwice, doubt>>

rename(n) == setEditForm([editForm EXCEPT !.name = n])
tick      == setEditForm([editForm EXCEPT !.active = ~@, !.ticked = TRUE])

cancelEdit ==
    /\ mounted /\ FormShown
    /\ editId' = None
    /\ editForm' = NoForm
    /\ UNCHANGED <<wire, moves, mounted, userServer, users, detail, crediting,
                   enteredTwice, doubt>>

\* Save stays enabled while its request is under way.
save ==
    /\ mounted /\ FormShown
    /\ Spend
    /\ Send("update", [user |-> editId, form |-> editForm])
    /\ doubt' = IF Pending(editId) THEN doubt \cup {editId} ELSE doubt
    /\ UNCHANGED <<mounted, userServer, users, editId, editForm, detail, crediting, enteredTwice>>

\* The row is what the server answered; whatever form is open is closed.
SaveAnswered(c) ==
    /\ \/ /\ Answered(c, "update") /\ Take(c)
          /\ LET u == wire[c].arg.user
             IN  users' = [users EXCEPT ![u] = IF @ = None THEN None ELSE wire[c].answer]
          /\ editId' = None
          /\ editForm' = NoForm
          /\ UNCHANGED doubt
       \/ /\ Rejected(c, "update")
          /\ doubt' = doubt \cup {wire[c].arg.user}
          /\ UNCHANGED <<users, editId, editForm>>
    /\ UNCHANGED <<moves, mounted, userServer, detail, crediting, enteredTwice>>

\* Not offered on the row that is a form, nor (by the page) on administrators.
remove(u) ==
    /\ mounted /\ ~Covered
    /\ u \in UsersListed /\ editId # u
    /\ Spend
    /\ Send("remove", [user |-> u, form |-> NoForm])
    /\ doubt' = IF Pending(u) THEN doubt \cup {u} ELSE doubt
    /\ UNCHANGED <<mounted, userServer, users, editId, editForm, detail, crediting, enteredTwice>>

\* Mutant of RemoveAnswered: leaves the row.
MutantRemoveAnswered(c) ==
    /\ \/ Answered(c, "remove") /\ Take(c) /\ UNCHANGED doubt
       \/ Rejected(c, "remove") /\ doubt' = doubt \cup {wire[c].arg.user}
    /\ UNCHANGED <<moves, mounted, userServer, users, editId, editForm, detail, crediting, enteredTwice>>

RemoveAnswered(c) ==
    /\ \/ /\ Answered(c, "remove") /\ Take(c)
          /\ users' = [users EXCEPT ![wire[c].arg.user] = None]
          /\ UNCHANGED doubt
       \/ /\ Rejected(c, "remove")
          /\ doubt' = doubt \cup {wire[c].arg.user}
          /\ UNCHANGED users
    /\ UNCHANGED <<moves, mounted, userServer, editId, editForm, detail, crediting, enteredTwice>>

(* The window of one user *)

openDetail(u) ==
    /\ mounted /\ ~Covered
    /\ u \in UsersListed /\ editId # u
    /\ Spend
    /\ Send("detail", [user |-> u, form |-> NoForm])
    /\ detail' = [NoDetail EXCEPT !.user = u]
    /\ UNCHANGED <<mounted, userServer, users, editId, editForm, crediting, enteredTwice, doubt>>

\* What the window waited for finds nobody.
closeDetail ==
    /\ mounted /\ Covered
    /\ detail' = NoDetail
    /\ wire' = [c \in Call |-> IF wire[c].op \in {"detail", "credit"} THEN Forgotten(wire[c])
                                                                    ELSE wire[c]]
    /\ crediting' = FALSE
    /\ enteredTwice' = FALSE
    /\ UNCHANGED <<moves, mounted, userServer, users, editId, editForm, doubt>>

DetailLoaded(c) ==
    /\ \/ Answered(c, "detail") /\ Take(c) /\ detail' = [detail EXCEPT !.balance = wire[c].answer]
       \/ Rejected(c, "detail") /\ UNCHANGED detail
    /\ UNCHANGED <<moves, mounted, userServer, users, editId, editForm, crediting,
                   enteredTwice, doubt>>

\* The amount can be typed, and credited, once the details are shown.
typeAmount ==
    /\ mounted /\ detail.balance # None /\ ~detail.typed
    /\ detail' = [detail EXCEPT !.typed = TRUE]
    /\ UNCHANGED <<wire, moves, mounted, userServer, users, editId, editForm, crediting,
                   enteredTwice, doubt>>

\* Mutant of CreditOffered: the button is not disabled.
MutantCreditOffered ==
    detail.balance # None

CreditOffered == detail.balance # None /\ ~crediting

handleCredit ==
    /\ mounted /\ detail.typed
    /\ Spend
    /\ Send("credit", [user |-> detail.user, form |-> NoForm])
    /\ crediting' = TRUE
    /\ UNCHANGED <<mounted, userServer, users, editId, editForm, detail, doubt>>

pressCredit == CreditOffered /\ handleCredit /\ UNCHANGED enteredTwice
pressEnter  == handleCredit /\ enteredTwice' = (enteredTwice \/ crediting)

Credited(c) ==
    /\ \/ /\ Answered(c, "credit") /\ Take(c)
          /\ detail' = [detail EXCEPT !.balance = wire[c].answer, !.typed = FALSE,
                          !.reported = IF @ > wire[c].answer THEN @ ELSE wire[c].answer]
       \/ Rejected(c, "credit") /\ UNCHANGED detail
    /\ crediting' = FALSE
    /\ UNCHANGED <<moves, mounted, userServer, users, editId, editForm, enteredTwice, doubt>>

(* The server, admin.py *)

ServeUsers(c) ==
    /\ Sent(c, "users")
    /\ Reply(c, "answered", account)
    /\ UNCHANGED <<moves, mounted, usersVars>>

update_user(c) ==
    /\ Sent(c, "update")
    /\ LET u == wire[c].arg.user
           row == [name |-> wire[c].arg.form.name, active |-> wire[c].arg.form.active]
       IN  IF account[u] = None
           THEN Reply(c, "refused", None) /\ UNCHANGED account
           ELSE account' = [account EXCEPT ![u] = row] /\ Reply(c, "answered", row)
    /\ UNCHANGED <<moves, mounted, wallet, userView>>

delete_user(c) ==
    /\ Sent(c, "remove")
    /\ LET u == wire[c].arg.user
       IN  IF account[u] = None
           THEN Reply(c, "refused", None) /\ UNCHANGED account
           ELSE account' = [account EXCEPT ![u] = None] /\ Reply(c, "answered", None)
    /\ UNCHANGED <<moves, mounted, wallet, userView>>

get_user_detail(c) ==
    /\ Sent(c, "detail")
    /\ LET u == wire[c].arg.user
       IN  IF account[u] = None THEN Reply(c, "refused", None)
                                ELSE Reply(c, "answered", wallet[u])
    /\ UNCHANGED <<moves, mounted, usersVars>>

admin_credit_wallet(c) ==
    /\ Sent(c, "credit")
    /\ LET u == wire[c].arg.user
       IN  IF account[u] = None
           THEN Reply(c, "refused", None) /\ UNCHANGED wallet
           ELSE wallet' = [wallet EXCEPT ![u] = @ + 1] /\ Reply(c, "answered", wallet[u] + 1)
    /\ UNCHANGED <<moves, mounted, account, userView>>

\* Another administrator (de)activates or deletes the account.
AccountChanges(u) ==
    /\ account[u] # None
    /\ Spend
    /\ \/ account' = [account EXCEPT ![u].active = ~@]
       \/ account' = [account EXCEPT ![u] = None]
    /\ doubt' = doubt \cup {u}
    /\ UNCHANGED <<wire, mounted, wallet, users, editId, editForm, detail, crediting, enteredTwice>>

UsersAnswer(c) == \/ UsersLoaded(c) \/ SaveAnswered(c) \/ RemoveAnswered(c)
                  \/ DetailLoaded(c) \/ Credited(c)
UsersServe(c)  == \/ ServeUsers(c) \/ update_user(c) \/ delete_user(c)
                  \/ get_user_detail(c) \/ admin_credit_wallet(c)

UsersNext ==
    \/ OpenUsers
    \/ LeaveUsers
    \/ \E u \in User : startEdit(u) \/ remove(u) \/ openDetail(u) \/ AccountChanges(u)
    \/ \E n \in Name : rename(n)
    \/ tick \/ cancelEdit \/ save
    \/ closeDetail \/ typeAmount \/ pressCredit \/ pressEnter
    \/ \E c \in Call : UsersAnswer(c) \/ UsersServe(c)

UsersTypeOK ==
    /\ account \in [User -> Account \cup {None}]
    /\ users \in [User -> Account \cup {None}]
    /\ wallet \in [User -> Nat]
    /\ editId \in User \cup {None}
    /\ editForm \in [name : Name \cup {None}, active : BOOLEAN, ticked : BOOLEAN]
    /\ detail \in [user : User \cup {None}, balance : Nat \cup {None},
                   typed : BOOLEAN, reported : Nat]
    /\ doubt \subseteq User
    /\ {crediting, enteredTwice} \subseteq BOOLEAN

(***************************************************************************)
(* When no answer is outstanding the tab shows the accounts as they are,   *)
(* but for those changed elsewhere, and those with two edits under way at  *)
(* once or an edit whose outcome is unknown.  Accounts registered since    *)
(* the tab was shown are not meant: it does not load its rows again.       *)
(***************************************************************************)
AccountsShownAreHeld ==
    mounted /\ Quiet => \A u \in User \ doubt : users[u] = account[u]

(***************************************************************************)
(* A deactivated account is active again only when the administrator       *)
(* ticked the box himself.  Renaming a user sends is_active too, taken     *)
(* from the row as it is shown, so this holds only for rows that are not   *)
(* stale.                                                                  *)
(***************************************************************************)
NoSilentReactivation ==
    [][\A c \in Call : Sent(c, "update") /\ wire'[c].state # "sent" =>
         LET u == wire[c].arg.user
         IN  account[u] # None /\ ~account[u].active /\ account'[u].active
               => wire[c].arg.form.ticked \/ u \in doubt]_account

(***************************************************************************)
(* The window does not show a balance from before a credit it reported,    *)
(* unless Enter was pressed while a credit was under way: the button is    *)
(* disabled then, the key is not, and both credits are booked.             *)
(***************************************************************************)
OwnCreditShown ==
    detail.balance # None /\ ~enteredTwice => detail.balance >= detail.reported
=============================================================================
