-------------------------- MODULE AdminPanelProofs ---------------------------
(***************************************************************************)
(* What the tabs of the admin panel keep true for any number of requests   *)
(* under way, of accounts, sessions, transactions and pictures, whatever   *)
(* is answered late, lost or carried out after the panel has given up.     *)
(***************************************************************************)
EXTENDS AdminPanel, FiniteSetTheorems, SequenceTheorems, TLAPS

-----------------------------------------------------------------------------
(* Requests *)

MessageFields == {"op", "arg", "open", "answer", "state", "heard"}

IsMessage(m) ==
    /\ DOMAIN m = MessageFields
    /\ m.heard \in BOOLEAN
    /\ m.state \in {"free", "sent", "answered", "refused"}
    /\ m.state = "free" <=> m.op = "idle"
    /\ m.state \in {"answered", "refused"} => m.heard
    /\ m.op \notin Writes => m.heard = (m.op # "idle")

(* Every number holds a message, the free ones none, and a request that    *)
(* only reads is there no longer than somebody waits for it.               *)
WireOK ==
    /\ wire = [c \in Call |-> wire[c]]
    /\ \A c \in Call : IsMessage(wire[c])

(* Nobody waits for anything once the tab is left. *)
ClientInv ==
    /\ WireOK
    /\ moves \in 0 .. MaxMoves
    /\ mounted \in BOOLEAN
    /\ ~mounted => Quiet

Calls(op) == {c \in Call : wire[c].op = op}
Heard(op) == {c \in Call : wire[c].op = op /\ wire[c].heard}
AtMostOne(S) == \A c, d \in S : c = d

LEMMA IdleIsMessage ==
    /\ IsMessage(Idle)
    /\ Idle.op = "idle" /\ Idle.state = "free" /\ Idle.heard = FALSE
BY DEF IsMessage, MessageFields, Idle, Writes

LEMMA PutEffect ==
    ASSUME WireOK, NEW c \in Call, NEW m, IsMessage(m), wire' = [wire EXCEPT ![c] = m]
    PROVE  /\ WireOK'
           /\ wire'[c] = m
           /\ \A d \in Call \ {c} : wire'[d] = wire[d]
<1>1. wire'[c] = m /\ \A d \in Call \ {c} : wire'[d] = wire[d]
    BY DEF WireOK
<1>2. wire' = [d \in Call |-> wire'[d]]
    BY DEF WireOK
<1>3. \A d \in Call : IsMessage(wire'[d])
    BY <1>1 DEF WireOK
<1>4. QED
    BY <1>1, <1>2, <1>3 DEF WireOK, IsMessage

LEMMA FreshIsFree ==
    ASSUME WireOK, Room
    PROVE  Fresh \in Call /\ wire[Fresh].op = "idle" /\ wire[Fresh].state = "free"
<1>1. Fresh \in Call /\ wire[Fresh].state = "free"
    BY DEF Room, Fresh
<1>2. QED
    BY <1>1 DEF WireOK, IsMessage

LEMMA SendEffect ==
    ASSUME WireOK, NEW op, NEW arg, op # "idle", Send(op, arg)
    PROVE  /\ WireOK'
           /\ Fresh \in Call /\ wire[Fresh].op = "idle"
           /\ wire'[Fresh].op = op /\ wire'[Fresh].arg = arg
           /\ wire'[Fresh].state = "sent" /\ wire'[Fresh].heard
           /\ \A d \in Call \ {Fresh} : wire'[d] = wire[d]
<1>1. Fresh \in Call /\ wire[Fresh].op = "idle"
    BY FreshIsFree DEF Send
<1> DEFINE m == Request(op, arg)
<1>2. IsMessage(m) /\ m.op = op /\ m.arg = arg /\ m.state = "sent" /\ m.heard
    BY DEF IsMessage, MessageFields, Request
<1>3. wire' = [wire EXCEPT ![Fresh] = m]
    BY DEF Send
<1> HIDE DEF m
<1>4. WireOK' /\ wire'[Fresh] = m /\ \A d \in Call \ {Fresh} : wire'[d] = wire[d]
    BY <1>1, <1>2, <1>3, PutEffect
<1>5. QED
    BY <1>1, <1>2, <1>4

LEMMA SendAllEffect ==
    ASSUME WireOK, NEW c \in Call, NEW op, NEW parts, op # "idle", SendAll(c, op, parts)
    PROVE  /\ WireOK'
           /\ wire'[c].op = op /\ wire'[c].state = "sent" /\ wire'[c].heard
           /\ wire'[c].answer = [p \in parts |-> None]
           /\ \A d \in Call \ {c} : wire'[d] = wire[d]
<1> DEFINE m == Requests(op, parts)
<1>1. /\ IsMessage(m) /\ m.op = op /\ m.state = "sent" /\ m.heard
      /\ m.answer = [p \in parts |-> None]
    BY DEF IsMessage, MessageFields, Requests
<1>2. wire' = [wire EXCEPT ![c] = m]
    BY DEF SendAll
<1> HIDE DEF m
<1>3. WireOK' /\ wire'[c] = m /\ \A d \in Call \ {c} : wire'[d] = wire[d]
    BY <1>1, <1>2, PutEffect
<1>4. QED
    BY <1>1, <1>3

LEMMA FulfilEffect ==
    ASSUME WireOK, NEW c \in Call, NEW op, NEW p, NEW value, Fulfil(c, op, p, value)
    PROVE  /\ WireOK'
           /\ wire[c].op = op
           /\ wire'[c].op = wire[c].op /\ wire'[c].arg = wire[c].arg
           /\ wire'[c].heard = wire[c].heard /\ wire'[c].state = wire[c].state
           /\ DOMAIN wire'[c].answer = DOMAIN wire[c].answer
           /\ \A q \in DOMAIN wire[c].answer :
                 wire'[c].answer[q] = IF q = p THEN value ELSE wire[c].answer[q]
           /\ \A d \in Call \ {c} : wire'[d] = wire[d]
<1> DEFINE m == [wire[c] EXCEPT !.open = @ \ {p}, !.answer[p] = value]
<1>1. IsMessage(wire[c])
    BY DEF WireOK
<1>2. wire' = [wire EXCEPT ![c] = m]
    BY <1>1 DEF Fulfil, WireOK
<1>3. IsMessage(m) /\ m.op = wire[c].op /\ m.arg = wire[c].arg /\ m.heard = wire[c].heard
      /\ m.state = wire[c].state /\ m.answer = [wire[c].answer EXCEPT ![p] = value]
    BY <1>1 DEF IsMessage, MessageFields
<1>4. WireOK' /\ wire'[c] = m /\ \A d \in Call \ {c} : wire'[d] = wire[d]
    BY <1>2, <1>3, PutEffect
<1>5. wire[c].op = op
    BY DEF Fulfil
<1>6. /\ DOMAIN m.answer = DOMAIN wire[c].answer
      /\ \A q \in DOMAIN wire[c].answer :
            m.answer[q] = IF q = p THEN value ELSE wire[c].answer[q]
    BY <1>3
<1> HIDE DEF m
<1>7. QED
    BY <1>3, <1>4, <1>5, <1>6

LEMMA DropEffect ==
    ASSUME WireOK, NEW c \in Call, NEW op, NEW p, Drop(c, op, p)
    PROVE  /\ WireOK'
           /\ wire[c].op = op
           /\ wire'[c].op = wire[c].op /\ wire'[c].arg = wire[c].arg
           /\ wire'[c].heard = wire[c].heard /\ wire'[c].state = wire[c].state
           /\ wire'[c].answer = wire[c].answer
           /\ \A d \in Call \ {c} : wire'[d] = wire[d]
<1> DEFINE m == [wire[c] EXCEPT !.open = @ \ {p}]
<1>1. IsMessage(wire[c])
    BY DEF WireOK
<1>2. wire' = [wire EXCEPT ![c] = m]
    BY <1>1 DEF Drop, WireOK
<1>3. IsMessage(m) /\ m.op = wire[c].op /\ m.arg = wire[c].arg /\ m.heard = wire[c].heard
      /\ m.state = wire[c].state /\ m.answer = wire[c].answer
    BY <1>1 DEF IsMessage, MessageFields
<1>4. WireOK' /\ wire'[c] = m /\ \A d \in Call \ {c} : wire'[d] = wire[d]
    BY <1>2, <1>3, PutEffect
<1>5. QED
    BY <1>3, <1>4 DEF Drop

(* The server's answer finds the page that waits for it, or nobody. *)
LEMMA ReplyEffect ==
    ASSUME WireOK, NEW c \in Call, wire[c].op # "idle", NEW state \in {"answered", "refused"},
           NEW answer, Reply(c, state, answer)
    PROVE  /\ WireOK'
           /\ ~wire[c].heard => wire'[c].op = "idle" /\ wire'[c].state = "free"
           /\ wire[c].heard => /\ wire'[c].op = wire[c].op /\ wire'[c].arg = wire[c].arg
                               /\ wire'[c].state = state /\ wire'[c].answer = answer
           /\ wire'[c].heard = wire[c].heard
           /\ \A d \in Call \ {c} : wire'[d] = wire[d]
<1>1. IsMessage(wire[c])
    BY DEF WireOK
<1>2. CASE wire[c].heard
  <2> DEFINE m == [wire[c] EXCEPT !.state = state, !.answer = answer]
  <2>1. wire' = [wire EXCEPT ![c] = m]
    BY <1>2 DEF Reply
  <2>2. IsMessage(m) /\ m.op = wire[c].op /\ m.arg = wire[c].arg /\ m.heard = wire[c].heard
        /\ m.state = state /\ m.answer = answer
    BY <1>1, <1>2 DEF IsMessage, MessageFields
  <2>3. WireOK' /\ wire'[c] = m /\ \A d \in Call \ {c} : wire'[d] = wire[d]
    BY <2>1, <2>2, PutEffect
  <2>4. QED
    BY <1>2, <2>2, <2>3
<1>3. CASE ~wire[c].heard
  <2>1. wire' = [wire EXCEPT ![c] = Idle]
    BY <1>3 DEF Reply
  <2>2. WireOK' /\ wire'[c] = Idle /\ \A d \in Call \ {c} : wire'[d] = wire[d]
    BY <2>1, IdleIsMessage, PutEffect
  <2>3. wire[c].heard = FALSE
    BY <1>1, <1>3 DEF IsMessage
  <2>4. QED
    BY <1>3, <2>2, <2>3, IdleIsMessage
<1>4. QED
    BY <1>2, <1>3

LEMMA TakeEffect ==
    ASSUME WireOK, NEW c \in Call, Take(c)
    PROVE  /\ WireOK'
           /\ wire'[c].op = "idle" /\ wire'[c].state = "free" /\ ~wire'[c].heard
           /\ \A d \in Call \ {c} : wire'[d] = wire[d]
BY PutEffect, IdleIsMessage DEF Take

(* What is left is nothing, or a write that was sent and nobody waits for. *)
LEMMA ForgottenMessage ==
    ASSUME NEW m, IsMessage(m)
    PROVE  /\ IsMessage(Forgotten(m))
           /\ ~Forgotten(m).heard
           /\ \/ Forgotten(m).op = "idle" /\ Forgotten(m).state = "free"
              \/ /\ m.op \in Writes /\ m.state = "sent"
                 /\ Forgotten(m).op = m.op /\ Forgotten(m).arg = m.arg
                 /\ Forgotten(m).state = "sent"
<1>1. CASE m.state = "sent" /\ m.op \in Writes
    BY <1>1 DEF Forgotten, IsMessage, MessageFields
<1>2. CASE ~(m.state = "sent" /\ m.op \in Writes)
    BY <1>2, IdleIsMessage DEF Forgotten
<1>3. QED
    BY <1>1, <1>2

LEMMA RejectedEffect ==
    ASSUME WireOK, NEW c \in Call, NEW op, Rejected(c, op)
    PROVE  /\ WireOK'
           /\ wire[c].op = op /\ wire[c].heard /\ ~wire'[c].heard
           /\ \/ wire'[c].op = "idle" /\ wire'[c].state = "free"
              \/ /\ op \in Writes /\ wire[c].state = "sent"
                 /\ wire'[c].op = op /\ wire'[c].arg = wire[c].arg
                 /\ wire'[c].state = "sent"
           /\ \A d \in Call \ {c} : wire'[d] = wire[d]
<1>1. IsMessage(wire[c]) /\ wire[c].op = op
    BY DEF WireOK, Rejected
<1>2. wire' = [wire EXCEPT ![c] = Forgotten(wire[c])]
    BY DEF Rejected
<1>3. IsMessage(Forgotten(wire[c]))
    BY <1>1, ForgottenMessage
<1>4. WireOK' /\ wire'[c] = Forgotten(wire[c]) /\ \A d \in Call \ {c} : wire'[d] = wire[d]
    BY <1>2, <1>3, PutEffect
<1>5. QED
    BY <1>1, <1>4, ForgottenMessage DEF Rejected

(* Forgetting some requests and keeping the others. *)
LEMMA ForgetEffect ==
    ASSUME WireOK, NEW S,
           wire' = [c \in Call |-> IF c \in S THEN Forgotten(wire[c]) ELSE wire[c]]
    PROVE  /\ WireOK'
           /\ \A c \in Call \ S : wire'[c] = wire[c]
           /\ \A c \in Call \cap S :
                 /\ ~wire'[c].heard
                 /\ \/ wire'[c].op = "idle" /\ wire'[c].state = "free"
                    \/ /\ wire[c].op \in Writes /\ wire[c].state = "sent"
                       /\ wire'[c].op = wire[c].op /\ wire'[c].arg = wire[c].arg
                       /\ wire'[c].state = "sent"
<1>1. /\ \A c \in Call \cap S : wire'[c] = Forgotten(wire[c])
      /\ \A c \in Call \ S : wire'[c] = wire[c]
      /\ wire' = [c \in Call |-> wire'[c]]
    OBVIOUS
<1>2. \A c \in Call : IsMessage(wire[c])
    BY DEF WireOK
<1>3. \A c \in Call : IsMessage(wire'[c])
    BY <1>1, <1>2, ForgottenMessage
<1>4. WireOK'
    BY <1>1, <1>3 DEF WireOK, IsMessage
<1>5. QED
    BY <1>1, <1>2, <1>4, ForgottenMessage

LEMMA UnmountEffect ==
    ASSUME WireOK, Unmount
    PROVE  /\ WireOK'
           /\ mounted' = FALSE
           /\ \A c \in Call :
                 /\ ~wire'[c].heard
                 /\ \/ wire'[c].op = "idle" /\ wire'[c].state = "free"
                    \/ /\ wire[c].op \in Writes /\ wire[c].state = "sent"
                       /\ wire'[c].op = wire[c].op /\ wire'[c].arg = wire[c].arg
                       /\ wire'[c].state = "sent"
<1>1. wire' = [c \in Call |-> IF c \in Call THEN Forgotten(wire[c]) ELSE wire[c]]
    BY DEF Unmount
<1>2. QED
    BY <1>1, ForgetEffect DEF Unmount

LEMMA WireUnchanged ==
    ASSUME WireOK, UNCHANGED wire
    PROVE  WireOK'
BY DEF WireOK, IsMessage

-----------------------------------------------------------------------------
(* Whatever a tab does, the requests stay well formed and nobody waits for *)
(* the answers of a tab that is left.                                      *)

LEMMA ClientKept ==
    ASSUME ClientInv, WireOK', moves' = moves \/ Spend,
           \/ mounted' = TRUE
           \/ mounted' = mounted /\ \A c \in Call : wire'[c].heard => wire[c].heard
           \/ mounted' = FALSE /\ \A c \in Call : ~wire'[c].heard
    PROVE  ClientInv'
<1>1. moves' \in 0 .. MaxMoves
    BY ClientAssumption DEF ClientInv, Spend
<1>2. QED
    BY <1>1 DEF ClientInv, Quiet

LEMMA SendClient ==
    ASSUME ClientInv, NEW op, NEW arg, op # "idle", Send(op, arg),
           moves' = moves \/ Spend, mounted' = TRUE \/ (mounted' = mounted /\ mounted)
    PROVE  ClientInv'
BY SendEffect, ClientKept DEF ClientInv

LEMMA SendAllClient ==
    ASSUME ClientInv, NEW c \in Call, NEW op, NEW parts, op # "idle", SendAll(c, op, parts),
           moves' = moves \/ Spend,
           mounted' = TRUE \/ (mounted' = mounted /\ (mounted \/ wire[c].heard))
    PROVE  ClientInv'
<1>1. mounted' = TRUE
    BY DEF ClientInv, Quiet
<1>2. QED
    BY <1>1, SendAllEffect, ClientKept DEF ClientInv

LEMMA ReplyClient ==
    ASSUME ClientInv, NEW c \in Call, wire[c].op # "idle", NEW state \in {"answered", "refused"},
           NEW answer, Reply(c, state, answer), UNCHANGED <<moves, mounted>>
    PROVE  ClientInv'
<1>1. WireOK' /\ wire'[c].heard = wire[c].heard /\ \A d \in Call \ {c} : wire'[d] = wire[d]
    BY ReplyEffect DEF ClientInv
<1>2. QED
    BY <1>1, ClientKept

LEMMA FulfilClient ==
    ASSUME ClientInv, NEW c \in Call, NEW op, NEW p, NEW value,
           Fulfil(c, op, p, value) \/ Drop(c, op, p), moves' = moves \/ Spend, mounted' = mounted
    PROVE  ClientInv'
<1>1. WireOK' /\ wire'[c].heard = wire[c].heard /\ \A d \in Call \ {c} : wire'[d] = wire[d]
    BY FulfilEffect, DropEffect DEF ClientInv
<1>2. QED
    BY <1>1, ClientKept

LEMMA TakeClient ==
    ASSUME ClientInv, NEW c \in Call, NEW op, Take(c) \/ Rejected(c, op),
           UNCHANGED <<moves, mounted>>
    PROVE  ClientInv'
<1>1. WireOK' /\ ~wire'[c].heard /\ \A d \in Call \ {c} : wire'[d] = wire[d]
    BY TakeEffect, RejectedEffect DEF ClientInv
<1>2. QED
    BY <1>1, ClientKept

LEMMA UnmountClient ==
    ASSUME ClientInv, Unmount
    PROVE  ClientInv'
BY UnmountEffect, ClientKept DEF ClientInv, Unmount

LEMMA QuietClient ==
    ASSUME ClientInv, UNCHANGED <<wire, mounted>>, moves' = moves \/ Spend
    PROVE  ClientInv'
BY WireUnchanged, ClientKept DEF ClientInv

LEMMA HomeClient ==
    ASSUME ClientInv, HomeNext
    PROVE  ClientInv'
<1>1. ASSUME OpenPanel PROVE ClientInv'
    BY <1>1, FreshIsFree, SendAllClient DEF OpenPanel, fetchBase, ClientInv
<1>2. ASSUME LeavePanel PROVE ClientInv'
    BY <1>2, UnmountClient DEF LeavePanel
<1>3. ASSUME PollBase PROVE ClientInv'
    BY <1>3, FreshIsFree, SendAllClient DEF PollBase, fetchBase, ClientInv
<1>4. ASSUME NEW t \in HomeTab, setTab(t) PROVE ClientInv'
  <2> DEFINE S == {c \in Call : wire[c].op # "base"}
             kept == [c \in Call |-> IF c \in S THEN Forgotten(wire[c]) ELSE wire[c]]
  <2>1. kept = [c \in Call |-> IF wire[c].op = "base" THEN wire[c] ELSE Forgotten(wire[c])]
    OBVIOUS
  <2>2. \A c \in Call : IsMessage(kept[c])
    BY ForgottenMessage DEF ClientInv, WireOK
  <2>3. /\ \A c \in Call : wire'[c] = kept[c] \/ wire'[c] = Request("occupied", None)
        /\ wire' = [c \in Call |-> wire'[c]]
    <3>1. CASE t = "slots"
      <4>1. PICK c \in Call : wire' = [kept EXCEPT ![c] = Request("occupied", None)]
        BY <1>4, <2>1, <3>1 DEF setTab
      <4>2. QED
        BY <4>1
    <3>2. CASE t # "slots"
      BY <1>4, <2>1, <3>2 DEF setTab
    <3>3. QED
      BY <3>1, <3>2
  <2>4. IsMessage(Request("occupied", None))
    BY DEF IsMessage, MessageFields, Request, Writes
  <2>5. WireOK'
    <3>1. \A c \in Call : IsMessage(wire'[c])
      BY <2>2, <2>3, <2>4
    <3>2. QED
      BY <2>3, <3>1 DEF WireOK, IsMessage
  <2>6. QED
    BY <1>4, <2>5, ClientKept DEF setTab, ClientInv
<1>5. ASSUME NEW k \in Command, sendGate(k) PROVE ClientInv'
    BY <1>5, SendClient DEF sendGate, GateOffered
<1>6. ASSUME NEW s \in Slot, NEW status \in SlotStatus, override(s, status) PROVE ClientInv'
    BY <1>6, SendClient DEF override, OverrideOffered
<1>7. ASSUME OccupiedRefresh PROVE ClientInv'
    BY <1>7, SendClient DEF OccupiedRefresh
<1>8. ASSUME LotMoves PROVE ClientInv'
    BY <1>8, QuietClient DEF LotMoves
<1>9. ASSUME NEW c \in Call, BaseSettled(c) PROVE ClientInv'
    BY <1>9, TakeClient DEF BaseSettled
<1>10. ASSUME NEW c \in Call, GateAnswered(c) PROVE ClientInv'
    BY <1>10, TakeClient DEF GateAnswered
<1>11. ASSUME NEW c \in Call, Overridden(c) PROVE ClientInv'
  <2>1. CASE Rejected(c, "override")
    BY <1>11, <2>1, TakeClient DEF Overridden
  <2>2. CASE Answered(c, "override") /\ SendAll(c, "base", Base)
    BY <1>11, <2>2, SendAllClient DEF Overridden, Answered, ClientInv, WireOK, IsMessage
  <2>3. QED
    BY <1>11, <2>1, <2>2 DEF Overridden, fetchBase
<1>12. ASSUME NEW c \in Call, OccupiedLoaded(c) PROVE ClientInv'
    BY <1>12, TakeClient DEF OccupiedLoaded
<1>13. ASSUME NEW c \in Call, ServeGate(c) PROVE ClientInv'
    BY <1>13, ReplyClient DEF ServeGate, Sent
<1>14. ASSUME NEW c \in Call, ServeOverride(c) PROVE ClientInv'
    BY <1>14, ReplyClient DEF ServeOverride, Sent
<1>15. ASSUME NEW c \in Call, ServeOccupied(c) PROVE ClientInv'
    BY <1>15, ReplyClient DEF ServeOccupied, Sent
<1>16. ASSUME NEW c \in Call, NEW p \in Base, ServeBase(c, p) \/ FailBase(c, p) PROVE ClientInv'
    BY <1>16, FulfilClient DEF ServeBase, FailBase
<1>17. QED
    BY <1>1, <1>2, <1>3, <1>4, <1>5, <1>6, <1>7, <1>8, <1>9, <1>10, <1>11, <1>12, <1>13,
       <1>14, <1>15, <1>16 DEF HomeNext, HomeAnswer, HomeServe

LEMMA UsersClient ==
    ASSUME ClientInv, UsersNext
    PROVE  ClientInv'
<1>1. ASSUME OpenUsers PROVE ClientInv'
    BY <1>1, SendClient DEF OpenUsers
<1>2. ASSUME LeaveUsers PROVE ClientInv'
    BY <1>2, UnmountClient DEF LeaveUsers
<1>3. ASSUME NEW u \in User, startEdit(u) PROVE ClientInv'
    BY <1>3, QuietClient DEF startEdit
<1>4. ASSUME NEW u \in User, remove(u) PROVE ClientInv'
    BY <1>4, SendClient DEF remove
<1>5. ASSUME NEW u \in User, openDetail(u) PROVE ClientInv'
    BY <1>5, SendClient DEF openDetail
<1>6. ASSUME NEW u \in User, AccountChanges(u) PROVE ClientInv'
    BY <1>6, QuietClient DEF AccountChanges
<1>7. ASSUME NEW n \in Name, rename(n) PROVE ClientInv'
    BY <1>7, QuietClient DEF rename, setEditForm
<1>8. ASSUME tick \/ cancelEdit \/ typeAmount PROVE ClientInv'
    BY <1>8, QuietClient DEF tick, setEditForm, cancelEdit, typeAmount
<1>9. ASSUME save PROVE ClientInv'
    BY <1>9, SendClient DEF save
<1>10. ASSUME closeDetail PROVE ClientInv'
  <2> DEFINE S == {c \in Call : wire[c].op \in {"detail", "credit"}}
  <2>1. wire' = [c \in Call |-> IF c \in S THEN Forgotten(wire[c]) ELSE wire[c]]
    BY <1>10 DEF closeDetail
  <2>2. /\ WireOK'
        /\ \A c \in Call \ S : wire'[c] = wire[c]
        /\ \A c \in Call \cap S : ~wire'[c].heard
    BY <2>1, ForgetEffect DEF ClientInv
  <2>3. QED
    BY <1>10, <2>2, ClientKept DEF closeDetail
<1>11. ASSUME handleCredit PROVE ClientInv'
    BY <1>11, SendClient DEF handleCredit
<1>12. ASSUME NEW c \in Call, UsersAnswer(c) PROVE ClientInv'
    BY <1>12, TakeClient
    DEF UsersAnswer, UsersLoaded, SaveAnswered, RemoveAnswered, DetailLoaded, Credited
<1>13. ASSUME NEW c \in Call, UsersServe(c) PROVE ClientInv'
    BY <1>13, ReplyClient
    DEF UsersServe, ServeUsers, update_user, delete_user, get_user_detail, admin_credit_wallet, Sent
<1>14. QED
    BY <1>1, <1>2, <1>3, <1>4, <1>5, <1>6, <1>7, <1>8, <1>9, <1>10, <1>11, <1>12, <1>13
    DEF UsersNext, pressCredit, pressEnter

LEMMA SessionsClient ==
    ASSUME ClientInv, SessionsNext
    PROVE  ClientInv'
<1>1. ASSUME OpenSessions PROVE ClientInv'
    BY <1>1, SendClient DEF OpenSessions
<1>2. ASSUME LeaveSessions PROVE ClientInv'
    BY <1>2, UnmountClient DEF LeaveSessions
<1>3. ASSUME NEW f \in StatusFilter, setStatusFilter(f) PROVE ClientInv'
    BY <1>3, SendClient DEF setStatusFilter, fetchSessions
<1>4. ASSUME RefreshSessions PROVE ClientInv'
    BY <1>4, SendClient DEF RefreshSessions, fetchSessions
<1>5. ASSUME NEW s \in Session, handleClose(s) PROVE ClientInv'
    BY <1>5, SendClient DEF handleClose
<1>6. ASSUME NEW s \in Session, GateMoves(s) PROVE ClientInv'
    BY <1>6, QuietClient DEF GateMoves
<1>7. ASSUME NEW c \in Call, SessionsLoaded(c) PROVE ClientInv'
    BY <1>7, TakeClient DEF SessionsLoaded
<1>8. ASSUME NEW c \in Call, SessionClosed(c) PROVE ClientInv'
  <2> DEFINE m == Request("sessions", [session |-> None, filter |-> wire[c].arg.filter])
  <2>1. wire' = [wire EXCEPT ![c] = m] /\ wire[c].heard /\ UNCHANGED <<moves, mounted>>
    BY <1>8 DEF SessionClosed, Answered, ClientInv, WireOK, IsMessage
  <2>2. IsMessage(m)
    BY DEF IsMessage, MessageFields, Request
  <2> HIDE DEF m
  <2>3. WireOK' /\ \A d \in Call \ {c} : wire'[d] = wire[d]
    BY <2>1, <2>2, PutEffect DEF ClientInv
  <2>4. QED
    BY <2>1, <2>3, ClientKept
<1>9. ASSUME NEW c \in Call, CloseFailed(c) PROVE ClientInv'
    BY <1>9, TakeClient DEF CloseFailed
<1>10. ASSUME NEW c \in Call, SessionsServe(c) PROVE ClientInv'
    BY <1>10, ReplyClient DEF SessionsServe, list_sessions, force_close_session, Sent
<1>11. QED
    BY <1>1, <1>2, <1>3, <1>4, <1>5, <1>6, <1>7, <1>8, <1>9, <1>10
    DEF SessionsNext, SessionsAnswer

LEMMA TransactionsClient ==
    ASSUME ClientInv, TransactionsNext
    PROVE  ClientInv'
<1>1. ASSUME OpenTransactions PROVE ClientInv'
    BY <1>1, SendClient DEF OpenTransactions
<1>2. ASSUME LeaveTransactions PROVE ClientInv'
    BY <1>2, UnmountClient DEF LeaveTransactions
<1>3. ASSUME NEW f, resetPage(f) PROVE ClientInv'
    BY <1>3, SendClient DEF resetPage, fetchTxns
<1>4. ASSUME NEW p, setPage(p) PROVE ClientInv'
    BY <1>4, SendClient DEF setPage, fetchTxns
<1>5. ASSUME RefreshTxns PROVE ClientInv'
    BY <1>5, SendClient DEF RefreshTxns, fetchTxns
<1>6. ASSUME NEW shown, setSelected(shown) PROVE ClientInv'
    BY <1>6, QuietClient DEF setSelected
<1>7. ASSUME NEW f \in Filter, LedgerChanges(f) PROVE ClientInv'
    BY <1>7, QuietClient DEF LedgerChanges
<1>8. ASSUME NEW c \in Call, TxnsLoaded(c) PROVE ClientInv'
    BY <1>8, TakeClient DEF TxnsLoaded
<1>9. ASSUME NEW c \in Call, list_transactions(c) PROVE ClientInv'
    BY <1>9, ReplyClient DEF list_transactions, Sent
<1>10. QED
    BY <1>1, <1>2, <1>3, <1>4, <1>5, <1>6, <1>7, <1>8, <1>9
    DEF TransactionsNext, clearFilters, TransactionsAnswer, TransactionsServe

LEMMA CapturesClient ==
    ASSUME ClientInv, CapturesNext
    PROVE  ClientInv'
<1>1. ASSUME OpenCaptures \/ loadCaptures PROVE ClientInv'
    BY <1>1, SendClient DEF OpenCaptures, loadCaptures
<1>2. ASSUME LeaveCaptures PROVE ClientInv'
    BY <1>2, UnmountClient DEF LeaveCaptures
<1>3. ASSUME NEW x, setCaptureFilter(x) \/ setLightbox(x) \/ Captured(x) PROVE ClientInv'
    BY <1>3, QuietClient DEF setCaptureFilter, setLightbox, Captured
<1>4. ASSUME NEW c \in Call, CapturesLoaded(c) PROVE ClientInv'
    BY <1>4, TakeClient DEF CapturesLoaded
<1>5. ASSUME NEW c \in Call, ServeCaptures(c) PROVE ClientInv'
    BY <1>5, ReplyClient DEF ServeCaptures, Sent
<1>6. QED
    BY <1>1, <1>2, <1>3, <1>4, <1>5 DEF CapturesNext, CapturesAnswer, CapturesServe

LEMMA TestingClient ==
    ASSUME ClientInv, TestingNext
    PROVE  ClientInv'
<1>1. ASSUME OpenTesting PROVE ClientInv'
    BY <1>1, WireUnchanged, ClientKept DEF OpenTesting, ClientInv
<1>2. ASSUME LeaveTesting PROVE ClientInv'
    BY <1>2, UnmountClient DEF LeaveTesting
<1>3. ASSUME NEW s, NEW p, choose(s, p) PROVE ClientInv'
    BY <1>3, QuietClient DEF choose
<1>4. ASSUME NEW s, onSimulate(s) PROVE ClientInv'
    BY <1>4, SendClient DEF onSimulate
<1>5. ASSUME NEW c \in Call, Simulated(c) PROVE ClientInv'
    BY <1>5, TakeClient DEF Simulated
<1>6. ASSUME NEW c \in Call, simulate(c) PROVE ClientInv'
    BY <1>6, ReplyClient DEF simulate, Sent
<1>7. QED
    BY <1>1, <1>2, <1>3, <1>4, <1>5, <1>6 DEF TestingNext

-----------------------------------------------------------------------------
(* Overview and Slots *)

HomeMessage(m) ==
    /\ m.op \in {"idle", "base", "gate", "override", "occupied"}
    /\ m.op = "base" => /\ DOMAIN m.answer = Base
                        /\ m.answer["slots"] \in [Slot -> SlotStatus] \cup {None}
                        /\ m.answer["stats"] \in BOOLEAN \cup {None}
    /\ m.op = "gate" => m.arg \in Command
    /\ m.op = "override" => m.arg \in [slot : Slot, status : SlotStatus]
    /\ m.op = "occupied" /\ m.state = "answered" => m.answer \subseteq Slot

GateCalls(g) == {c \in Calls("gate") : wire[c].arg.gate = g}

(* The command clicked last for gate g has been taken, or is the only one  *)
(* under way to it and somebody waits for its answer.                      *)
ClickCarried(g) ==
    /\ AtMostOne(GateCalls(g))
    /\ \A c \in GateCalls(g) :
          /\ wire[c].heard
          /\ wire[c].arg.action = clicked[g]
          /\ wire[c].state = "answered" => gate[g] = clicked[g]
    /\ GateCalls(g) = {} => gate[g] = clicked[g]

ClicksCarried == \A g \in Gate \ gateDoubt : clicked[g] # None => ClickCarried(g)

HomeInv ==
    /\ HomeTypeOK
    /\ tab = "home" => (\A c \in Call : HomeMessage(wire[c])) /\ ClicksCarried
    /\ tab # "home" => \A g \in Gate : clicked[g] = None

LEMMA HomeInvInit ==
    ASSUME Init
    PROVE  HomeInv
<1>1. \A c \in Call : wire[c].op = "idle" /\ wire[c].state = "free"
    BY IdleIsMessage DEF Init, ClientInit
<1>2. HomeTypeOK
    BY AdminHomeAssumption DEF Init, HomeInit, HomeTypeOK, HomeTab
<1>3. QED
    BY <1>1, <1>2 DEF HomeInv, HomeMessage, ClicksCarried, Init, HomeInit

LEMMA ClicksKept ==
    ASSUME ClicksCarried, UNCHANGED <<gate, clicked, gateDoubt>>,
           \A c \in Call : wire[c].op = "gate" \/ wire'[c].op = "gate" => wire'[c] = wire[c]
    PROVE  ClicksCarried'
<1>1. \A g : GateCalls(g)' = GateCalls(g)
    BY DEF GateCalls, Calls
<1>2. \A g : \A c \in GateCalls(g) : c \in Call /\ wire'[c] = wire[c]
    BY DEF GateCalls, Calls
<1>3. QED
    BY <1>1, <1>2 DEF ClicksCarried, ClickCarried, AtMostOne

LEMMA NoClicks ==
    ASSUME clicked' = [g \in Gate |-> None]
    PROVE  ClicksCarried'
BY DEF ClicksCarried

(* A command is clicked: it is the only one to its gate or the gate is in  *)
(* doubt; the other gates see no difference.                               *)
LEMMA SendGateCarried ==
    ASSUME WireOK, HomeTypeOK, ClicksCarried, NEW k \in Command, sendGate(k)
    PROVE  ClicksCarried'
<1>1. /\ Fresh \in Call /\ wire[Fresh].op = "idle"
      /\ wire'[Fresh].op = "gate" /\ wire'[Fresh].arg = k
      /\ wire'[Fresh].state = "sent" /\ wire'[Fresh].heard
      /\ \A d \in Call \ {Fresh} : wire'[d] = wire[d]
  <2>1. Send("gate", k)
    BY DEF sendGate
  <2>2. QED
    BY <2>1, SendEffect
<1>2. /\ k.gate \in Gate
      /\ gate' = gate
      /\ clicked' = [clicked EXCEPT ![k.gate] = k.action]
      /\ clicked \in [Gate -> Action \cup {None}]
    BY DEF sendGate, serverView, HomeTypeOK, Command
<1>3. gateDoubt' = IF GateCalls(k.gate) # {} THEN gateDoubt \cup {k.gate} ELSE gateDoubt
    BY DEF sendGate, GateCalls, Calls
<1>4. ASSUME NEW g \in Gate, g \notin gateDoubt', clicked'[g] # None, g # k.gate
      PROVE  ClickCarried(g)'
  <2>1. clicked'[g] = clicked[g] /\ g \notin gateDoubt
    BY <1>2, <1>3, <1>4
  <2>2. GateCalls(g)' = GateCalls(g) /\ \A c \in GateCalls(g) : wire'[c] = wire[c]
    BY <1>1, <1>4 DEF GateCalls, Calls
  <2>3. ClickCarried(g)
    BY <1>4, <2>1 DEF ClicksCarried
  <2>4. QED
    BY <1>2, <2>1, <2>2, <2>3 DEF ClickCarried, AtMostOne
<1>5. ASSUME k.gate \notin gateDoubt' PROVE ClickCarried(k.gate)'
  <2>1. GateCalls(k.gate) = {}
    BY <1>3, <1>5
  <2>2. GateCalls(k.gate)' = {Fresh}
    BY <1>1, <2>1 DEF GateCalls, Calls
  <2>3. clicked'[k.gate] = k.action
    BY <1>2
  <2>4. QED
    BY <1>1, <2>2, <2>3 DEF ClickCarried, AtMostOne
<1>6. QED
    BY <1>4, <1>5 DEF ClicksCarried

(* The answer is taken, or the gate is in doubt. *)
LEMMA GateAnsweredCarried ==
    ASSUME WireOK, \A d \in Call : HomeMessage(wire[d]), ClicksCarried,
           NEW c \in Call, GateAnswered(c)
    PROVE  ClicksCarried'
<1>1. /\ wire[c].op = "gate" /\ gate' = gate /\ clicked' = clicked
      /\ \/ wire[c].state = "answered" /\ wire'[c].op = "idle" /\ gateDoubt' = gateDoubt
         \/ gateDoubt' = gateDoubt \cup {wire[c].arg.gate}
      /\ \/ wire'[c].op = "idle"
         \/ wire'[c].op = "gate" /\ wire'[c].arg = wire[c].arg
      /\ \A d \in Call \ {c} : wire'[d] = wire[d]
    BY TakeEffect, RejectedEffect DEF GateAnswered, serverView, Answered
<1>2. ASSUME NEW g \in Gate, g \notin gateDoubt', clicked'[g] # None PROVE ClickCarried(g)'
  <2>1. ClickCarried(g)
    BY <1>1, <1>2 DEF ClicksCarried
  <2>2. CASE wire[c].arg.gate # g
    <3>1. GateCalls(g)' = GateCalls(g) /\ \A d \in GateCalls(g) : wire'[d] = wire[d]
      BY <1>1, <2>2 DEF GateCalls, Calls
    <3>2. QED
      BY <1>1, <2>1, <3>1 DEF ClickCarried, AtMostOne
  <2>3. CASE wire[c].arg.gate = g
    <3>1. wire[c].state = "answered" /\ wire'[c].op = "idle"
      BY <1>1, <1>2, <2>3
    <3>2. c \in GateCalls(g) /\ gate[g] = clicked[g]
      BY <1>1, <2>1, <2>3, <3>1 DEF ClickCarried, GateCalls, Calls
    <3>3. GateCalls(g)' = {}
      BY <1>1, <2>1, <3>1, <3>2 DEF ClickCarried, GateCalls, Calls, AtMostOne
    <3>4. QED
      BY <1>1, <3>2, <3>3 DEF ClickCarried, AtMostOne
  <2>4. QED
    BY <2>2, <2>3
<1>3. QED
    BY <1>2 DEF ClicksCarried

(* The board takes the command, or is not reached and the gate in doubt.   *)
LEMMA ServeGateCarried ==
    ASSUME WireOK, HomeTypeOK, \A d \in Call : HomeMessage(wire[d]), ClicksCarried,
           NEW c \in Call, ServeGate(c)
    PROVE  ClicksCarried'
<1> DEFINE k == wire[c].arg
<1>1. wire[c].op = "gate" /\ k \in Command /\ clicked' = clicked /\ wire[c].state = "sent"
    BY DEF ServeGate, Sent, HomeMessage
<1>2. k.gate \in Gate /\ gate \in [Gate -> Action \cup {None}]
    BY <1>1 DEF Command, HomeTypeOK
<1>3. \E state \in {"answered", "refused"}, answer \in {"sent", "unreachable", None} :
         /\ Reply(c, state, answer)
         /\ \/ gate' = [gate EXCEPT ![k.gate] = k.action] /\ gateDoubt' = gateDoubt
            \/ /\ gate' = gate
               /\ gateDoubt' = gateDoubt \cup (IF wire[c].heard THEN {k.gate} ELSE {})
            \/ gate' = gate /\ gateDoubt' = gateDoubt /\ state = "refused"
    BY DEF ServeGate
<1>4. PICK state \in {"answered", "refused"} :
         /\ \/ gate' = [gate EXCEPT ![k.gate] = k.action] /\ gateDoubt' = gateDoubt
            \/ /\ gate' = gate
               /\ gateDoubt' = gateDoubt \cup (IF wire[c].heard THEN {k.gate} ELSE {})
            \/ gate' = gate /\ gateDoubt' = gateDoubt /\ state = "refused"
         /\ ~wire[c].heard => wire'[c].op = "idle"
         /\ wire[c].heard => /\ wire'[c].op = "gate" /\ wire'[c].arg = k
                             /\ wire'[c].state = state
         /\ wire'[c].heard = wire[c].heard
         /\ \A d \in Call \ {c} : wire'[d] = wire[d]
    BY <1>1, <1>3, ReplyEffect
<1> HIDE DEF k
<1>5. ASSUME NEW g \in Gate, g \notin gateDoubt', clicked'[g] # None PROVE ClickCarried(g)'
  <2>1. ClickCarried(g)
    BY <1>1, <1>4, <1>5 DEF ClicksCarried
  <2>2. CASE k.gate # g
    <3>1. GateCalls(g)' = GateCalls(g) /\ \A d \in GateCalls(g) : wire'[d] = wire[d]
      BY <1>1, <1>4, <2>2 DEF GateCalls, Calls, k
    <3>2. gate'[g] = gate[g]
      BY <1>2, <1>4, <2>2
    <3>3. QED
      BY <1>1, <2>1, <3>1, <3>2 DEF ClickCarried, AtMostOne
  <2>3. CASE k.gate = g
    <3>1. c \in GateCalls(g)
      BY <1>1, <2>3 DEF GateCalls, Calls, k
    <3>2. wire[c].heard /\ k.action = clicked[g] /\ AtMostOne(GateCalls(g))
      BY <2>1, <3>1 DEF ClickCarried, k
    <3>3. /\ GateCalls(g)' = GateCalls(g)
          /\ \A d \in GateCalls(g) : d = c
      BY <1>1, <1>4, <3>1, <3>2 DEF GateCalls, Calls, AtMostOne, k
    <3>4. state = "answered" => gate'[g] = clicked[g]
      BY <1>2, <1>4, <1>5, <2>3, <3>2
    <3>5. QED
      BY <1>1, <1>4, <3>1, <3>2, <3>3, <3>4 DEF ClickCarried, AtMostOne
  <2>4. QED
    BY <2>2, <2>3
<1>6. QED
    BY <1>5 DEF ClicksCarried

LEMMA HomeInvStep ==
    ASSUME ClientInv, HomeInv, HomeNext, Others("home")
    PROVE  HomeInv'
<1>1. /\ tab = "home" /\ tab' = "home" /\ WireOK
      /\ HomeTypeOK /\ ClicksCarried
      /\ \A c \in Call : HomeMessage(wire[c])
    BY DEF HomeInv, Others, ClientInv
<1> DEFINE Messages == \A c \in Call : HomeMessage(wire'[c])
           Goal == HomeTypeOK' /\ ClicksCarried' /\ Messages
<1>2. SUFFICES Goal
    BY <1>1 DEF HomeInv, HomeMessage
<1>3. ASSUME NEW c \in Call, SendAll(c, "base", Base),
             wire[c].op # "gate", UNCHANGED <<gate, clicked, gateDoubt>>
      PROVE  ClicksCarried' /\ Messages
  <2>1. /\ wire'[c].op = "base" /\ wire'[c].answer = [p \in Base |-> None]
        /\ \A d \in Call \ {c} : wire'[d] = wire[d]
    BY <1>1, <1>3, SendAllEffect
  <2>2. HomeMessage(wire'[c])
    BY <2>1 DEF HomeMessage, Base
  <2>3. QED
    BY <1>1, <1>3, <2>1, <2>2, ClicksKept
<1>4. ASSUME OpenPanel \/ PollBase PROVE Goal
  <2>1. Fresh \in Call /\ wire[Fresh].op # "gate"
    BY <1>1, <1>4, FreshIsFree DEF OpenPanel, PollBase
  <2>2. SendAll(Fresh, "base", Base) /\ UNCHANGED homeVars
    BY <1>4 DEF OpenPanel, PollBase, fetchBase
  <2>3. HomeTypeOK'
    BY <1>1, <2>2 DEF HomeTypeOK, homeVars, serverView, baseView, gateView, slotsView
  <2>4. QED
    BY <1>3, <2>1, <2>2, <2>3 DEF homeVars, serverView, gateView
<1>5. ASSUME LeavePanel PROVE Goal
  <2>1. HomeTypeOK'
    BY <1>1, <1>5 DEF LeavePanel, HomeTypeOK, serverView, HomeTab
  <2>2. Messages
    BY <1>1, <1>5, UnmountEffect DEF LeavePanel, HomeMessage, Writes
  <2>3. QED
    BY <1>5, <2>1, <2>2, NoClicks DEF LeavePanel
<1>6. ASSUME NEW t \in HomeTab, setTab(t) PROVE Goal
  <2>1. HomeTypeOK'
    BY <1>1, <1>6 DEF setTab, HomeTypeOK, serverView, baseView
  <2> DEFINE kept == [c \in Call |-> IF wire[c].op = "base" THEN wire[c] ELSE Forgotten(wire[c])]
  <2>2. \A c \in Call : HomeMessage(kept[c])
    <3>1. \A c \in Call : /\ IsMessage(wire[c])
                          /\ kept[c] = wire[c] \/ kept[c] = Forgotten(wire[c])
      BY <1>1 DEF WireOK
    <3>2. QED
      BY <1>1, <3>1, ForgottenMessage DEF HomeMessage, Writes
  <2>3. \A c \in Call : wire'[c] = kept[c] \/ wire'[c] = Request("occupied", None)
    <3>1. CASE t = "slots"
      <4>1. PICK c \in Call : wire' = [kept EXCEPT ![c] = Request("occupied", None)]
        BY <1>6, <3>1 DEF setTab
      <4>2. QED
        BY <4>1
    <3>2. CASE t # "slots"
      BY <1>6, <3>2 DEF setTab
    <3>3. QED
      BY <3>1, <3>2
  <2>4. HomeMessage(Request("occupied", None))
    BY DEF HomeMessage, Request
  <2>5. Messages
    BY <2>2, <2>3, <2>4
  <2>6. QED
    BY <1>6, <2>1, <2>5, NoClicks DEF setTab
<1>7. ASSUME NEW k \in Command, sendGate(k) PROVE Goal
  <2>1. Send("gate", k)
    BY <1>7 DEF sendGate
  <2>2. HomeTypeOK'
    BY <1>1, <1>7 DEF sendGate, HomeTypeOK, serverView, baseView, slotsView, Command
  <2>3. Messages
    BY <1>1, <2>1, SendEffect DEF HomeMessage
  <2>4. QED
    BY <1>1, <1>7, <2>2, <2>3, SendGateCarried
<1>8. ASSUME NEW c \in Call, GateAnswered(c) PROVE Goal
  <2>1. HomeTypeOK'
    BY <1>1, <1>8 DEF GateAnswered, HomeTypeOK, serverView, baseView, slotsView, HomeMessage, Command
  <2>2. Messages
    BY <1>1, <1>8, TakeEffect, RejectedEffect DEF GateAnswered, HomeMessage
  <2>3. QED
    BY <1>1, <1>8, <2>1, <2>2, GateAnsweredCarried
<1>9. ASSUME NEW c \in Call, ServeGate(c) PROVE Goal
  <2>1. wire[c].op = "gate" /\ wire[c].arg \in Command
    BY <1>1, <1>9 DEF ServeGate, Sent, HomeMessage
  <2>2. HomeTypeOK'
    BY <1>1, <1>9, <2>1 DEF ServeGate, HomeTypeOK, baseView, slotsView, Command
  <2>3. \E state \in {"answered", "refused"} : \E answer : Reply(c, state, answer)
    BY <1>9 DEF ServeGate
  <2>4. Messages
    BY <1>1, <2>1, <2>3, ReplyEffect DEF HomeMessage
  <2>5. QED
    BY <1>1, <1>9, <2>2, <2>4, ServeGateCarried
<1>10. ASSUME NEW s \in Slot, NEW status \in SlotStatus, override(s, status) PROVE Goal
  <2>1. Send("override", [slot |-> s, status |-> status]) /\ UNCHANGED <<serverView, gateView>>
    BY <1>10 DEF override
  <2>2. HomeTypeOK'
    BY <1>1, <1>10 DEF override, HomeTypeOK, serverView, baseView, gateView
  <2>3. /\ Fresh \in Call /\ wire[Fresh].op = "idle"
        /\ wire'[Fresh].op = "override" /\ wire'[Fresh].arg = [slot |-> s, status |-> status]
        /\ \A d \in Call \ {Fresh} : wire'[d] = wire[d]
    BY <1>1, <2>1, SendEffect
  <2>4. Messages
    BY <1>1, <2>3 DEF HomeMessage
  <2>5. QED
    BY <1>1, <2>1, <2>2, <2>3, <2>4, ClicksKept DEF serverView, gateView
<1>11. ASSUME NEW c \in Call, Overridden(c) PROVE Goal
  <2>1. HomeTypeOK'
    BY <1>1, <1>11 DEF Overridden, HomeTypeOK, serverView, baseView, gateView
  <2>2. UNCHANGED <<gate, clicked, gateDoubt>> /\ wire[c].op = "override"
    BY <1>11 DEF Overridden, serverView, gateView, Answered, Rejected
  <2>3. CASE SendAll(c, "base", Base)
    BY <1>3, <2>1, <2>2, <2>3
  <2>4. CASE Rejected(c, "override")
    <3>1. /\ \A d \in Call \ {c} : wire'[d] = wire[d]
          /\ \/ wire'[c].op = "idle"
             \/ wire'[c].op = "override" /\ wire'[c].arg = wire[c].arg
      BY <1>1, <2>4, RejectedEffect
    <3>2. QED
      BY <1>1, <2>1, <2>2, <3>1, ClicksKept DEF HomeMessage
  <2>5. QED
    BY <1>11, <2>3, <2>4 DEF Overridden, fetchBase
<1>12. ASSUME NEW c \in Call, ServeOverride(c) PROVE Goal
  <2>1. wire[c].op = "override" /\ wire[c].arg \in [slot : Slot, status : SlotStatus]
    BY <1>1, <1>12 DEF ServeOverride, Sent, HomeMessage
  <2>2. HomeTypeOK'
    BY <1>1, <1>12, <2>1 DEF ServeOverride, HomeTypeOK, baseView, gateView, slotsView
  <2>3. Reply(c, "answered", None) /\ UNCHANGED <<gate, clicked, gateDoubt>>
    BY <1>12 DEF ServeOverride, gateView
  <2>4. /\ \A d \in Call \ {c} : wire'[d] = wire[d]
        /\ \/ wire'[c].op = "idle"
           \/ wire'[c].op = "override" /\ wire'[c].arg = wire[c].arg
    BY <1>1, <2>1, <2>3, ReplyEffect DEF WireOK, IsMessage
  <2>5. QED
    BY <1>1, <2>1, <2>2, <2>3, <2>4, ClicksKept DEF HomeMessage
<1>13. ASSUME OccupiedRefresh PROVE Goal
  <2>1. Send("occupied", None) /\ UNCHANGED <<serverView, gateView>>
    BY <1>13 DEF OccupiedRefresh
  <2>2. HomeTypeOK'
    BY <1>1, <1>13 DEF OccupiedRefresh, HomeTypeOK, serverView, baseView, gateView
  <2>3. /\ Fresh \in Call /\ wire[Fresh].op = "idle"
        /\ wire'[Fresh].op = "occupied" /\ wire'[Fresh].state = "sent"
        /\ \A d \in Call \ {Fresh} : wire'[d] = wire[d]
    BY <1>1, <2>1, SendEffect
  <2>4. Messages
    BY <1>1, <2>3 DEF HomeMessage
  <2>5. QED
    BY <1>1, <2>1, <2>2, <2>3, <2>4, ClicksKept DEF serverView, gateView
<1>14. ASSUME NEW c \in Call, OccupiedLoaded(c) PROVE Goal
  <2>1. HomeTypeOK'
    BY <1>1, <1>14 DEF OccupiedLoaded, HomeTypeOK, serverView, baseView, gateView, HomeMessage, Answered
  <2>2. /\ UNCHANGED <<gate, clicked, gateDoubt>> /\ wire[c].op = "occupied"
        /\ wire'[c].op = "idle"
        /\ \A d \in Call \ {c} : wire'[d] = wire[d]
    BY <1>1, <1>14, TakeEffect, RejectedEffect
    DEF OccupiedLoaded, serverView, gateView, Answered, Writes
  <2>3. QED
    BY <1>1, <2>1, <2>2, ClicksKept DEF HomeMessage
<1>15. ASSUME NEW c \in Call, ServeOccupied(c) PROVE Goal
  <2>1. HomeTypeOK' /\ UNCHANGED <<gate, clicked, gateDoubt>> /\ wire[c].op = "occupied"
    BY <1>1, <1>15
    DEF ServeOccupied, Sent, HomeTypeOK, homeVars, serverView, baseView, gateView, slotsView
  <2>2. /\ \A d \in Call \ {c} : wire'[d] = wire[d]
        /\ \/ wire'[c].op = "idle"
           \/ wire'[c].op = "occupied" /\ wire'[c].answer \subseteq Slot
    BY <1>1, <1>15, <2>1, ReplyEffect DEF ServeOccupied
  <2>3. QED
    BY <1>1, <2>1, <2>2, ClicksKept DEF HomeMessage
<1>16. ASSUME NEW c \in Call, BaseSettled(c) PROVE Goal
  <2>1. wire[c].op = "base" /\ UNCHANGED <<gate, clicked, gateDoubt>>
    BY <1>16 DEF BaseSettled, Settled, serverView, gateView
  <2>2. /\ wire[c].answer["slots"] \in [Slot -> SlotStatus] \cup {None}
        /\ wire[c].answer["stats"] \in BOOLEAN \cup {None}
    BY <1>1, <2>1 DEF HomeMessage
  <2>3. HomeTypeOK'
    BY <1>1, <1>16, <2>2 DEF BaseSettled, Brought, HomeTypeOK, serverView, gateView, slotsView
  <2>4. wire'[c].op = "idle" /\ \A d \in Call \ {c} : wire'[d] = wire[d]
    BY <1>1, <1>16, TakeEffect DEF BaseSettled
  <2>5. QED
    BY <1>1, <2>1, <2>3, <2>4, ClicksKept DEF HomeMessage
<1>17. ASSUME NEW c \in Call, NEW p \in Base, ServeBase(c, p) PROVE Goal
  <2>1. HomeTypeOK' /\ UNCHANGED <<gate, clicked, gateDoubt>>
    BY <1>1, <1>17
    DEF ServeBase, HomeTypeOK, homeVars, serverView, baseView, gateView, slotsView
  <2>2. PICK value : /\ Fulfil(c, "base", p, value)
                     /\ p = "slots" => value = slot
                     /\ p = "stats" => value = news
    BY <1>17 DEF ServeBase, Base
  <2>3. /\ wire[c].op = "base" /\ wire'[c].op = "base"
        /\ DOMAIN wire'[c].answer = DOMAIN wire[c].answer
        /\ \A q \in DOMAIN wire[c].answer :
              wire'[c].answer[q] = IF q = p THEN value ELSE wire[c].answer[q]
        /\ \A d \in Call \ {c} : wire'[d] = wire[d]
    BY <1>1, <2>2, FulfilEffect
  <2>4. HomeMessage(wire'[c])
    BY <1>1, <2>2, <2>3 DEF HomeMessage, Base, HomeTypeOK
  <2>5. QED
    BY <1>1, <2>1, <2>3, <2>4, ClicksKept
<1>18. ASSUME NEW c \in Call, NEW p \in Base, FailBase(c, p) PROVE Goal
  <2>1. HomeTypeOK' /\ UNCHANGED <<gate, clicked, gateDoubt>>
    BY <1>1, <1>18
    DEF FailBase, HomeTypeOK, homeVars, serverView, baseView, gateView, slotsView
  <2>2. /\ wire[c].op = "base" /\ wire'[c].op = "base"
        /\ wire'[c].answer = wire[c].answer
        /\ \A d \in Call \ {c} : wire'[d] = wire[d]
    BY <1>1, <1>18, DropEffect DEF FailBase
  <2>3. QED
    BY <1>1, <2>1, <2>2, ClicksKept DEF HomeMessage
<1>19. ASSUME LotMoves PROVE Goal
  <2>1. wire' = wire /\ UNCHANGED <<gate, clicked, gateDoubt>>
    BY <1>19 DEF LotMoves, gateView
  <2>2. HomeTypeOK'
    BY <1>1, <1>19 DEF LotMoves, HomeTypeOK, baseView, gateView, slotsView
  <2>3. QED
    BY <1>1, <2>1, <2>2, ClicksKept
<1>20. QED
    BY <1>4, <1>5, <1>6, <1>7, <1>8, <1>9, <1>10, <1>11, <1>12, <1>13, <1>14, <1>15, <1>16,
       <1>17, <1>18, <1>19 DEF HomeNext, HomeAnswer, HomeServe

-----------------------------------------------------------------------------
(* Users *)

UserForm == [name : Name, active : BOOLEAN, ticked : BOOLEAN]

UsersMessage(m) ==
    /\ m.op \in {"idle", "users", "update", "remove", "detail", "credit"}
    /\ m.op \in {"update", "remove", "detail", "credit"} => m.arg.user \in User
    /\ m.op = "update" => m.arg.form \in UserForm
    /\ m.state = "answered" =>
         /\ m.op = "users" => m.answer \in [User -> Account \cup {None}]
         /\ m.op = "update" => m.answer \in Account
         /\ m.op \in {"detail", "credit"} => m.answer \in Nat

UsersMessages == \A c \in Call : UsersMessage(wire[c])

Edits(u) == {c \in Calls("update") \cup Calls("remove") : wire[c].arg.user = u}

(* The form holds what the row shows, unless the box was ticked by hand.   *)
FormOfRow ==
    /\ editId # None => editForm.name \in Name
    /\ editId \in UsersListed /\ ~editForm.ticked => editForm.active = users[editId].active

(* Nothing can be done before the rows are there. *)
LoadAlone ==
    /\ AtMostOne(Calls("users"))
    /\ ~mounted \/ Calls("users") # {} => users = NoUsers /\ editId = None

EditAlone(u) ==
    /\ AtMostOne(Edits(u))
    /\ \A c \in Edits(u) : Sent(c, "update") /\ ~wire[c].arg.form.ticked
                             => wire[c].arg.form.active = account[u].active

(* The row of u is the account, or its only edit brings what it now is.    *)
EditCarried(u) ==
    /\ \A c \in Edits(u) : wire[c].heard
    /\ \A c \in Calls("users") :
          /\ Edits(u) = {}
          /\ wire[c].state = "answered" => wire[c].answer[u] = account[u]
    /\ Calls("users") = {} =>
          /\ Edits(u) # {} => users[u] # None
          /\ \A c \in Edits(u) : wire[c].state = "answered" =>
                account[u] = IF wire[c].op = "update" THEN wire[c].answer ELSE None
          /\ (\A c \in Edits(u) : wire[c].state = "sent") => users[u] = account[u]

RowsInv ==
    /\ LoadAlone
    /\ FormOfRow
    /\ \A u \in User \ doubt : EditAlone(u) /\ (mounted => EditCarried(u))

(* The answers on their way belong to the window that is open; a credit    *)
(* under way brings a balance at least as new as the last one reported.    *)
WindowInv ==
    /\ ~mounted => detail = NoDetail
    /\ detail.typed => detail.balance # None
    /\ detail.balance = None => detail.reported = 0
    /\ detail.balance # None => detail.user \in User /\ detail.reported <= wallet[detail.user]
    /\ AtMostOne(Calls("detail"))
    /\ \A c \in Calls("detail") : detail.user = wire[c].arg.user /\ detail.balance = None
    /\ \A c \in Heard("credit") :
          /\ detail.user = wire[c].arg.user /\ detail.balance # None
          /\ wire[c].state = "answered" => wire[c].answer <= wallet[detail.user]
    /\ ~enteredTwice =>
          /\ AtMostOne(Heard("credit"))
          /\ \A c \in Heard("credit") :
                /\ crediting
                /\ wire[c].state = "answered" => detail.reported <= wire[c].answer
    /\ OwnCreditShown

UsersInv ==
    /\ UsersTypeOK
    /\ tab = "users" => UsersMessages /\ RowsInv /\ WindowInv
    /\ tab # "users" => doubt = User /\ detail = NoDetail

LEMMA UsersInvInit ==
    ASSUME Init
    PROVE  UsersInv
<1>1. \A c \in Call : wire[c].op = "idle" /\ wire[c].state = "free"
    BY IdleIsMessage DEF Init, ClientInit
<1>2. UsersTypeOK
  <2>1. (CHOOSE n \in Name : TRUE) \in Name
    BY UsersAssumption
  <2>2. account \in [User -> Account]
    BY <2>1 DEF Init, UsersInit, Account
  <2>3. QED
    BY <2>2 DEF Init, UsersInit, UsersTypeOK, NoUsers, NoForm, NoDetail
<1>3. detail = NoDetail /\ users = NoUsers /\ editId = None /\ doubt = User
    BY DEF Init, UsersInit
<1>4. UsersMessages /\ \A op : op # "idle" => Calls(op) = {} /\ Heard(op) = {}
    BY <1>1 DEF UsersMessages, UsersMessage, Calls, Heard
<1>5. RowsInv
    BY <1>3, <1>4, UsersAssumption
    DEF RowsInv, LoadAlone, FormOfRow, AtMostOne, UsersListed
<1>6. WindowInv
    BY <1>3, <1>4 DEF WindowInv, NoDetail, AtMostOne, OwnCreditShown
<1>7. QED
    BY <1>2, <1>3, <1>4, <1>5, <1>6 DEF UsersInv

LEMMA FirstFormAndWindow ==
    /\ NoForm \in [name : Name \cup {None}, active : BOOLEAN, ticked : BOOLEAN]
    /\ \A u \in User :
          [NoDetail EXCEPT !.user = u] \in [user : User \cup {None}, balance : Nat \cup {None},
                                           typed : BOOLEAN, reported : Nat]
BY DEF NoForm, NoDetail

(* Types, and what the requests carry. *)
LEMMA UsersTypeStep ==
    ASSUME WireOK, UsersTypeOK, UsersMessages, FormOfRow, WindowInv, UsersNext
    PROVE  UsersTypeOK' /\ UsersMessages'
<1> USE DEF UsersTypeOK
<1>1. \A c \in Call : UsersMessage(wire[c])
    BY DEF UsersMessages
<1>2. ASSUME NEW op, NEW arg, op # "idle", Send(op, arg),
             \A m : m.op = op /\ m.arg = arg /\ m.state = "sent" => UsersMessage(m)
      PROVE  UsersMessages'
    BY <1>1, <1>2, SendEffect DEF UsersMessages
<1>3. ASSUME NEW c \in Call, NEW op, Take(c) \/ Rejected(c, op)
      PROVE  UsersMessages'
    BY <1>1, <1>3, TakeEffect, RejectedEffect DEF UsersMessages, UsersMessage
<1>4. ASSUME wire' = wire
      PROVE  UsersMessages'
    BY <1>1, <1>4 DEF UsersMessages
<1>5. ASSUME OpenUsers PROVE UsersTypeOK' /\ UsersMessages'
    BY <1>2, <1>5 DEF OpenUsers, userServer, UsersMessage
<1>6. ASSUME LeaveUsers PROVE UsersTypeOK' /\ UsersMessages'
  <2>1. UsersTypeOK'
    BY <1>6 DEF LeaveUsers, userServer, NoUsers, NoForm, NoDetail
  <2>2. UsersMessages'
    BY <1>1, <1>6, UnmountEffect DEF LeaveUsers, UsersMessages, UsersMessage
  <2>3. QED
    BY <2>1, <2>2
<1>7. ASSUME NEW c \in Call, UsersLoaded(c) PROVE UsersTypeOK' /\ UsersMessages'
  <2>1. UsersTypeOK'
    BY <1>1, <1>7 DEF UsersLoaded, userServer, UsersMessage, Answered
  <2>2. QED
    BY <1>3, <1>7, <2>1 DEF UsersLoaded
<1>8. ASSUME NEW u \in User, startEdit(u) PROVE UsersTypeOK' /\ UsersMessages'
    BY <1>4, <1>8 DEF startEdit, userServer, UsersListed, Account
<1>9. ASSUME NEW n \in Name, rename(n) PROVE UsersTypeOK' /\ UsersMessages'
    BY <1>4, <1>9 DEF rename, setEditForm, userServer
<1>10. ASSUME tick PROVE UsersTypeOK' /\ UsersMessages'
    BY <1>4, <1>10 DEF tick, setEditForm, userServer
<1>11. ASSUME cancelEdit PROVE UsersTypeOK' /\ UsersMessages'
    BY <1>4, <1>11 DEF cancelEdit, userServer, NoForm
<1>12. ASSUME save PROVE UsersTypeOK' /\ UsersMessages'
  <2>1. editId \in User /\ editForm \in UserForm
    BY <1>12, UsersAssumption DEF save, FormShown, UsersListed, FormOfRow, UserForm
  <2>2. UsersTypeOK'
    BY <1>12, <2>1 DEF save, userServer
  <2>3. UsersMessages'
    BY <1>2, <1>12, <2>1 DEF save, UsersMessage
  <2>4. QED
    BY <2>2, <2>3
<1>13. ASSUME NEW c \in Call, SaveAnswered(c) PROVE UsersTypeOK' /\ UsersMessages'
  <2>1. UsersTypeOK'
    <3>1. wire[c].arg.user \in User
      BY <1>1, <1>13 DEF SaveAnswered, UsersMessage, Answered, Rejected
    <3>2. users' \in [User -> Account \cup {None}]
      BY <1>1, <1>13, <3>1 DEF SaveAnswered, UsersMessage, Answered
    <3>3. editId' \in User \cup {None} /\ doubt' \subseteq User
      BY <1>13, <3>1 DEF SaveAnswered
    <3>4. editForm' \in [name : Name \cup {None}, active : BOOLEAN, ticked : BOOLEAN]
      BY <1>13, FirstFormAndWindow DEF SaveAnswered
    <3>5. QED
      BY <1>13, <3>2, <3>3, <3>4 DEF SaveAnswered, userServer
  <2>2. QED
    BY <1>3, <1>13, <2>1 DEF SaveAnswered
<1>14. ASSUME NEW u \in User, remove(u) PROVE UsersTypeOK' /\ UsersMessages'
    BY <1>2, <1>14 DEF remove, userServer, UsersMessage
<1>15. ASSUME NEW c \in Call, RemoveAnswered(c) PROVE UsersTypeOK' /\ UsersMessages'
  <2>1. UsersTypeOK'
    BY <1>1, <1>15 DEF RemoveAnswered, userServer, UsersMessage, Answered, Rejected
  <2>2. QED
    BY <1>3, <1>15, <2>1 DEF RemoveAnswered
<1>16. ASSUME NEW u \in User, openDetail(u) PROVE UsersTypeOK' /\ UsersMessages'
  <2>1. detail' = [NoDetail EXCEPT !.user = u]
    BY <1>16 DEF openDetail
  <2>2. UsersTypeOK'
    BY <1>16, <2>1, FirstFormAndWindow DEF openDetail, userServer
  <2>3. UsersMessages'
    BY <1>2, <1>16 DEF openDetail, UsersMessage
  <2>4. QED
    BY <2>2, <2>3
<1>17. ASSUME closeDetail PROVE UsersTypeOK' /\ UsersMessages'
  <2>1. UsersTypeOK'
    BY <1>17 DEF closeDetail, userServer, NoDetail
  <2> DEFINE S == {c \in Call : wire[c].op \in {"detail", "credit"}}
  <2>2. wire' = [c \in Call |-> IF c \in S THEN Forgotten(wire[c]) ELSE wire[c]]
    BY <1>17 DEF closeDetail
  <2>3. /\ \A c \in Call \ S : wire'[c] = wire[c]
        /\ \A c \in Call \cap S :
                 \/ wire'[c].op = "idle" /\ wire'[c].state = "free"
                 \/ wire'[c].op = wire[c].op /\ wire'[c].arg = wire[c].arg /\ wire'[c].state = "sent"
    BY <2>2, ForgetEffect
  <2>4. UsersMessages'
    BY <1>1, <2>3 DEF UsersMessages, UsersMessage
  <2>5. QED
    BY <2>1, <2>4
<1>18. ASSUME NEW c \in Call, DetailLoaded(c) PROVE UsersTypeOK' /\ UsersMessages'
  <2>1. UsersTypeOK'
    BY <1>1, <1>18 DEF DetailLoaded, userServer, UsersMessage, Answered
  <2>2. QED
    BY <1>3, <1>18, <2>1 DEF DetailLoaded
<1>19. ASSUME typeAmount PROVE UsersTypeOK' /\ UsersMessages'
    BY <1>4, <1>19 DEF typeAmount, userServer
<1>20. ASSUME handleCredit, enteredTwice' \in BOOLEAN PROVE UsersTypeOK' /\ UsersMessages'
  <2>1. detail.user \in User
    BY <1>20 DEF handleCredit, WindowInv
  <2>2. QED
    BY <1>2, <1>20, <2>1 DEF handleCredit, userServer, UsersMessage
<1>21. ASSUME NEW c \in Call, Credited(c) PROVE UsersTypeOK' /\ UsersMessages'
  <2>1. UsersTypeOK'
    BY <1>1, <1>21 DEF Credited, userServer, UsersMessage, Answered
  <2>2. QED
    BY <1>3, <1>21, <2>1 DEF Credited
<1>22. ASSUME NEW u \in User, AccountChanges(u) PROVE UsersTypeOK' /\ UsersMessages'
  <2>1. /\ UNCHANGED <<wire, wallet, users, editId, editForm, detail, crediting, enteredTwice>>
        /\ doubt' = doubt \cup {u} /\ account[u] \in Account
    BY <1>22 DEF AccountChanges
  <2>2. \E row \in Account \cup {None} : account' = [account EXCEPT ![u] = row]
    <3>1. CASE account' = [account EXCEPT ![u].active = ~@]
      <4>1. [account[u] EXCEPT !.active = ~account[u].active] \in Account
        BY <2>1 DEF Account
      <4>2. QED
        BY <3>1, <4>1
    <3>2. CASE account' = [account EXCEPT ![u] = None]
      BY <3>2
    <3>3. QED
      BY <1>22, <3>1, <3>2 DEF AccountChanges
  <2>3. QED
    BY <1>4, <2>1, <2>2
<1>23. ASSUME NEW c \in Call, wire[c].op # "idle", NEW state \in {"answered", "refused"}, NEW answer,
              Reply(c, state, answer),
              state = "answered" =>
                 /\ wire[c].op = "users" => answer \in [User -> Account \cup {None}]
                 /\ wire[c].op = "update" => answer \in Account
                 /\ wire[c].op \in {"detail", "credit"} => answer \in Nat
       PROVE  UsersMessages'
    BY <1>1, <1>23, ReplyEffect DEF UsersMessages, UsersMessage
<1>24. ASSUME NEW c \in Call, ServeUsers(c) PROVE UsersTypeOK' /\ UsersMessages'
    BY <1>23, <1>24 DEF ServeUsers, Sent, usersVars, userServer, userView
<1>25. ASSUME NEW c \in Call, update_user(c) PROVE UsersTypeOK' /\ UsersMessages'
  <2> DEFINE row == [name |-> wire[c].arg.form.name, active |-> wire[c].arg.form.active]
  <2>1. row \in Account /\ wire[c].arg.user \in User /\ wire[c].op = "update"
    BY <1>1, <1>25 DEF update_user, Sent, UsersMessage, UserForm, Account
  <2>2. UsersTypeOK'
    BY <1>25, <2>1 DEF update_user, userView
  <2>3. Reply(c, "refused", None) \/ Reply(c, "answered", row)
    BY <1>25 DEF update_user
  <2>4. QED
    BY <1>23, <2>1, <2>2, <2>3
<1>26. ASSUME NEW c \in Call, delete_user(c) PROVE UsersTypeOK' /\ UsersMessages'
  <2>1. wire[c].arg.user \in User /\ wire[c].op = "remove"
    BY <1>1, <1>26 DEF delete_user, Sent, UsersMessage
  <2>2. UsersTypeOK'
    BY <1>26, <2>1 DEF delete_user, userView
  <2>3. QED
    BY <1>23, <1>26, <2>1, <2>2 DEF delete_user
<1>27. ASSUME NEW c \in Call, get_user_detail(c) PROVE UsersTypeOK' /\ UsersMessages'
  <2>1. wire[c].arg.user \in User /\ wire[c].op = "detail"
    BY <1>1, <1>27 DEF get_user_detail, Sent, UsersMessage
  <2>2. QED
    BY <1>23, <1>27, <2>1 DEF get_user_detail, usersVars, userServer, userView
<1>28. ASSUME NEW c \in Call, admin_credit_wallet(c) PROVE UsersTypeOK' /\ UsersMessages'
  <2>1. wire[c].arg.user \in User /\ wire[c].op = "credit"
    BY <1>1, <1>28 DEF admin_credit_wallet, Sent, UsersMessage
  <2>2. UsersTypeOK'
    BY <1>28, <2>1 DEF admin_credit_wallet, userView
  <2>3. QED
    BY <1>23, <1>28, <2>1, <2>2 DEF admin_credit_wallet
<1>29. QED
    BY <1>5, <1>6, <1>7, <1>8, <1>9, <1>10, <1>11, <1>12, <1>13, <1>14, <1>15, <1>16, <1>17,
       <1>18, <1>19, <1>20, <1>21, <1>22, <1>24, <1>25, <1>26, <1>27, <1>28
    DEF UsersNext, UsersAnswer, UsersServe, pressCredit, pressEnter

(* A row is not concerned by what happens to the requests of others. *)
LEMMA EditKept ==
    ASSUME NEW u, account'[u] = account[u], users'[u] = users[u],
           \A c \in Call : \/ wire'[c] = wire[c]
                           \/ /\ c \notin Edits(u) \cup Calls("users")
                              /\ c \notin Edits(u)' \cup Calls("users")'
    PROVE  /\ EditAlone(u) => EditAlone(u)'
           /\ EditCarried(u) => EditCarried(u)'
<1>1. Edits(u)' = Edits(u) /\ Calls("users")' = Calls("users")
    BY DEF Edits, Calls
<1>2. \A c \in Edits(u) \cup Calls("users") : wire'[c] = wire[c]
    BY <1>1 DEF Edits, Calls
<1>3. EditAlone(u) => EditAlone(u)'
    BY <1>1, <1>2 DEF EditAlone, AtMostOne, Sent
<1>4. EditCarried(u) => EditCarried(u)'
    BY <1>1, <1>2 DEF EditCarried
<1>5. QED
    BY <1>3, <1>4

(* Steps that neither touch the rows, nor the form, nor a load or an edit. *)
LEMMA RowsKept ==
    ASSUME RowsInv, UNCHANGED <<account, users, editId, editForm, doubt, mounted>>,
           \A c \in Call : \/ wire'[c] = wire[c]
                           \/ /\ wire[c].op \notin {"users", "update", "remove"}
                              /\ wire'[c].op \notin {"users", "update", "remove"}
    PROVE  RowsInv'
<1>1. Calls("users")' = Calls("users")
    BY DEF Calls
<1>2. \A u : \A c \in Call : \/ wire'[c] = wire[c]
                             \/ /\ c \notin Edits(u) \cup Calls("users")
                                /\ c \notin Edits(u)' \cup Calls("users")'
    BY DEF Edits, Calls
<1>3. \A u \in User \ doubt : EditAlone(u)' /\ (mounted' => EditCarried(u)')
    BY <1>2, EditKept DEF RowsInv
<1>4. LoadAlone' /\ FormOfRow'
    BY <1>1 DEF RowsInv, LoadAlone, FormOfRow, AtMostOne, UsersListed
<1>5. QED
    BY <1>3, <1>4 DEF RowsInv

(* A save or removal of row u is sent. *)
LEMMA EditSent ==
    ASSUME WireOK, RowsInv, mounted, NEW u \in UsersListed, NEW op \in {"update", "remove"}, NEW form,
           op = "update" => (~form.ticked => form.active = users[u].active),
           Send(op, [user |-> u, form |-> form]),
           doubt' = (IF Pending(u) THEN doubt \cup {u} ELSE doubt),
           UNCHANGED <<account, users, editId, editForm, mounted>>
    PROVE  RowsInv'
<1> DEFINE m == [user |-> u, form |-> form]
<1>1. /\ Fresh \in Call /\ wire[Fresh].op = "idle"
      /\ wire'[Fresh].op = op /\ wire'[Fresh].arg = m
      /\ wire'[Fresh].state = "sent" /\ wire'[Fresh].heard
      /\ \A d \in Call \ {Fresh} : wire'[d] = wire[d]
  <2>1. Send(op, m) /\ op # "idle"
    OBVIOUS
  <2> HIDE DEF m
  <2>2. QED
    BY <2>1, SendEffect
<1>2. users[u] # None /\ u \in User
    BY DEF UsersListed
<1>3. Calls("users") = {} /\ Calls("users")' = {}
    BY <1>1, <1>2 DEF RowsInv, LoadAlone, NoUsers, Calls
<1>4. LoadAlone' /\ FormOfRow'
    BY <1>3 DEF RowsInv, LoadAlone, FormOfRow, AtMostOne, UsersListed
<1>5. ASSUME NEW v \in User \ doubt', v # u PROVE EditAlone(v)' /\ EditCarried(v)'
  <2>1. v \notin doubt
    BY <1>5
  <2>2. \A c \in Call : \/ wire'[c] = wire[c]
                        \/ /\ c \notin Edits(v) \cup Calls("users")
                           /\ c \notin Edits(v)' \cup Calls("users")'
    BY <1>1, <1>3, <1>5 DEF Edits, Calls
  <2>3. QED
    BY <1>5, <2>1, <2>2, EditKept DEF RowsInv
<1>6. ASSUME u \notin doubt' PROVE EditAlone(u)' /\ EditCarried(u)'
  <2>1. u \notin doubt /\ Edits(u) = {}
    BY <1>6 DEF Pending, Edits, Calls
  <2>2. Edits(u)' = {Fresh}
    BY <1>1, <2>1 DEF Edits, Calls
  <2>3. users[u] = account[u]
    BY <1>2, <1>3, <2>1 DEF RowsInv, EditCarried
  <2>4. EditAlone(u)'
    BY <1>1, <2>2, <2>3 DEF EditAlone, AtMostOne, Sent
  <2>5. EditCarried(u)'
    BY <1>1, <1>2, <1>3, <2>2, <2>3 DEF EditCarried
  <2>6. QED
    BY <2>4, <2>5
<1>7. QED
    BY <1>4, <1>5, <1>6 DEF RowsInv

(* The answer to an edit of u is taken, or the wait for it given up and    *)
(* the row in doubt.                                                       *)
LEMMA EditEnded ==
    ASSUME ClientInv, RowsInv, NEW c \in Call, NEW op \in {"update", "remove"}, wire[c].op = op,
           NEW u \in User, wire[c].arg.user = u,
           UNCHANGED <<mounted, account>>,
           FormOfRow',
           \/ /\ Answered(c, op) /\ Take(c) /\ doubt' = doubt
              /\ users' = [users EXCEPT ![u] =
                             IF op = "remove" \/ @ = None THEN None ELSE wire[c].answer]
              /\ editId' = editId \/ editId' = None
           \/ /\ Rejected(c, op) /\ doubt' = doubt \cup {u} /\ UNCHANGED <<users, editId>>,
           users \in [User -> Account \cup {None}]
    PROVE  RowsInv'
<1>1. /\ \A d \in Call \ {c} : wire'[d] = wire[d]
      /\ \/ wire'[c].op = "idle"
         \/ wire'[c].op = op /\ wire'[c].arg = wire[c].arg
    BY TakeEffect, RejectedEffect DEF ClientInv
<1>2. Calls("users")' = Calls("users")
    BY <1>1 DEF Calls
<1>3. users = NoUsers => users' = NoUsers
    BY DEF NoUsers
<1>4. LoadAlone'
    BY <1>2, <1>3 DEF RowsInv, LoadAlone, AtMostOne
<1>5. \A v \in User \ {u} : users'[v] = users[v]
    OBVIOUS
<1>6. ASSUME NEW v \in User \ doubt', v # u PROVE EditAlone(v)' /\ (mounted' => EditCarried(v)')
  <2>1. v \notin doubt
    BY <1>6
  <2>2. \A d \in Call : \/ wire'[d] = wire[d]
                        \/ /\ d \notin Edits(v) \cup Calls("users")
                           /\ d \notin Edits(v)' \cup Calls("users")'
    BY <1>1, <1>6 DEF Edits, Calls
  <2>3. QED
    BY <1>5, <1>6, <2>1, <2>2, EditKept DEF RowsInv
<1>7. ASSUME u \notin doubt' PROVE EditAlone(u)' /\ (mounted' => EditCarried(u)')
  <2>1. /\ Answered(c, op) /\ u \notin doubt
        /\ users' = [users EXCEPT ![u] = IF op = "remove" \/ @ = None THEN None ELSE wire[c].answer]
    BY <1>7
  <2>2. wire'[c].op = "idle"
    BY <1>7, TakeEffect DEF ClientInv
  <2>3. mounted
    BY <2>1 DEF ClientInv, WireOK, IsMessage, Answered, Quiet
  <2>4. c \in Edits(u) /\ AtMostOne(Edits(u)) /\ EditCarried(u)
    <3>1. EditAlone(u) /\ EditCarried(u)
      BY <2>1, <2>3 DEF RowsInv
    <3>2. c \in Edits(u)
      BY DEF Edits, Calls
    <3>3. QED
      BY <3>1, <3>2 DEF EditAlone
  <2>5. Calls("users") = {} /\ users[u] # None
    BY <2>4 DEF EditCarried
  <2>6. account[u] = IF op = "update" THEN wire[c].answer ELSE None
    BY <2>1, <2>4, <2>5 DEF EditCarried, Answered
  <2>7. Edits(u)' = {}
    BY <1>1, <2>2, <2>4 DEF Edits, Calls, AtMostOne
  <2>8. users'[u] = account[u]
    BY <2>1, <2>5, <2>6
  <2>9. QED
    BY <1>2, <2>5, <2>7, <2>8 DEF EditAlone, EditCarried, AtMostOne
<1>8. QED
    BY <1>4, <1>6, <1>7 DEF RowsInv

(* The server carries out an edit of u, or finds no such account. *)
LEMMA EditServed ==
    ASSUME ClientInv, RowsInv, NEW c \in Call, NEW op \in {"update", "remove"}, Sent(c, op),
           NEW u \in User, wire[c].arg.user = u, NEW row,
           op = "remove" => row = None,
           account \in [User -> Account \cup {None}],
           UNCHANGED <<mounted, users, editId, editForm, doubt>>,
           \/ account[u] = None /\ Reply(c, "refused", None) /\ UNCHANGED account
           \/ account[u] # None /\ account' = [account EXCEPT ![u] = row] /\ Reply(c, "answered", row)
    PROVE  RowsInv'
<1>1. \E state \in {"answered", "refused"} : \E answer : Reply(c, state, answer)
    OBVIOUS
<1>2. /\ wire[c].op = op /\ op # "idle" /\ wire[c].state = "sent"
      /\ WireOK
    BY DEF Sent, ClientInv
<1>3. /\ \A d \in Call \ {c} : wire'[d] = wire[d]
      /\ wire[c].heard => wire'[c].op = op /\ wire'[c].arg = wire[c].arg /\ wire'[c].state # "sent"
      /\ ~wire[c].heard => wire'[c].op = "idle"
      /\ wire'[c].heard = wire[c].heard
    BY <1>1, <1>2, ReplyEffect
<1>4. Calls("users")' = Calls("users")
    BY <1>2, <1>3 DEF Calls
<1>5. LoadAlone' /\ FormOfRow'
    BY <1>4 DEF RowsInv, LoadAlone, FormOfRow, AtMostOne, UsersListed
<1>6. ASSUME NEW v \in User \ doubt, v # u PROVE EditAlone(v)' /\ (mounted' => EditCarried(v)')
  <2>1. \A d \in Call : \/ wire'[d] = wire[d]
                        \/ /\ d \notin Edits(v) \cup Calls("users")
                           /\ d \notin Edits(v)' \cup Calls("users")'
    BY <1>2, <1>3, <1>6 DEF Edits, Calls
  <2>2. account'[v] = account[v]
    BY <1>6
  <2>3. QED
    BY <1>6, <2>1, <2>2, EditKept DEF RowsInv
<1>7. ASSUME u \notin doubt PROVE EditAlone(u)' /\ (mounted' => EditCarried(u)')
  <2>1. c \in Edits(u) /\ EditAlone(u) /\ (mounted => EditCarried(u))
    BY <1>2, <1>7 DEF RowsInv, Edits, Calls
  <2>2. /\ Edits(u)' \subseteq {c}
        /\ \A d \in Edits(u)' : wire'[d].state # "sent"
    BY <1>3, <2>1 DEF EditAlone, AtMostOne, Edits, Calls
  <2>3. EditAlone(u)'
    BY <2>2 DEF EditAlone, AtMostOne, Sent
  <2>4. ASSUME mounted PROVE EditCarried(u)'
    <3>1. /\ wire[c].heard /\ Calls("users") = {} /\ users[u] # None
          /\ \A d \in Edits(u) : d = c
      BY <2>1, <2>4 DEF EditCarried, EditAlone, AtMostOne
    <3>2. users[u] = account[u]
      BY <1>2, <2>1, <2>4, <3>1 DEF EditCarried
    <3>3. Reply(c, "answered", row) /\ account' = [account EXCEPT ![u] = row]
      BY <3>1, <3>2
    <3>4. wire'[c].op = op /\ wire'[c].state = "answered" /\ wire'[c].answer = row
          /\ wire'[c].arg = wire[c].arg /\ wire'[c].heard
      BY <1>2, <3>1, <3>3, ReplyEffect
    <3>5. c \in Edits(u)' /\ account'[u] = row
      BY <3>3, <3>4 DEF Edits, Calls
    <3>6. QED
      BY <1>4, <2>2, <3>1, <3>4, <3>5 DEF EditCarried
  <2>5. QED
    BY <2>3, <2>4
<1>8. QED
    BY <1>5, <1>6, <1>7 DEF RowsInv

LEMMA RowsStep ==
    ASSUME ClientInv, UsersTypeOK, UsersMessages, RowsInv, UsersNext
    PROVE  RowsInv'
<1>1. WireOK /\ \A c \in Call : IsMessage(wire[c]) /\ UsersMessage(wire[c])
    BY DEF ClientInv, WireOK, UsersMessages
<1>2. ASSUME NEW c \in Call, NEW op \in {"detail", "credit"}, Take(c) \/ Rejected(c, op),
             wire[c].op = op, UNCHANGED <<account, users, editId, editForm, doubt, mounted>>
      PROVE  RowsInv'
  <2>1. /\ \A d \in Call \ {c} : wire'[d] = wire[d]
        /\ wire'[c].op \in {"idle", "detail", "credit"}
    BY <1>1, <1>2, TakeEffect, RejectedEffect
  <2>2. QED
    BY <1>2, <2>1, RowsKept
<1>3. ASSUME NEW op \in {"detail", "credit"}, NEW arg, Send(op, arg),
             UNCHANGED <<account, users, editId, editForm, doubt, mounted>>
      PROVE  RowsInv'
  <2>1. /\ Fresh \in Call /\ wire[Fresh].op = "idle" /\ wire'[Fresh].op = op
        /\ \A d \in Call \ {Fresh} : wire'[d] = wire[d]
    BY <1>1, <1>3, SendEffect
  <2>2. QED
    BY <1>3, <2>1, RowsKept
<1>4. ASSUME NEW c \in Call, NEW op \in {"detail", "credit"}, Sent(c, op),
             NEW state \in {"answered", "refused"}, NEW answer, Reply(c, state, answer),
             UNCHANGED <<account, users, editId, editForm, doubt, mounted>>
      PROVE  RowsInv'
  <2>1. /\ \A d \in Call \ {c} : wire'[d] = wire[d]
        /\ wire'[c].op \in {"idle", "detail", "credit"} /\ wire[c].op = op
    BY <1>1, <1>4, ReplyEffect DEF Sent
  <2>2. QED
    BY <1>4, <2>1, RowsKept
<1>5. ASSUME wire' = wire, UNCHANGED <<account, users, doubt, mounted>>, FormOfRow',
             mounted, Calls("users") = {} \/ editId' = None
      PROVE  RowsInv'
  <2>1. Calls("users")' = Calls("users")
    BY <1>5 DEF Calls
  <2>2. \A u \in User \ doubt : EditAlone(u)' /\ (mounted' => EditCarried(u)')
    BY <1>5, EditKept DEF RowsInv
  <2>3. QED
    BY <1>5, <2>1, <2>2 DEF RowsInv, LoadAlone, AtMostOne
<1>6. ASSUME NEW u \in UsersListed
      PROVE  u \in User /\ users[u] \in Account /\ Calls("users") = {} /\ mounted
    BY <1>6 DEF UsersListed, RowsInv, LoadAlone, NoUsers, UsersTypeOK, ClientInv
<1>7. ASSUME OpenUsers PROVE RowsInv'
  <2>1. Send("users", None)
    BY <1>7 DEF OpenUsers
  <2>2. /\ Fresh \in Call /\ wire[Fresh].op = "idle"
        /\ wire'[Fresh].op = "users" /\ wire'[Fresh].state = "sent"
        /\ \A d \in Call \ {Fresh} : wire'[d] = wire[d]
    BY <1>1, <2>1, SendEffect
  <2>3. Calls("users") = {}
    BY <1>1, <1>7 DEF OpenUsers, ClientInv, Quiet, Calls, IsMessage, Writes
  <2>4. Calls("users")' = {Fresh}
    BY <2>2, <2>3 DEF Calls
  <2>5. users = NoUsers /\ editId = None /\ UNCHANGED <<users, editId, editForm>>
    BY <1>7 DEF OpenUsers, RowsInv, LoadAlone
  <2>6. LoadAlone' /\ FormOfRow'
    BY <2>4, <2>5, UsersAssumption DEF LoadAlone, FormOfRow, AtMostOne, UsersListed
  <2>7. ASSUME NEW u \in User \ doubt' PROVE EditAlone(u)' /\ EditCarried(u)'
    <3>1. Edits(u) = {}
      BY <1>7, <2>7 DEF OpenUsers, Pending, Edits, Calls
    <3>2. Edits(u)' = {}
      BY <2>2, <3>1 DEF Edits, Calls
    <3>3. QED
      BY <2>2, <2>4, <3>2 DEF EditAlone, EditCarried, AtMostOne
  <2>8. QED
    BY <2>6, <2>7 DEF RowsInv
<1>8. ASSUME LeaveUsers PROVE RowsInv'
  <2>1. /\ mounted' = FALSE
        /\ \A c \in Call : \/ wire'[c].op = "idle"
                           \/ /\ wire[c].op \in Writes /\ wire[c].state = "sent"
                              /\ wire'[c].op = wire[c].op /\ wire'[c].arg = wire[c].arg
    BY <1>1, <1>8, UnmountEffect DEF LeaveUsers
  <2>2. users' = NoUsers /\ editId' = None /\ UNCHANGED <<account, doubt>>
    BY <1>8 DEF LeaveUsers, userServer
  <2>3. LoadAlone' /\ FormOfRow'
    BY <2>1, <2>2, UsersAssumption DEF LoadAlone, FormOfRow, AtMostOne, UsersListed, Calls, Writes
  <2>4. \A u \in User \ doubt : EditAlone(u)'
    BY <2>1, <2>2 DEF RowsInv, EditAlone, AtMostOne, Edits, Calls, Sent
  <2>5. QED
    BY <2>1, <2>2, <2>3, <2>4 DEF RowsInv
<1>9. ASSUME NEW c \in Call, UsersLoaded(c) PROVE RowsInv'
  <2>1. /\ wire[c].op = "users" /\ wire'[c].op = "idle"
        /\ \A d \in Call \ {c} : wire'[d] = wire[d]
        /\ UNCHANGED <<mounted, account, editId, editForm>>
    BY <1>1, <1>9, TakeEffect, RejectedEffect DEF UsersLoaded, Answered, userServer, Writes
  <2>2. editId = None /\ Calls("users")' = {}
    BY <2>1 DEF RowsInv, LoadAlone, Calls, AtMostOne
  <2>3. mounted
    BY <1>1, <2>1 DEF RowsInv, ClientInv, Quiet, IsMessage, Writes
  <2>4. LoadAlone' /\ FormOfRow'
    BY <2>1, <2>2, <2>3, UsersAssumption DEF LoadAlone, FormOfRow, AtMostOne, UsersListed
  <2>5. ASSUME NEW u \in User \ doubt' PROVE EditAlone(u)' /\ EditCarried(u)'
    <3>1. Answered(c, "users") /\ users' = wire[c].answer /\ u \notin doubt
      BY <1>9, <2>5 DEF UsersLoaded
    <3>2. Edits(u) = {} /\ wire[c].answer[u] = account[u]
      BY <2>1, <2>3, <2>5, <3>1 DEF RowsInv, EditCarried, Calls, Answered
    <3>3. Edits(u)' = {}
      BY <2>1, <3>2 DEF Edits, Calls
    <3>4. QED
      BY <2>1, <2>2, <3>1, <3>2, <3>3 DEF EditAlone, EditCarried, AtMostOne
  <2>6. QED
    BY <2>4, <2>5 DEF RowsInv
<1>10. ASSUME NEW u \in User, startEdit(u) PROVE RowsInv'
  <2>1. u \in UsersListed
    BY <1>10 DEF startEdit
  <2>2. FormOfRow'
    BY <1>6, <1>10, <2>1 DEF startEdit, FormOfRow, Account
  <2>3. QED
    BY <1>5, <1>6, <1>10, <2>1, <2>2 DEF startEdit, userServer
<1>11. ASSUME NEW n \in Name, rename(n) PROVE RowsInv'
  <2>1. editId \in UsersListed
    BY <1>11 DEF rename, setEditForm, FormShown
  <2>2. FormOfRow'
    BY <1>11 DEF rename, setEditForm, FormOfRow, RowsInv, UsersTypeOK, UsersListed
  <2>3. QED
    BY <1>5, <1>6, <1>11, <2>1, <2>2 DEF rename, setEditForm, userServer
<1>12. ASSUME tick PROVE RowsInv'
  <2>1. editId \in UsersListed
    BY <1>12 DEF tick, setEditForm, FormShown
  <2>2. FormOfRow'
    BY <1>12 DEF tick, setEditForm, FormOfRow, RowsInv, UsersTypeOK, UsersListed
  <2>3. QED
    BY <1>5, <1>6, <1>12, <2>1, <2>2 DEF tick, setEditForm, userServer
<1>13. ASSUME cancelEdit PROVE RowsInv'
  <2>1. FormOfRow'
    BY <1>13, UsersAssumption DEF cancelEdit, FormOfRow, UsersListed
  <2>2. QED
    BY <1>5, <1>13, <2>1 DEF cancelEdit, userServer
<1>14. ASSUME save PROVE RowsInv'
  <2>1. editId \in UsersListed
    BY <1>14 DEF save, FormShown
  <2>2. ~editForm.ticked => editForm.active = users[editId].active
    BY <2>1 DEF RowsInv, FormOfRow
  <2>3. QED
    BY <1>1, <1>6, <1>14, <2>1, <2>2, EditSent DEF save, userServer
<1>15. ASSUME NEW u \in User, remove(u) PROVE RowsInv'
  <2>1. u \in UsersListed
    BY <1>15 DEF remove
  <2>2. QED
    BY <1>1, <1>6, <1>15, <2>1, EditSent DEF remove, userServer
<1>16. ASSUME NEW c \in Call, SaveAnswered(c) PROVE RowsInv'
  <2> DEFINE u == wire[c].arg.user
  <2>1. wire[c].op = "update" /\ u \in User /\ UNCHANGED <<mounted, account>>
    BY <1>1, <1>16 DEF SaveAnswered, Answered, Rejected, UsersMessage, userServer
  <2>2. FormOfRow'
    BY <1>16, UsersAssumption DEF SaveAnswered, FormOfRow, UsersListed, RowsInv
  <2>3. \/ /\ Answered(c, "update") /\ Take(c) /\ doubt' = doubt
           /\ users' = [users EXCEPT ![u] = IF @ = None THEN None ELSE wire[c].answer]
           /\ editId' = editId \/ editId' = None
        \/ Rejected(c, "update") /\ doubt' = doubt \cup {u} /\ UNCHANGED <<users, editId>>
    BY <1>16 DEF SaveAnswered
  <2> HIDE DEF u
  <2>4. QED
    BY <2>1, <2>2, <2>3, EditEnded DEF UsersTypeOK, u
<1>17. ASSUME NEW c \in Call, RemoveAnswered(c) PROVE RowsInv'
  <2> DEFINE u == wire[c].arg.user
  <2>1. wire[c].op = "remove" /\ u \in User /\ UNCHANGED <<mounted, account>>
    BY <1>1, <1>17 DEF RemoveAnswered, Answered, Rejected, UsersMessage, userServer
  <2>2. \/ /\ Answered(c, "remove") /\ Take(c) /\ doubt' = doubt
           /\ users' = [users EXCEPT ![u] = None]
           /\ editId' = editId \/ editId' = None
        \/ Rejected(c, "remove") /\ doubt' = doubt \cup {u} /\ UNCHANGED <<users, editId>>
    BY <1>17 DEF RemoveAnswered
  <2> HIDE DEF u
  <2>3. FormOfRow'
    BY <1>17, <2>1, <2>2 DEF RemoveAnswered, FormOfRow, UsersListed, RowsInv, UsersTypeOK
  <2>4. QED
    BY <2>1, <2>2, <2>3, EditEnded DEF UsersTypeOK, u
<1>18. ASSUME NEW c \in Call, ServeUsers(c) PROVE RowsInv'
  <2>1. Sent(c, "users") /\ Reply(c, "answered", account)
        /\ UNCHANGED <<mounted, account, users, editId, editForm, doubt>>
    BY <1>18 DEF ServeUsers, usersVars, userServer, userView
  <2>2. /\ wire[c].op = "users" /\ wire[c].heard
        /\ wire'[c].op = "users" /\ wire'[c].answer = account
        /\ \A d \in Call \ {c} : wire'[d] = wire[d]
    BY <1>1, <2>1, ReplyEffect DEF Sent, IsMessage, Writes
  <2>3. Calls("users")' = Calls("users")
    BY <2>2 DEF Calls
  <2>4. \A u : Edits(u)' = Edits(u) /\ \A d \in Edits(u) : wire'[d] = wire[d]
    BY <2>2 DEF Edits, Calls
  <2>5. LoadAlone' /\ FormOfRow'
    BY <2>1, <2>3 DEF RowsInv, LoadAlone, FormOfRow, AtMostOne, UsersListed
  <2>6. \A u \in User \ doubt : EditAlone(u)'
    BY <2>1, <2>4 DEF RowsInv, EditAlone, AtMostOne, Sent
  <2>7. ASSUME mounted, NEW u \in User \ doubt PROVE EditCarried(u)'
    <3>1. EditCarried(u)
      BY <2>7 DEF RowsInv
    <3>2. \A d \in Calls("users") : d = c
      BY <2>2 DEF RowsInv, LoadAlone, AtMostOne, Calls
    <3>3. c \in Calls("users")
      BY <2>2 DEF Calls
    <3>4. QED
      BY <2>1, <2>2, <2>3, <2>4, <3>1, <3>2, <3>3 DEF EditCarried
  <2>8. QED
    BY <2>1, <2>5, <2>6, <2>7 DEF RowsInv
<1>19. ASSUME NEW c \in Call, update_user(c) PROVE RowsInv'
  <2> DEFINE u == wire[c].arg.user
             row == [name |-> wire[c].arg.form.name, active |-> wire[c].arg.form.active]
  <2>1. /\ Sent(c, "update")
        /\ \/ account[u] = None /\ Reply(c, "refused", None) /\ UNCHANGED account
           \/ /\ account[u] # None /\ account' = [account EXCEPT ![u] = row]
              /\ Reply(c, "answered", row)
    BY <1>19 DEF update_user
  <2>2. u \in User /\ UNCHANGED <<mounted, users, editId, editForm, doubt>>
    BY <1>1, <1>19 DEF update_user, userView, UsersMessage, Sent
  <2> HIDE DEF row
  <2>3. QED
    BY <2>1, <2>2, EditServed DEF UsersTypeOK
<1>20. ASSUME NEW c \in Call, delete_user(c) PROVE RowsInv'
  <2> DEFINE u == wire[c].arg.user
  <2>1. /\ Sent(c, "remove")
        /\ \/ account[u] = None /\ Reply(c, "refused", None) /\ UNCHANGED account
           \/ /\ account[u] # None /\ account' = [account EXCEPT ![u] = None]
              /\ Reply(c, "answered", None)
    BY <1>20 DEF delete_user
  <2>2. u \in User /\ UNCHANGED <<mounted, users, editId, editForm, doubt>>
    BY <1>1, <1>20 DEF delete_user, userView, UsersMessage, Sent
  <2>3. QED
    BY <2>1, <2>2, EditServed DEF UsersTypeOK
<1>21. ASSUME NEW u \in User, AccountChanges(u) PROVE RowsInv'
  <2>1. /\ UNCHANGED <<wire, mounted, users, editId, editForm>>
        /\ doubt' = doubt \cup {u}
        /\ \A v \in User \ {u} : account'[v] = account[v]
    BY <1>21 DEF AccountChanges, UsersTypeOK
  <2>2. LoadAlone' /\ FormOfRow'
    BY <2>1 DEF RowsInv, LoadAlone, FormOfRow, AtMostOne, UsersListed, Calls
  <2>3. \A v \in User \ doubt' : EditAlone(v)' /\ (mounted' => EditCarried(v)')
    BY <2>1, EditKept DEF RowsInv
  <2>4. QED
    BY <2>2, <2>3 DEF RowsInv
<1>22. ASSUME NEW u \in User, openDetail(u) PROVE RowsInv'
    BY <1>3, <1>22 DEF openDetail, userServer
<1>23. ASSUME closeDetail PROVE RowsInv'
  <2> DEFINE S == {c \in Call : wire[c].op \in {"detail", "credit"}}
  <2>1. wire' = [c \in Call |-> IF c \in S THEN Forgotten(wire[c]) ELSE wire[c]]
    BY <1>23 DEF closeDetail
  <2>2. /\ \A c \in Call \ S : wire'[c] = wire[c]
        /\ \A c \in Call \cap S : wire'[c].op \in {"idle", "detail", "credit"}
    BY <1>1, <2>1, ForgetEffect
  <2>3. QED
    BY <1>23, <2>2, RowsKept DEF closeDetail, userServer
<1>24. ASSUME NEW c \in Call, DetailLoaded(c) PROVE RowsInv'
    BY <1>2, <1>24 DEF DetailLoaded, userServer, Answered, Rejected
<1>25. ASSUME typeAmount PROVE RowsInv'
    BY <1>25, RowsKept DEF typeAmount, userServer
<1>26. ASSUME handleCredit PROVE RowsInv'
    BY <1>3, <1>26 DEF handleCredit, userServer
<1>27. ASSUME NEW c \in Call, Credited(c) PROVE RowsInv'
    BY <1>2, <1>27 DEF Credited, userServer, Answered, Rejected
<1>28. ASSUME NEW c \in Call, get_user_detail(c) PROVE RowsInv'
    BY <1>4, <1>28 DEF get_user_detail, usersVars, userServer, userView
<1>29. ASSUME NEW c \in Call, admin_credit_wallet(c) PROVE RowsInv'
    BY <1>4, <1>29 DEF admin_credit_wallet, userView
<1>30. QED
    BY <1>7, <1>8, <1>9, <1>10, <1>11, <1>12, <1>13, <1>14, <1>15, <1>16, <1>17, <1>18, <1>19,
       <1>20, <1>21, <1>22, <1>23, <1>24, <1>25, <1>26, <1>27, <1>28, <1>29
    DEF UsersNext, UsersAnswer, UsersServe, pressCredit, pressEnter

(* The window is not concerned by what happens to the table. *)
LEMMA WindowKept ==
    ASSUME WindowInv, UNCHANGED <<wallet, detail, crediting, enteredTwice>>,
           mounted' \/ mounted' = mounted,
           \A c \in Call : \/ wire'[c] = wire[c]
                           \/ /\ wire[c].op \notin {"detail", "credit"}
                              /\ wire'[c].op \notin {"detail", "credit"}
    PROVE  WindowInv'
<1>1. /\ Calls("detail")' = Calls("detail") /\ Heard("credit")' = Heard("credit")
      /\ \A c \in Calls("detail") \cup Heard("credit") : wire'[c] = wire[c]
    BY DEF Calls, Heard
<1>2. QED
    BY <1>1 DEF WindowInv, AtMostOne, OwnCreditShown

LEMMA WindowStep ==
    ASSUME ClientInv, UsersTypeOK, UsersMessages, WindowInv, UsersNext
    PROVE  WindowInv'
<1>1. WireOK /\ \A c \in Call : IsMessage(wire[c]) /\ UsersMessage(wire[c])
    BY DEF ClientInv, WireOK, UsersMessages
<1>2. ASSUME NEW c \in Call, NEW op \in {"users", "update", "remove"}, Take(c) \/ Rejected(c, op),
             wire[c].op = op, UNCHANGED <<wallet, detail, crediting, enteredTwice, mounted>>
      PROVE  WindowInv'
  <2>1. /\ \A d \in Call \ {c} : wire'[d] = wire[d]
        /\ wire'[c].op \in {"idle", "update", "remove"}
    BY <1>1, <1>2, TakeEffect, RejectedEffect DEF Writes
  <2>2. QED
    BY <1>2, <2>1, WindowKept
<1>3. ASSUME NEW op \in {"users", "update", "remove"}, NEW arg, Send(op, arg),
             UNCHANGED <<wallet, detail, crediting, enteredTwice>>, mounted' \/ mounted' = mounted
      PROVE  WindowInv'
  <2>1. /\ Fresh \in Call /\ wire[Fresh].op = "idle" /\ wire'[Fresh].op = op
        /\ \A d \in Call \ {Fresh} : wire'[d] = wire[d]
    BY <1>1, <1>3, SendEffect
  <2>2. QED
    BY <1>3, <2>1, WindowKept
<1>4. ASSUME NEW c \in Call, NEW op \in {"users", "update", "remove"}, Sent(c, op),
             NEW state \in {"answered", "refused"}, NEW answer, Reply(c, state, answer),
             UNCHANGED <<wallet, detail, crediting, enteredTwice, mounted>>
      PROVE  WindowInv'
  <2>1. /\ \A d \in Call \ {c} : wire'[d] = wire[d]
        /\ wire'[c].op \in {"idle", op} /\ wire[c].op = op
    BY <1>1, <1>4, ReplyEffect DEF Sent
  <2>2. QED
    BY <1>4, <2>1, WindowKept
<1>5. ASSUME wire' = wire, UNCHANGED <<wallet, detail, crediting, enteredTwice, mounted>>
      PROVE  WindowInv'
    BY <1>5, WindowKept
<1>6. ASSUME Calls("detail")' = {}, Heard("credit")' = {}, detail' = NoDetail
      PROVE  WindowInv'
    BY <1>6 DEF WindowInv, NoDetail, AtMostOne, OwnCreditShown
<1>7. ASSUME OpenUsers PROVE WindowInv'
    BY <1>3, <1>7 DEF OpenUsers, userServer
<1>8. ASSUME LeaveUsers PROVE WindowInv'
  <2>1. \A c \in Call : ~wire'[c].heard /\ wire'[c].op \in {"idle"} \cup Writes
    BY <1>1, <1>8, UnmountEffect DEF LeaveUsers
  <2>2. Calls("detail")' = {} /\ Heard("credit")' = {}
    BY <2>1 DEF Calls, Heard, Writes
  <2>3. QED
    BY <1>6, <1>8, <2>2 DEF LeaveUsers
<1>9. ASSUME NEW u \in User, openDetail(u) PROVE WindowInv'
  <2>1. detail = NoDetail /\ detail' = [NoDetail EXCEPT !.user = u] /\ mounted /\ mounted' = mounted
    BY <1>9 DEF openDetail, Covered
  <2>2. detail.user = None /\ detail.balance = None
    BY <2>1 DEF NoDetail
  <2>3. /\ detail'.user = u /\ detail'.balance = None /\ detail'.typed = FALSE
        /\ detail'.reported = 0
    BY <2>1 DEF NoDetail
  <2>4. Send("detail", [user |-> u, form |-> NoForm])
    BY <1>9 DEF openDetail
  <2>5. /\ Fresh \in Call /\ wire[Fresh].op = "idle"
        /\ wire'[Fresh].op = "detail" /\ wire'[Fresh].arg.user = u
        /\ \A d \in Call \ {Fresh} : wire'[d] = wire[d]
    BY <1>1, <2>4, SendEffect
  <2>6. Calls("detail") = {} /\ Heard("credit") = {}
    BY <1>1, <2>2, UsersAssumption DEF WindowInv, UsersMessage, Calls, Heard
  <2>7. Calls("detail")' = {Fresh} /\ Heard("credit")' = {}
    BY <2>5, <2>6 DEF Calls, Heard
  <2>8. QED
    BY <2>1, <2>3, <2>5, <2>7 DEF WindowInv, AtMostOne, OwnCreditShown
<1>10. ASSUME closeDetail PROVE WindowInv'
  <2> DEFINE S == {c \in Call : wire[c].op \in {"detail", "credit"}}
  <2>1. wire' = [c \in Call |-> IF c \in S THEN Forgotten(wire[c]) ELSE wire[c]]
    BY <1>10 DEF closeDetail
  <2>2. /\ \A c \in Call \ S : wire'[c] = wire[c]
        /\ \A c \in Call \cap S : ~wire'[c].heard /\ wire'[c].op \in {"idle"} \cup Writes
    BY <1>1, <2>1, ForgetEffect
  <2>3. Calls("detail")' = {} /\ Heard("credit")' = {}
    BY <2>2 DEF Calls, Heard, Writes
  <2>4. QED
    BY <1>6, <1>10, <2>3 DEF closeDetail
<1>11. ASSUME NEW c \in Call, DetailLoaded(c) PROVE WindowInv'
  <2>1. /\ wire[c].op = "detail" /\ wire'[c].op = "idle"
        /\ \A d \in Call \ {c} : wire'[d] = wire[d]
    BY <1>1, <1>11, TakeEffect, RejectedEffect DEF DetailLoaded, Answered, Writes
  <2>2. /\ detail.user = wire[c].arg.user /\ detail.user \in User /\ detail.balance = None
        /\ detail.reported = 0 /\ \A d \in Calls("detail") : d = c
    BY <1>1, <2>1 DEF WindowInv, Calls, AtMostOne, UsersMessage
  <2>3. Heard("credit") = {}
    BY <2>2 DEF WindowInv
  <2>4. Calls("detail")' = {} /\ Heard("credit")' = {}
    BY <2>1, <2>2, <2>3 DEF Calls, Heard
  <2>5. UNCHANGED <<wallet, crediting, enteredTwice, mounted>>
    BY <1>11 DEF DetailLoaded, userServer
  <2>6. mounted
    BY <1>1, <2>1 DEF ClientInv, Quiet, IsMessage, Writes
  <2>7. CASE detail' = detail
    BY <2>2, <2>4, <2>5, <2>7 DEF WindowInv, AtMostOne, OwnCreditShown
  <2>8. CASE Answered(c, "detail") /\ detail' = [detail EXCEPT !.balance = wire[c].answer]
    <3>1. wire[c].answer \in Nat
      BY <1>1, <2>8 DEF UsersMessage, Answered
    <3>2. /\ detail'.user = detail.user /\ detail'.balance \in Nat /\ detail'.reported = 0
          /\ detail'.balance # None
      BY <2>2, <2>8, <3>1, UsersAssumption DEF UsersTypeOK
    <3>3. wallet[detail.user] \in Nat
      BY <2>2 DEF UsersTypeOK
    <3>4. QED
      BY <2>2, <2>4, <2>5, <2>6, <3>2, <3>3 DEF WindowInv, AtMostOne, OwnCreditShown
  <2>9. QED
    BY <1>11, <2>7, <2>8 DEF DetailLoaded
<1>12. ASSUME typeAmount PROVE WindowInv'
  <2>1. /\ detail.balance # None /\ detail' = [detail EXCEPT !.typed = TRUE]
        /\ UNCHANGED <<wire, mounted, wallet, crediting, enteredTwice>> /\ mounted
    BY <1>12 DEF typeAmount, userServer
  <2>2. detail'.user = detail.user /\ detail'.balance = detail.balance
        /\ detail'.reported = detail.reported
    BY <2>1 DEF UsersTypeOK
  <2>3. Calls("detail")' = Calls("detail") /\ Heard("credit")' = Heard("credit")
    BY <2>1 DEF Calls, Heard
  <2>4. QED
    BY <2>1, <2>2, <2>3 DEF WindowInv, AtMostOne, OwnCreditShown
<1>13. ASSUME handleCredit, ~enteredTwice' => ~enteredTwice /\ ~crediting PROVE WindowInv'
  <2>1. /\ detail.typed /\ mounted /\ Send("credit", [user |-> detail.user, form |-> NoForm])
        /\ crediting' = TRUE /\ UNCHANGED <<mounted, wallet, detail>>
    BY <1>13 DEF handleCredit, userServer
  <2>2. Send("credit", [user |-> detail.user, form |-> NoForm])
    BY <2>1
  <2>3. /\ Fresh \in Call /\ wire[Fresh].op = "idle"
        /\ wire'[Fresh].op = "credit" /\ wire'[Fresh].arg.user = detail.user
        /\ wire'[Fresh].state = "sent"
        /\ \A d \in Call \ {Fresh} : wire'[d] = wire[d]
    BY <1>1, <2>2, SendEffect
  <2>4. Calls("detail")' = {} /\ Calls("detail") = {} /\ detail.balance # None
    BY <2>1, <2>3 DEF WindowInv, Calls
  <2>5. Heard("credit")' \subseteq Heard("credit") \cup {Fresh}
    BY <2>3 DEF Heard
  <2>6. \A d \in Heard("credit") : wire'[d] = wire[d]
    BY <2>3 DEF Heard
  <2>7. ~enteredTwice' => Heard("credit")' \subseteq {Fresh}
    BY <1>13, <2>5 DEF WindowInv
  <2>8. QED
    BY <2>1, <2>3, <2>4, <2>5, <2>6, <2>7, <1>13 DEF WindowInv, AtMostOne, OwnCreditShown
<1>14. ASSUME NEW c \in Call, Credited(c) PROVE WindowInv'
  <2>1. /\ wire[c].op = "credit" /\ wire[c].heard
        /\ ~wire'[c].heard /\ wire'[c].op \in {"idle", "credit"}
        /\ \A d \in Call \ {c} : wire'[d] = wire[d]
    BY <1>1, <1>14, TakeEffect, RejectedEffect DEF Credited, Answered, IsMessage
  <2>2. c \in Heard("credit") /\ Heard("credit")' = Heard("credit") \ {c}
        /\ Calls("detail")' = Calls("detail")
    BY <2>1 DEF Heard, Calls
  <2>3. /\ detail.balance # None /\ Calls("detail") = {} /\ detail.user \in User
        /\ detail.reported <= wallet[detail.user] /\ wallet[detail.user] \in Nat
    BY <2>2 DEF WindowInv, UsersTypeOK
  <2>4. UNCHANGED <<wallet, enteredTwice, mounted>> /\ crediting' = FALSE
    BY <1>14 DEF Credited, userServer
  <2>5. ~enteredTwice => Heard("credit")' = {}
    BY <2>2 DEF WindowInv, AtMostOne
  <2>6. \A d \in Heard("credit")' : wire'[d] = wire[d]
    BY <2>1, <2>2 DEF Heard
  <2>7. mounted
    BY <2>1 DEF ClientInv, Quiet
  <2>8. CASE detail' = detail
    BY <2>2, <2>3, <2>4, <2>5, <2>6, <2>8 DEF WindowInv, AtMostOne, OwnCreditShown
  <2>9. CASE /\ Answered(c, "credit")
             /\ detail' = [detail EXCEPT !.balance = wire[c].answer, !.typed = FALSE,
                             !.reported = IF @ > wire[c].answer THEN @ ELSE wire[c].answer]
    <3>1. /\ wire[c].answer \in Nat /\ wire[c].answer <= wallet[detail.user]
          /\ ~enteredTwice => detail.reported <= wire[c].answer
      BY <1>1, <2>2, <2>9 DEF WindowInv, UsersMessage, Answered
    <3>2. detail.reported \in Nat
      BY DEF UsersTypeOK
    <3>3. /\ detail'.user = detail.user /\ detail'.balance = wire[c].answer
          /\ detail'.typed = FALSE
          /\ detail'.reported = IF detail.reported > wire[c].answer
                                THEN detail.reported ELSE wire[c].answer
      BY <2>9 DEF UsersTypeOK
    <3>4. wire[c].answer # None
      BY <3>1, UsersAssumption
    <3>5. detail'.reported <= wallet'[detail'.user]
      BY <2>3, <2>4, <3>1, <3>2, <3>3
    <3>6. ~enteredTwice => detail'.balance >= detail'.reported
      BY <3>1, <3>2, <3>3
    <3>7. QED
      BY <2>2, <2>3, <2>4, <2>5, <2>6, <2>7, <3>3, <3>4, <3>5, <3>6
      DEF WindowInv, AtMostOne, OwnCreditShown
  <2>10. QED
    BY <1>14, <2>8, <2>9 DEF Credited
<1>15. ASSUME NEW c \in Call, get_user_detail(c) PROVE WindowInv'
  <2>1. /\ Sent(c, "detail") /\ UNCHANGED <<mounted, wallet, detail, crediting, enteredTwice>>
        /\ \/ Reply(c, "refused", None)
           \/ Reply(c, "answered", wallet[wire[c].arg.user])
    BY <1>15 DEF get_user_detail, usersVars, userServer, userView
  <2>2. wire[c].op = "detail" /\ wire[c].heard
    BY <1>1, <2>1 DEF Sent, IsMessage, Writes
  <2>3. /\ wire'[c].op = "detail" /\ wire'[c].arg = wire[c].arg
        /\ \A d \in Call \ {c} : wire'[d] = wire[d]
    BY <1>1, <2>1, <2>2, ReplyEffect
  <2>4. /\ Calls("detail")' = Calls("detail") /\ Heard("credit")' = Heard("credit")
        /\ \A d \in Calls("detail") : wire'[d].arg = wire[d].arg
        /\ \A d \in Heard("credit") : wire'[d] = wire[d]
    BY <2>2, <2>3 DEF Calls, Heard
  <2>5. QED
    BY <2>1, <2>4 DEF WindowInv, AtMostOne, OwnCreditShown
<1>16. ASSUME NEW c \in Call, admin_credit_wallet(c) PROVE WindowInv'
  <2> DEFINE u == wire[c].arg.user
  <2>1. Sent(c, "credit") /\ UNCHANGED <<mounted, detail, crediting, enteredTwice>>
    BY <1>16 DEF admin_credit_wallet, userView
  <2>2. wire[c].op = "credit" /\ u \in User /\ wallet[u] \in Nat
    BY <1>1, <2>1 DEF Sent, UsersMessage, UsersTypeOK
  <2>3. \/ Reply(c, "refused", None) /\ wallet' = wallet
        \/ Reply(c, "answered", wallet[u] + 1) /\ wallet' = [wallet EXCEPT ![u] = @ + 1]
    BY <1>16 DEF admin_credit_wallet
  <2> HIDE DEF u
  <2>4. \A v \in User : wallet[v] \in Nat /\ wallet'[v] \in Nat /\ wallet[v] <= wallet'[v]
    BY <2>2, <2>3 DEF UsersTypeOK
  <2>5. \A d \in Call \ {c} : wire'[d] = wire[d]
    BY <1>1, <2>2, <2>3, ReplyEffect
  <2>6. /\ wire'[c].heard = wire[c].heard /\ wire'[c].op \in {"idle", "credit"}
        /\ wire[c].heard => /\ wire'[c].arg = wire[c].arg /\ wire'[c].op = "credit"
                            /\ wire'[c].state = "answered" =>
                                 wire'[c].answer = wallet[u] + 1 /\ wallet'[u] = wallet[u] + 1
    BY <1>1, <2>2, <2>3, ReplyEffect DEF UsersTypeOK
  <2>7. Calls("detail")' = Calls("detail") /\ Heard("credit")' = Heard("credit")
        /\ \A d \in Calls("detail") : wire'[d] = wire[d]
    BY <2>2, <2>5, <2>6 DEF Calls, Heard
  <2>8. detail.reported \in Nat
    BY DEF UsersTypeOK
  <2>9. ASSUME NEW d \in Heard("credit")
        PROVE  /\ detail.user = wire'[d].arg.user
               /\ wire'[d].state = "answered" =>
                    /\ wire'[d].answer <= wallet'[detail.user]
                    /\ ~enteredTwice => detail.reported <= wire'[d].answer
    <3>1. detail.user = wire[d].arg.user /\ detail.balance # None /\ detail.user \in User
      BY <2>9 DEF WindowInv
    <3>2. CASE d = c
      <4>1. detail.user = u /\ wire[c].heard /\ detail.reported <= wallet[u]
        BY <2>9, <3>1, <3>2 DEF Heard, WindowInv, u
      <4>2. wire'[c].arg.user = u
        BY <4>1, <2>6 DEF u
      <4>3. QED
        BY <2>2, <2>6, <2>8, <3>2, <4>1, <4>2
    <3>3. CASE d # c
      <4>1. wire'[d] = wire[d] /\ wire[d].op = "credit"
        BY <2>5, <2>9, <3>3 DEF Heard
      <4>2. wire[d].state = "answered" =>
               wire[d].answer \in Nat /\ wire[d].answer <= wallet[detail.user]
        BY <1>1, <2>9, <4>1 DEF WindowInv, UsersMessage, Heard
      <4>3. QED
        BY <2>4, <2>9, <3>1, <4>1, <4>2 DEF WindowInv
    <3>4. QED
      BY <3>2, <3>3
  <2>10. detail.balance # None => detail.reported <= wallet'[detail.user]
    BY <2>4, <2>8 DEF WindowInv
  <2>11. QED
    BY <2>1, <2>7, <2>9, <2>10 DEF WindowInv, AtMostOne, OwnCreditShown
<1>17. ASSUME NEW u \in User, startEdit(u) PROVE WindowInv'
    BY <1>5, <1>17 DEF startEdit, userServer
<1>18. ASSUME NEW n \in Name, rename(n) PROVE WindowInv'
    BY <1>5, <1>18 DEF rename, setEditForm, userServer
<1>19. ASSUME tick PROVE WindowInv'
    BY <1>5, <1>19 DEF tick, setEditForm, userServer
<1>20. ASSUME cancelEdit PROVE WindowInv'
    BY <1>5, <1>20 DEF cancelEdit, userServer
<1>21. ASSUME save PROVE WindowInv'
    BY <1>3, <1>21 DEF save, userServer
<1>22. ASSUME NEW u \in User, remove(u) PROVE WindowInv'
    BY <1>3, <1>22 DEF remove, userServer
<1>23. ASSUME NEW u \in User, AccountChanges(u) PROVE WindowInv'
    BY <1>5, <1>23 DEF AccountChanges
<1>24. ASSUME NEW c \in Call, UsersLoaded(c) PROVE WindowInv'
    BY <1>2, <1>24 DEF UsersLoaded, userServer, Answered, Rejected
<1>25. ASSUME NEW c \in Call, SaveAnswered(c) PROVE WindowInv'
    BY <1>2, <1>25 DEF SaveAnswered, userServer, Answered, Rejected
<1>26. ASSUME NEW c \in Call, RemoveAnswered(c) PROVE WindowInv'
    BY <1>2, <1>26 DEF RemoveAnswered, userServer, Answered, Rejected
<1>27. ASSUME NEW c \in Call, ServeUsers(c) PROVE WindowInv'
    BY <1>4, <1>27 DEF ServeUsers, usersVars, userServer, userView
<1>28. ASSUME NEW c \in Call, update_user(c) PROVE WindowInv'
  <2> DEFINE row == [name |-> wire[c].arg.form.name, active |-> wire[c].arg.form.active]
  <2>1. /\ Sent(c, "update") /\ UNCHANGED <<wallet, detail, crediting, enteredTwice, mounted>>
        /\ Reply(c, "refused", None) \/ Reply(c, "answered", row)
    BY <1>28 DEF update_user, userView
  <2> HIDE DEF row
  <2>2. QED
    BY <1>4, <2>1
<1>29. ASSUME NEW c \in Call, delete_user(c) PROVE WindowInv'
  <2>1. /\ Sent(c, "remove") /\ UNCHANGED <<wallet, detail, crediting, enteredTwice, mounted>>
        /\ Reply(c, "refused", None) \/ Reply(c, "answered", None)
    BY <1>29 DEF delete_user, userView
  <2>2. QED
    BY <1>4, <2>1
<1>30. ASSUME pressCredit \/ pressEnter PROVE WindowInv'
    BY <1>13, <1>30 DEF pressCredit, pressEnter, CreditOffered
<1>31. QED
    BY <1>7, <1>8, <1>9, <1>10, <1>11, <1>12, <1>14, <1>15, <1>16, <1>17, <1>18, <1>19,
       <1>20, <1>21, <1>22, <1>23, <1>24, <1>25, <1>26, <1>27, <1>28, <1>29, <1>30
    DEF UsersNext, UsersAnswer, UsersServe

LEMMA UsersInvStep ==
    ASSUME ClientInv, UsersInv, tab = "users", tab' = tab, UsersNext
    PROVE  UsersInv'
<1>1. UsersTypeOK /\ UsersMessages /\ RowsInv /\ WindowInv
    BY DEF UsersInv
<1>2. UsersTypeOK' /\ UsersMessages'
    BY <1>1, UsersTypeStep DEF ClientInv, RowsInv
<1>3. RowsInv' /\ WindowInv'
    BY <1>1, RowsStep, WindowStep
<1>4. QED
    BY <1>2, <1>3 DEF UsersInv

(* Only a save that reaches the server sets is_active, and what it sets is *)
(* what the row showed unless the box was ticked by hand.                  *)
LEMMA ReactivationStep ==
    ASSUME ClientInv, UsersInv, tab = "users", UsersNext, account' # account,
           NEW c \in Call, Sent(c, "update"), wire'[c].state # "sent",
           account[wire[c].arg.user] # None, ~account[wire[c].arg.user].active,
           account'[wire[c].arg.user].active
    PROVE  wire[c].arg.form.ticked \/ wire[c].arg.user \in doubt
<1> DEFINE u == wire[c].arg.user
<1>1. UsersTypeOK /\ RowsInv /\ u \in User
    BY DEF UsersInv, UsersMessages, UsersMessage, Sent
<1>2. WireOK /\ wire[c].op = "update" /\ wire[c].state = "sent"
    BY DEF ClientInv, Sent
<1>3. \/ \E d \in Call : update_user(d) \/ delete_user(d)
      \/ \E v \in User : AccountChanges(v)
  <2>1. CASE \E v \in User : startEdit(v) \/ remove(v) \/ openDetail(v) \/ AccountChanges(v)
    BY <2>1 DEF startEdit, remove, openDetail, userServer
  <2>2. CASE OpenUsers \/ LeaveUsers \/ tick \/ cancelEdit \/ save \/ \E n \in Name : rename(n)
    BY <2>2 DEF OpenUsers, LeaveUsers, tick, cancelEdit, save, rename, setEditForm, userServer
  <2>3. CASE closeDetail \/ typeAmount \/ pressCredit \/ pressEnter
    BY <2>3 DEF closeDetail, typeAmount, pressCredit, pressEnter, handleCredit, userServer
  <2>4. ASSUME NEW d \in Call, UsersAnswer(d) PROVE FALSE
    BY <2>4 DEF UsersAnswer, UsersLoaded, SaveAnswered, RemoveAnswered, DetailLoaded, Credited,
                userServer
  <2>5. ASSUME NEW d \in Call, UsersServe(d) PROVE update_user(d) \/ delete_user(d)
    BY <2>5 DEF UsersServe, ServeUsers, get_user_detail, admin_credit_wallet, usersVars,
                userServer
  <2>6. QED
    BY <2>1, <2>2, <2>3, <2>4, <2>5 DEF UsersNext
<1>4. CASE \E v \in User : AccountChanges(v)
    BY <1>2, <1>4 DEF AccountChanges
<1>5. ASSUME NEW d \in Call, delete_user(d) PROVE FALSE
  <2>1. /\ Sent(d, "remove")
        /\ Reply(d, "refused", None) \/ Reply(d, "answered", None)
    BY <1>5 DEF delete_user
  <2>2. wire'[c] = wire[c]
    BY <1>2, <2>1, ReplyEffect DEF Sent
  <2>3. QED
    BY <1>2, <2>2
<1>6. ASSUME NEW d \in Call, update_user(d) PROVE wire[c].arg.form.ticked \/ u \in doubt
  <2> DEFINE v   == wire[d].arg.user
             row == [name |-> wire[d].arg.form.name, active |-> wire[d].arg.form.active]
  <2>1. /\ Sent(d, "update")
        /\ account' = [account EXCEPT ![v] = row] /\ Reply(d, "answered", row)
    BY <1>6 DEF update_user
  <2>2. row.active = wire[d].arg.form.active
    OBVIOUS
  <2> HIDE DEF row
  <2>3. d = c
    BY <1>2, <2>1, ReplyEffect DEF Sent
  <2>4. account'[u] = row
    BY <1>1, <2>1, <2>3 DEF UsersTypeOK
  <2>5. wire[c].arg.form.active
    BY <2>2, <2>3, <2>4
  <2>6. QED
    BY <1>1, <1>2, <2>1, <2>3, <2>5 DEF RowsInv, EditAlone, Edits, Calls
<1>7. QED
    BY <1>3, <1>4, <1>5, <1>6

-----------------------------------------------------------------------------
(* Sessions *)

Matching(f) == {"absent"} \cup (IF f = "all" THEN SessionState ELSE {f})

SessionsMessage(m) ==
    /\ m.op \in {"idle", "sessions", "close"}
    /\ m.op # "idle" => m.arg.filter \in StatusFilter
    /\ m.op = "close" => /\ m.arg.session \in Session
                         /\ m.state = "answered" => session[m.arg.session] = "completed"
    /\ m.op = "sessions" /\ m.state = "answered" =>
         m.answer \in [Session -> Matching(m.arg.filter)]

SessionsMessages == \A c \in Call : SessionsMessage(wire[c])

NotActive(rows) == \A s \in closedHere : rows[s] # "active"

(* The rows belong to the filter, or the one load under way brings such    *)
(* rows; both were read after what was closed here.                        *)
LoadCarried ==
    /\ AtMostOne(Calls("sessions"))
    /\ \A c \in Calls("sessions") :
          /\ wire[c].arg.filter = statusFilter
          /\ wire[c].state = "answered" => NotActive(wire[c].answer)
    /\ Calls("sessions") = {} =>
          sessions \in [Session -> Matching(statusFilter)] /\ NotActive(sessions)

SessionsFirst == sessions = NoSessions /\ statusFilter = "all" /\ closedHere = {}

SessionsInv ==
    /\ SessionsTypeOK
    /\ ReportedClosedIsCompleted
    /\ tab # "sessions" \/ ~mounted => SessionsFirst
    /\ tab = "sessions" => SessionsMessages /\ (~strayLoad => LoadCarried)

LEMMA FirstRowsMatch ==
    /\ NoSessions \in [Session -> SessionState]
    /\ NoSessions \in [Session -> Matching("all")]
BY DEF NoSessions, SessionState, Matching

LEMMA SessionsInvInit ==
    ASSUME Init
    PROVE  SessionsInv
<1>1. \A c \in Call : wire[c].op = "idle" /\ wire[c].state = "free"
    BY IdleIsMessage DEF Init, ClientInit
<1>2. SessionsTypeOK /\ SessionsFirst
  <2>1. SessionsInit
    BY DEF Init
  <2>2. session \in [Session -> SessionState] /\ sessions \in [Session -> SessionState]
    BY <2>1, FirstRowsMatch DEF SessionsInit, SessionState
  <2>3. QED
    BY <2>1, <2>2 DEF SessionsInit, SessionsTypeOK, SessionsFirst, StatusFilter
<1>3. SessionsMessages /\ Calls("sessions") = {}
    BY <1>1 DEF SessionsMessages, SessionsMessage, Calls
<1>4. QED
    BY <1>2, <1>3, FirstRowsMatch
    DEF SessionsInv, SessionsFirst, LoadCarried, NotActive, AtMostOne, ReportedClosedIsCompleted

LEMMA SessionsInvStep ==
    ASSUME ClientInv, SessionsInv, tab = "sessions", tab' = tab, SessionsNext
    PROVE  SessionsInv'
<1> USE DEF SessionsTypeOK
<1>1. /\ WireOK /\ SessionsTypeOK /\ ReportedClosedIsCompleted
      /\ \A c \in Call : IsMessage(wire[c]) /\ SessionsMessage(wire[c])
    BY DEF ClientInv, WireOK, SessionsInv, SessionsMessages
<1>2. \A c \in Calls("sessions") : wire[c].heard /\ mounted
    BY <1>1 DEF Calls, IsMessage, Writes, ClientInv, Quiet
<1>3. ~Awaits("sessions") => Calls("sessions") = {}
    BY <1>2 DEF Awaits, Calls
(* One call changes, the others keep what they carry.                      *)
<1>4. ASSUME NEW c \in Call, \A d \in Call \ {c} : wire'[d] = wire[d],
             \A s \in Session : session[s] = "completed" => session'[s] = "completed",
             SessionsMessage(wire[c]) => SessionsMessage(wire[c])'
      PROVE  SessionsMessages'
    BY <1>1, <1>4 DEF SessionsMessages, SessionsMessage
<1>5. ASSUME NEW c \in Call, \A d \in Call \ {c} : wire'[d] = wire[d],
             wire[c].op # "sessions", wire'[c].op # "sessions",
             UNCHANGED <<sessions, statusFilter, closedHere, strayLoad>>
      PROVE  ~strayLoad' => LoadCarried'
  <2>1. Calls("sessions")' = Calls("sessions") /\ \A d \in Calls("sessions") : wire'[d] = wire[d]
    BY <1>5 DEF Calls
  <2>2. QED
    BY <1>5, <2>1 DEF SessionsInv, LoadCarried, AtMostOne, NotActive
<1>6. ASSUME NEW c \in Call, \A d \in Call \ {c} : wire'[d] = wire[d], Calls("sessions") = {},
             wire'[c].op = "sessions", wire'[c].arg.filter = statusFilter',
             wire'[c].state = "sent"
      PROVE  LoadCarried'
  <2>1. Calls("sessions")' = {c}
    BY <1>6 DEF Calls
  <2>2. QED
    BY <1>6, <2>1 DEF LoadCarried, AtMostOne
<1>7. ASSUME NEW f \in StatusFilter, Send("sessions", [session |-> None, filter |-> f]),
             f = statusFilter', ~strayLoad' => Calls("sessions") = {}, UNCHANGED session
      PROVE  SessionsMessages' /\ (~strayLoad' => LoadCarried')
  <2>1. Send("sessions", [session |-> None, filter |-> f])
    BY <1>7
  <2>2. /\ Fresh \in Call /\ wire'[Fresh].op = "sessions" /\ wire'[Fresh].arg.filter = f
        /\ wire'[Fresh].state = "sent"
        /\ \A d \in Call \ {Fresh} : wire'[d] = wire[d]
    BY <1>1, <2>1, SendEffect
  <2>3. SessionsMessages'
    BY <1>4, <1>7, <2>2 DEF SessionsMessage
  <2>4. QED
    BY <1>6, <1>7, <2>2, <2>3
<1>8. ASSUME OpenSessions PROVE SessionsInv'
  <2>1. /\ Send("sessions", [session |-> None, filter |-> "all"])
        /\ statusFilter = "all" /\ Calls("sessions") = {} /\ mounted'
        /\ UNCHANGED <<session, sessions, statusFilter, sessionsLoading, closing, closedHere,
                       strayLoad>>
    BY <1>2, <1>8 DEF OpenSessions, sessionsVars, SessionsInv, SessionsFirst
  <2>2. SessionsMessages' /\ (~strayLoad' => LoadCarried')
    BY <1>7, <2>1 DEF StatusFilter
  <2>3. QED
    BY <1>1, <2>1, <2>2 DEF SessionsInv, ReportedClosedIsCompleted
<1>9. ASSUME LeaveSessions PROVE SessionsInv'
  <2>1. \A c \in Call : /\ ~wire'[c].heard
                        /\ \/ wire'[c].op = "idle" /\ wire'[c].state = "free"
                           \/ /\ wire[c].op \in Writes /\ wire'[c].op = wire[c].op
                              /\ wire'[c].arg = wire[c].arg /\ wire'[c].state = "sent"
    BY <1>1, <1>9, UnmountEffect DEF LeaveSessions
  <2>2. SessionsFirst' /\ UNCHANGED session /\ SessionsTypeOK'
    BY <1>1, <1>9, FirstRowsMatch DEF LeaveSessions, SessionsFirst, StatusFilter, NoSessions
  <2>3. SessionsMessages' /\ Calls("sessions")' = {}
    BY <1>1, <2>1, <2>2 DEF SessionsMessages, SessionsMessage, Calls, Writes
  <2>4. LoadCarried'
    BY <2>2, <2>3, FirstRowsMatch
    DEF LoadCarried, SessionsFirst, AtMostOne, NotActive, NoSessions, Matching, SessionState
  <2>5. QED
    BY <2>2, <2>3, <2>4 DEF SessionsInv, SessionsFirst, ReportedClosedIsCompleted
<1>10. ASSUME NEW f \in StatusFilter, setStatusFilter(f) PROVE SessionsInv'
  <2>1. SessionsMessages' /\ (~strayLoad' => LoadCarried')
    BY <1>3, <1>7, <1>10 DEF setStatusFilter, fetchSessions
  <2>2. QED
    BY <1>1, <1>10, <2>1 DEF SessionsInv, setStatusFilter, fetchSessions,
       ReportedClosedIsCompleted
<1>11. ASSUME RefreshSessions PROVE SessionsInv'
  <2>1. SessionsMessages' /\ (~strayLoad' => LoadCarried')
    BY <1>1, <1>3, <1>7, <1>11 DEF RefreshSessions, fetchSessions
  <2>2. QED
    BY <1>1, <1>11, <2>1 DEF SessionsInv, RefreshSessions, fetchSessions,
       ReportedClosedIsCompleted
<1>12. ASSUME NEW c \in Call, SessionsLoaded(c) PROVE SessionsInv'
  <2>1. /\ wire[c].op = "sessions" /\ wire'[c].op = "idle"
        /\ \A d \in Call \ {c} : wire'[d] = wire[d]
    BY <1>1, <1>12, TakeEffect, RejectedEffect DEF SessionsLoaded, Answered, Writes
  <2>2. c \in Calls("sessions") /\ mounted
    BY <1>2, <2>1 DEF Calls
  <2>3. UNCHANGED <<session, mounted, statusFilter, closing, closedHere>>
        /\ sessionsLoading' = FALSE
    BY <1>12 DEF SessionsLoaded
  <2>4. SessionsMessages'
    BY <1>4, <2>1, <2>3 DEF SessionsMessage
  <2>5. CASE Rejected(c, "sessions") /\ strayLoad' = TRUE /\ UNCHANGED sessions
    BY <1>1, <2>2, <2>3, <2>4, <2>5 DEF SessionsInv, ReportedClosedIsCompleted
  <2>6. CASE Answered(c, "sessions") /\ sessions' = wire[c].answer /\ UNCHANGED strayLoad
    <3>1. wire[c].answer \in [Session -> Matching(wire[c].arg.filter)]
          /\ wire[c].arg.filter \in StatusFilter
      BY <1>1, <2>6 DEF Answered, SessionsMessage
    <3>2. sessions' \in [Session -> SessionState]
      BY <2>6, <3>1 DEF Matching, StatusFilter, SessionState
    <3>3. ASSUME ~strayLoad PROVE LoadCarried'
      <4>1. Calls("sessions") = {c} /\ wire[c].arg.filter = statusFilter
            /\ NotActive(wire[c].answer)
        BY <2>2, <2>6, <3>3 DEF SessionsInv, LoadCarried, AtMostOne, Answered
      <4>2. Calls("sessions")' = {}
        BY <2>1, <4>1 DEF Calls
      <4>3. QED
        BY <2>3, <2>6, <3>1, <4>1, <4>2 DEF LoadCarried, AtMostOne, NotActive
    <3>4. QED
      BY <1>1, <2>2, <2>3, <2>4, <2>6, <3>2, <3>3 DEF SessionsInv, ReportedClosedIsCompleted
  <2>7. QED
    BY <1>12, <2>5, <2>6 DEF SessionsLoaded
<1>13. ASSUME NEW s \in Session, handleClose(s) PROVE SessionsInv'
  <2>1. /\ Send("close", [session |-> s, filter |-> statusFilter]) /\ mounted
        /\ closing' = s
        /\ UNCHANGED <<mounted, session, sessions, statusFilter, sessionsLoading, closedHere,
                       strayLoad>>
    BY <1>13 DEF handleClose
  <2>2. Send("close", [session |-> s, filter |-> statusFilter])
    BY <2>1
  <2>3. /\ Fresh \in Call /\ wire[Fresh].op = "idle" /\ wire'[Fresh].op = "close"
        /\ wire'[Fresh].arg.filter = statusFilter /\ wire'[Fresh].arg.session = s
        /\ wire'[Fresh].state = "sent"
        /\ \A d \in Call \ {Fresh} : wire'[d] = wire[d]
    BY <1>1, <2>2, SendEffect
  <2>4. SessionsMessages' /\ (~strayLoad' => LoadCarried')
    BY <1>1, <1>4, <1>5, <2>1, <2>3 DEF SessionsMessage
  <2>5. QED
    BY <1>1, <2>1, <2>4 DEF SessionsInv, ReportedClosedIsCompleted
<1>14. ASSUME NEW c \in Call, SessionClosed(c) PROVE SessionsInv'
  <2> DEFINE f == wire[c].arg.filter
             m == Request("sessions", [session |-> None, filter |-> f])
  <2>1. /\ wire[c].op = "close" /\ wire[c].state = "answered"
        /\ strayLoad' = (strayLoad \/ Awaits("sessions") \/ f # statusFilter)
        /\ sessionsLoading' = TRUE /\ closing' = None
        /\ closedHere' = closedHere \cup {wire[c].arg.session}
        /\ UNCHANGED <<mounted, session, sessions, statusFilter>>
    BY <1>14 DEF SessionClosed, Answered
  <2>2. wire' = [wire EXCEPT ![c] = m]
    BY <1>14 DEF SessionClosed
  <2>3. IsMessage(m) /\ m.op = "sessions" /\ m.arg.filter = f /\ m.state = "sent"
    BY DEF Request, IsMessage, MessageFields, Writes
  <2> HIDE DEF m
  <2>4. wire'[c] = m /\ \A d \in Call \ {c} : wire'[d] = wire[d]
    BY <1>1, <2>2, <2>3, PutEffect
  <2>5. /\ f \in StatusFilter /\ wire[c].arg.session \in Session
        /\ session[wire[c].arg.session] = "completed"
    BY <1>1, <2>1 DEF SessionsMessage
  <2>6. mounted
    BY <1>1, <2>1 DEF ClientInv, Quiet, IsMessage
  <2>7. SessionsMessages'
    BY <1>4, <2>1, <2>3, <2>4, <2>5 DEF SessionsMessage
  <2>8. ASSUME ~strayLoad' PROVE LoadCarried'
    BY <1>3, <1>6, <2>1, <2>3, <2>4, <2>8
  <2>9. QED
    BY <1>1, <2>1, <2>5, <2>6, <2>7, <2>8 DEF SessionsInv, ReportedClosedIsCompleted
<1>15. ASSUME NEW c \in Call, CloseFailed(c) PROVE SessionsInv'
  <2>1. /\ wire[c].op = "close" /\ wire[c].heard /\ wire'[c].op \in {"idle", "close"}
        /\ wire'[c].op = "close" => wire'[c].arg = wire[c].arg /\ wire'[c].state = "sent"
        /\ \A d \in Call \ {c} : wire'[d] = wire[d]
    BY <1>1, <1>15, RejectedEffect DEF CloseFailed
  <2>2. /\ UNCHANGED <<mounted, session, sessions, statusFilter, sessionsLoading, closedHere,
                       strayLoad>>
        /\ closing' = None
    BY <1>15 DEF CloseFailed
  <2>3. SessionsMessages' /\ (~strayLoad' => LoadCarried')
    BY <1>1, <1>4, <1>5, <2>1, <2>2 DEF SessionsMessage
  <2>4. QED
    BY <1>1, <2>2, <2>3 DEF SessionsInv, ReportedClosedIsCompleted, SessionsFirst
<1>16. ASSUME NEW c \in Call, list_sessions(c) PROVE SessionsInv'
  <2> DEFINE f    == wire[c].arg.filter
             rows == [s \in Session |-> IF f \in {"all", session[s]} THEN session[s] ELSE "absent"]
  <2>1. Sent(c, "sessions") /\ Reply(c, "answered", rows)
        /\ UNCHANGED <<mounted, session, sessions, statusFilter, sessionsLoading, closing,
                       closedHere, strayLoad>>
    BY <1>16 DEF list_sessions, sessionsVars
  <2>2. f \in StatusFilter /\ wire[c].op = "sessions"
    BY <1>1, <2>1 DEF Sent, SessionsMessage
  <2>3. rows \in [Session -> Matching(f)] /\ NotActive(rows)
    <3>1. \A s \in Session : rows[s] \in Matching(f) /\ (session[s] = "completed" => rows[s] # "active")
      BY <1>1, <2>2 DEF Matching, StatusFilter, SessionState
    <3>2. QED
      BY <1>1, <3>1 DEF NotActive, ReportedClosedIsCompleted
  <2> HIDE DEF rows
  <2>4. c \in Calls("sessions") /\ wire[c].heard
    BY <1>2, <2>2 DEF Calls
  <2>5. Reply(c, "answered", rows)
    BY <2>1
  <2>6. /\ wire'[c].op = "sessions" /\ wire'[c].arg = wire[c].arg /\ wire'[c].state = "answered"
        /\ wire'[c].answer = rows /\ \A d \in Call \ {c} : wire'[d] = wire[d]
    BY <1>1, <2>2, <2>4, <2>5, ReplyEffect
  <2>7. SessionsMessages'
    BY <1>4, <2>1, <2>2, <2>3, <2>6 DEF SessionsMessage
  <2>8. Calls("sessions")' = Calls("sessions")
    BY <2>2, <2>6 DEF Calls
  <2>9. ASSUME ~strayLoad PROVE LoadCarried'
    <3>1. Calls("sessions") = {c} /\ wire[c].arg.filter = statusFilter
      BY <2>4, <2>9 DEF SessionsInv, LoadCarried, AtMostOne
    <3>2. QED
      BY <2>1, <2>3, <2>6, <2>8, <3>1 DEF LoadCarried, AtMostOne, NotActive
  <2>10. QED
    BY <1>1, <2>1, <2>7, <2>9 DEF SessionsInv, ReportedClosedIsCompleted, SessionsFirst
<1>17. ASSUME NEW c \in Call, force_close_session(c) PROVE SessionsInv'
  <2> DEFINE s == wire[c].arg.session
  <2>1. Sent(c, "close")
        /\ UNCHANGED <<mounted, sessions, statusFilter, sessionsLoading, closing, closedHere,
                       strayLoad>>
    BY <1>17 DEF force_close_session, sessionsView
  <2>2. wire[c].op = "close" /\ s \in Session /\ wire[c].arg.filter \in StatusFilter
    BY <1>1, <2>1 DEF Sent, SessionsMessage
  <2>3. \/ session' = [session EXCEPT ![s] = "completed"] /\ Reply(c, "answered", None)
        \/ session' = session /\ Reply(c, "refused", None)
    BY <1>17 DEF force_close_session
  <2> HIDE DEF s
  <2>4. /\ session' \in [Session -> SessionState]
        /\ \A t \in Session : session[t] = "completed" => session'[t] = "completed"
    BY <1>1, <2>2, <2>3 DEF SessionState
  <2>5. /\ wire'[c].op \in {"idle", "close"}
        /\ wire'[c].op = "close" =>
             /\ wire'[c].arg = wire[c].arg
             /\ wire'[c].state = "answered" => session'[s] = "completed"
        /\ \A d \in Call \ {c} : wire'[d] = wire[d]
    BY <1>1, <2>2, <2>3, ReplyEffect
  <2>6. SessionsMessages' /\ (~strayLoad' => LoadCarried')
    BY <1>4, <1>5, <2>1, <2>2, <2>4, <2>5 DEF SessionsMessage, s
  <2>7. QED
    BY <1>1, <2>1, <2>4, <2>6 DEF SessionsInv, ReportedClosedIsCompleted, SessionsFirst
<1>18. ASSUME NEW s \in Session, GateMoves(s) PROVE SessionsInv'
  <2>1. UNCHANGED <<wire, mounted, sessions, statusFilter, sessionsLoading, closing, closedHere,
                    strayLoad>>
    BY <1>18 DEF GateMoves, sessionsView
  <2>2. /\ session' \in [Session -> SessionState]
        /\ \A t \in Session : session[t] = "completed" => session'[t] = "completed"
    BY <1>1, <1>18 DEF GateMoves, SessionState
  <2>3. SessionsMessages'
    BY <1>1, <2>1, <2>2 DEF SessionsMessages, SessionsMessage
  <2>4. ~strayLoad' => LoadCarried'
    BY <2>1 DEF SessionsInv, LoadCarried, AtMostOne, NotActive, Calls
  <2>5. QED
    BY <1>1, <2>1, <2>2, <2>3, <2>4 DEF SessionsInv, ReportedClosedIsCompleted, SessionsFirst
<1>19. QED
    BY <1>8, <1>9, <1>10, <1>11, <1>12, <1>13, <1>14, <1>15, <1>16, <1>17, <1>18
    DEF SessionsNext, SessionsAnswer, SessionsServe

-----------------------------------------------------------------------------
(* The page numbers *)

(* For any number of pages the bar under the transactions offers the page  *)
(* shown, its neighbours and both ends, and marks exactly the gaps         *)
(* (AdminDashboard.jsx pageNumbers).                                       *)
THEOREM BarCorrect ==
    ASSUME NEW pages \in Nat \ {0}, NEW p \in 1 .. pages
    PROVE  BarOK(p, pages)
<1> DEFINE lo == WindowLow(p, pages)
           hi == WindowHigh(p, pages)
           bar == PageNumbers(p, pages)
<1>1. CASE pages <= 7
  <2>1. bar = [numbers |-> 1 .. pages, before |-> FALSE, behind |-> FALSE]
    BY <1>1 DEF PageNumbers
  <2>2. QED
    BY <2>1 DEF BarOK
<1>2. CASE pages > 7
  <2>1. bar = [numbers |-> {1, pages} \cup lo .. hi, before |-> lo > 2, behind |-> hi < pages - 1]
    BY <1>2 DEF PageNumbers
  <2>2. /\ lo \in Int /\ hi \in Int /\ 2 <= lo /\ lo <= hi /\ hi <= pages - 1
        /\ lo <= p \/ p = 1
        /\ p <= hi \/ p = pages
        /\ p > 2 => lo <= p - 1
        /\ p < pages - 1 => p + 1 <= hi
        /\ p = pages => hi = pages - 1
        /\ p = 1 => lo = 2
    BY <1>2 DEF WindowLow, WindowHigh, Smaller, Larger
  <2> HIDE DEF lo, hi, bar
  <2>3. bar.before <=> \E q \in 1 .. p : q \notin bar.numbers
    <3>1. CASE lo > 2
      <4>1. 2 \in 1 .. p /\ 2 \notin {1, pages} \cup lo .. hi
        BY <1>2, <2>2, <3>1
      <4>2. QED
        BY <2>1, <3>1, <4>1
    <3>2. CASE lo <= 2
      <4>1. \A q \in 1 .. p : q \in {1, pages} \cup lo .. hi
        BY <1>2, <2>2, <3>2
      <4>2. ~(lo > 2)
        BY <2>2, <3>2
      <4>3. bar.numbers = {1, pages} \cup lo .. hi /\ ~bar.before
        BY <2>1, <4>2
      <4>4. QED
        BY <4>1, <4>3
    <3>3. QED
      BY <2>2, <3>1, <3>2
  <2>4. bar.behind <=> \E q \in p .. pages : q \notin bar.numbers
    <3>1. CASE hi < pages - 1
      <4>1. pages - 1 \in p .. pages /\ pages - 1 \notin {1, pages} \cup lo .. hi
        BY <1>2, <2>2, <3>1
      <4>2. QED
        BY <2>1, <3>1, <4>1
    <3>2. CASE hi = pages - 1
      <4>1. \A q \in p .. pages : q \in {1, pages} \cup lo .. hi
        BY <1>2, <2>2, <3>2
      <4>2. ~(hi < pages - 1)
        BY <2>2, <3>2
      <4>3. bar.numbers = {1, pages} \cup lo .. hi /\ ~bar.behind
        BY <2>1, <4>2
      <4>4. QED
        BY <4>1, <4>3
    <3>3. QED
      BY <2>2, <3>1, <3>2
  <2>5. QED
    BY <1>2, <2>1, <2>2, <2>3, <2>4 DEF BarOK, bar
<1>3. QED
    BY <1>1, <1>2

(* The number of pages of n rows: at least one, no fewer for more rows,    *)
(* and a page that exists is empty only when there are no rows at all.     *)
LEMMA PagesCounted ==
    ASSUME NEW n \in Nat, NEW limit \in Nat \ {0}
    PROVE  /\ TotalPages(n, limit) \in Nat \ {0}
           /\ \A m \in 0 .. n : TotalPages(m, limit) <= TotalPages(n, limit)
           /\ \A p \in 1 .. TotalPages(n, limit) : n <= (p - 1) * limit => n = 0
<1> DEFINE Pages(m) == (m + limit - 1) \div limit
<1>1. ASSUME NEW m \in Nat
      PROVE  /\ Pages(m) \in Nat
             /\ limit * Pages(m) <= m + limit - 1
             /\ m + limit - 1 < limit * (Pages(m) + 1)
  <2> DEFINE k == m + limit - 1
  <2>1. k \in Nat
    OBVIOUS
  <2> HIDE DEF k
  <2>2. k \div limit \in Int /\ k = limit * (k \div limit) + (k % limit) /\ k % limit \in 0 .. limit - 1
    BY <2>1
  <2>3. k \div limit >= 0
    BY <2>1
  <2> DEFINE q == k \div limit
  <2>4. q \in Nat /\ limit * q <= k /\ k < limit * (q + 1)
    BY <2>1, <2>2, <2>3
  <2>5. QED
    BY <2>4 DEF k
<1> HIDE DEF Pages
<1>2. \A m \in Nat : TotalPages(m, limit) = Larger(1, Pages(m))
    BY DEF TotalPages, Pages
<1>3. ASSUME NEW a \in Nat, NEW b \in Nat, a > b PROVE limit * a >= limit * (b + 1)
    BY <1>3
<1>4. ASSUME NEW m \in 0 .. n PROVE Pages(m) <= Pages(n)
  <2>1. SUFFICES ASSUME Pages(m) > Pages(n) PROVE FALSE
    BY <1>1
  <2>2. limit * Pages(m) >= limit * (Pages(n) + 1)
    BY <1>1, <1>3, <2>1
  <2>3. QED
    BY <1>1, <2>2
<1>5. ASSUME NEW p \in 1 .. TotalPages(n, limit), n <= (p - 1) * limit, n # 0 PROVE FALSE
  <2>1. Pages(n) >= 1
    <3>1. Pages(n) = 0 => limit * (Pages(n) + 1) = limit
      OBVIOUS
    <3>2. QED
      BY <1>1, <1>5, <3>1
  <2>2. p <= Pages(n)
    BY <1>1, <1>2, <2>1, SMTT(30) DEF Larger
  <2>3. (p - 1) * limit <= (Pages(n) - 1) * limit
    BY <1>1, <2>1, <2>2
  <2>4. (Pages(n) - 1) * limit = limit * Pages(n) - limit
    BY <1>1
  <2>5. limit * Pages(n) \in Nat /\ (p - 1) * limit \in Nat
    BY <1>1
  <2>6. QED
    BY <1>1, <1>5, <2>3, <2>4, <2>5
<1>6. ASSUME NEW m \in 0 .. n PROVE TotalPages(m, limit) <= TotalPages(n, limit)
  <2>1. m \in Nat /\ Pages(m) \in Nat /\ Pages(n) \in Nat /\ Pages(m) <= Pages(n)
    BY <1>1, <1>4, <1>6
  <2>2. TotalPages(m, limit) = Larger(1, Pages(m)) /\ TotalPages(n, limit) = Larger(1, Pages(n))
    BY <1>2, <2>1
  <2>3. QED
    BY <2>1, <2>2 DEF Larger
<1>7. TotalPages(n, limit) \in Nat \ {0}
    BY <1>1, <1>2 DEF Larger
<1>8. QED
    BY <1>5, <1>6, <1>7

-----------------------------------------------------------------------------
(* Transactions *)

TxnsMessage(m) ==
    /\ m.op \in {"idle", "transactions"}
    /\ m.op = "transactions" =>
         /\ m.arg \in [filter : Filter, page : Nat \ {0}]
         /\ m.state = "answered" => m.answer \in [total : 0 .. MaxTxns, rows : 0 .. PageLimit]

TxnsMessages == \A c \in Call : TxnsMessage(wire[c])

(* The rows belong to the filter and the page, or the one load under way   *)
(* brings such rows.                                                       *)
FetchCarried ==
    /\ AtMostOne(Calls("transactions"))
    /\ \A c \in Calls("transactions") :
          wire[c].arg.filter = txnFilter /\ wire[c].arg.page = pageNo
    /\ Calls("transactions") = {} => txns.filter = txnFilter /\ txns.page = pageNo

Exists(p, n) == p <= TotalPages(n, PageLimit)

(* The page exists for the total shown or on its way, and that total is no *)
(* larger than what the server holds now.                                  *)
PageCarried ==
    /\ Exists(pageNo, matching[txnFilter])
    /\ \A c \in Calls("transactions") :
          wire[c].state = "answered" =>
             /\ wire[c].answer.total <= matching[txnFilter]
             /\ Exists(pageNo, wire[c].answer.total)
             /\ wire[c].answer.rows = 0 => wire[c].answer.total = 0
    /\ Calls("transactions") = {} =>
             /\ total <= matching[txnFilter]
             /\ Exists(pageNo, total)
             /\ txns.rows = 0 => total = 0

TxnsFirst == txns = NoTxns /\ total = 0 /\ pageNo = 1 /\ txnFilter = AllTxns /\ txnLoading

TxnsInv ==
    /\ TransactionsTypeOK
    /\ \A f \in Filter : matching[f] <= matching[AllTxns]
    /\ tab # "transactions" \/ ~mounted => TxnsFirst
    /\ tab = "transactions" =>
         TxnsMessages /\ (~strayFetch => FetchCarried /\ (~deleted => PageCarried))

LEMMA FirstPageShown ==
    /\ NoTxns \in [filter : Filter, page : Nat, rows : 0 .. PageLimit]
    /\ NoTxns.filter = AllTxns /\ NoTxns.page = 1
    /\ \A n \in Nat : Exists(1, n)
BY TransactionsAssumption, PagesCounted DEF NoTxns, Exists

LEMMA FirstPageCarried ==
    ASSUME TransactionsTypeOK, TxnsFirst, Calls("transactions") = {}
    PROVE  FetchCarried /\ PageCarried
BY TransactionsAssumption, FirstPageShown
DEF TransactionsTypeOK, TxnsFirst, FetchCarried, PageCarried, AtMostOne

LEMMA TxnsInvInit ==
    ASSUME Init
    PROVE  TxnsInv
<1>1. \A c \in Call : wire[c].op = "idle"
    BY IdleIsMessage DEF Init, ClientInit
<1>2. TransactionsInit
    BY DEF Init
<1>3. matching \in [Filter -> 0 .. MaxTxns] /\ 0 \in 0 .. MaxTxns
    BY <1>2, TransactionsAssumption DEF TransactionsInit
<1>4. TransactionsTypeOK /\ TxnsFirst
  <2>1. {deleted, txnLoading, selected, strayFetch} \subseteq BOOLEAN /\ txnLoading
    BY <1>2 DEF TransactionsInit
  <2>2. QED
    BY <1>2, <1>3, <2>1, FirstPageShown, TransactionsAssumption
    DEF TransactionsInit, TransactionsTypeOK, TxnsFirst
<1>5. TxnsMessages /\ Calls("transactions") = {}
    BY <1>1 DEF TxnsMessages, TxnsMessage, Calls
<1>6. QED
    BY <1>2, <1>4, <1>5, FirstPageCarried DEF TxnsInv, TransactionsInit

(* The bar offers existing pages only, and no page before the first one    *)
(* even where the total shown belongs to another filter.                   *)
LEMMA OfferedPages ==
    ASSUME TransactionsTypeOK, NEW p \in PagesOffered
    PROVE  /\ p \in Nat \ {0}
           /\ ~txnLoading
           /\ Exists(pageNo, total) => Exists(p, total)
<1>1. totalPages \in Nat \ {0} /\ pageNo \in Nat \ {0}
    BY PagesCounted, TransactionsAssumption DEF totalPages, TransactionsTypeOK
<1>2. ~txnLoading /\ \/ p \in PageNumbers(pageNo, totalPages).numbers
                     \/ p = pageNo - 1 /\ pageNo # 1
                     \/ p = pageNo + 1 /\ pageNo # totalPages
    BY DEF PagesOffered
<1>3. PageNumbers(pageNo, totalPages).numbers \subseteq Nat \ {0}
    BY <1>1 DEF PageNumbers, WindowLow, WindowHigh, Smaller, Larger
<1>4. ASSUME pageNo <= totalPages PROVE p <= totalPages
  <2>1. PageNumbers(pageNo, totalPages).numbers \subseteq 1 .. totalPages
    BY <1>1, <1>4, BarCorrect DEF BarOK
  <2>2. QED
    BY <1>1, <1>2, <1>4, <2>1
<1>5. p \in Nat \ {0}
    BY <1>1, <1>2, <1>3
<1>6. QED
    BY <1>2, <1>4, <1>5 DEF Exists, totalPages

LEMMA TxnsInvStep ==
    ASSUME ClientInv, TxnsInv, tab = "transactions", tab' = tab, TransactionsNext
    PROVE  TxnsInv'
<1> USE DEF TransactionsTypeOK
<1>1. /\ WireOK /\ TransactionsTypeOK /\ \A f \in Filter : matching[f] <= matching[AllTxns]
      /\ \A c \in Call : IsMessage(wire[c]) /\ TxnsMessage(wire[c])
    BY DEF ClientInv, WireOK, TxnsInv, TxnsMessages
<1>2. \A c \in Calls("transactions") : wire[c].heard /\ mounted
    BY <1>1 DEF Calls, IsMessage, Writes, ClientInv, Quiet
<1>3. ~Awaits("transactions") => Calls("transactions") = {}
    BY <1>2 DEF Awaits, Calls
(* A load of what is now chosen, alone under way.                          *)
<1>4. ASSUME NEW f \in Filter, NEW p \in Nat \ {0},
             Send("transactions", [filter |-> f, page |-> p]),
             txnFilter' = f, pageNo' = p, ~strayFetch' => Calls("transactions") = {}
      PROVE  /\ TxnsMessages'
             /\ ~strayFetch' => FetchCarried' /\ (Exists(p, matching'[f]) => PageCarried')
  <2>1. Send("transactions", [filter |-> f, page |-> p])
    BY <1>4
  <2>2. /\ Fresh \in Call /\ wire'[Fresh].op = "transactions"
        /\ wire'[Fresh].arg = [filter |-> f, page |-> p] /\ wire'[Fresh].state = "sent"
        /\ \A d \in Call \ {Fresh} : wire'[d] = wire[d]
    BY <1>1, <2>1, SendEffect
  <2>3. TxnsMessages'
    BY <1>1, <2>2 DEF TxnsMessages, TxnsMessage
  <2>4. ASSUME ~strayFetch' PROVE FetchCarried' /\ (Exists(p, matching'[f]) => PageCarried')
    <3>1. Calls("transactions")' = {Fresh}
      BY <1>4, <2>2, <2>4 DEF Calls
    <3>2. wire'[Fresh].arg.filter = f /\ wire'[Fresh].arg.page = p
      BY <2>2
    <3>3. QED
      BY <1>4, <2>2, <3>1, <3>2 DEF FetchCarried, PageCarried, AtMostOne, Exists
  <2>5. QED
    BY <2>3, <2>4
<1>5. ASSUME NEW f \in Filter, NEW p \in Nat \ {0}, fetchTxns(f, p), txnFilter' = f, pageNo' = p,
             UNCHANGED <<mounted, matching, deleted, txns, total, selected>>, mounted,
             ~strayFetch /\ ~deleted /\ Calls("transactions") = {} => Exists(p, matching[f])
      PROVE  TxnsInv'
  <2>1. /\ Send("transactions", [filter |-> f, page |-> p]) /\ txnLoading' = TRUE
        /\ strayFetch' = (strayFetch \/ Awaits("transactions"))
    BY <1>5 DEF fetchTxns
  <2>2. /\ TxnsMessages'
        /\ ~strayFetch' => FetchCarried' /\ (Exists(p, matching'[f]) => PageCarried')
    BY <1>3, <1>4, <1>5, <2>1
  <2>3. ~strayFetch' /\ ~deleted' => Exists(p, matching'[f])
    BY <1>3, <1>5, <2>1
  <2>4. QED
    BY <1>1, <1>5, <2>1, <2>2, <2>3 DEF TxnsInv
<1>6. ASSUME NEW f \in Filter, resetPage(f) PROVE TxnsInv'
  <2>1. Exists(1, matching[f])
    BY <1>1, FirstPageShown
  <2>2. QED
    BY <1>5, <1>6, <2>1 DEF resetPage
<1>7. ASSUME OpenTransactions PROVE TxnsInv'
  <2>1. /\ Send("transactions", [filter |-> AllTxns, page |-> 1]) /\ ~mounted /\ mounted'
        /\ UNCHANGED <<matching, deleted, txns, total, pageNo, txnFilter, txnLoading, selected,
                       strayFetch>>
    BY <1>7 DEF OpenTransactions, txnsVars
  <2>2. TxnsFirst /\ Calls("transactions") = {}
    BY <1>2, <2>1 DEF TxnsInv
  <2>3. Exists(1, matching'[AllTxns])
    BY <1>1, <2>1, FirstPageShown, TransactionsAssumption
  <2>4. /\ TxnsMessages'
        /\ ~strayFetch' => FetchCarried' /\ PageCarried'
    BY <1>4, <2>1, <2>2, <2>3, TransactionsAssumption DEF TxnsFirst
  <2>5. QED
    BY <1>1, <2>1, <2>4 DEF TxnsInv
<1>8. ASSUME LeaveTransactions PROVE TxnsInv'
  <2>1. \A c \in Call : ~wire'[c].heard /\ wire'[c].op = "idle"
    BY <1>1, <1>8, UnmountEffect DEF LeaveTransactions, TxnsMessage, Writes
  <2>2. TxnsFirst' /\ TransactionsTypeOK' /\ UNCHANGED matching
    <3>1. 0 \in 0 .. MaxTxns
      BY TransactionsAssumption
    <3>2. TxnsFirst' /\ UNCHANGED matching
          /\ {deleted', txnLoading', selected', strayFetch'} \subseteq BOOLEAN
      BY <1>8 DEF LeaveTransactions, TxnsFirst
    <3>3. QED
      BY <1>1, <3>1, <3>2, FirstPageShown, TransactionsAssumption DEF TxnsFirst
  <2>3. TxnsMessages' /\ Calls("transactions")' = {}
    BY <2>1 DEF TxnsMessages, TxnsMessage, Calls
  <2>4. FetchCarried' /\ PageCarried'
    BY <2>2, <2>3, TransactionsAssumption, FirstPageShown
    DEF TxnsFirst, FetchCarried, PageCarried, AtMostOne, Exists
  <2>5. QED
    BY <1>1, <2>2, <2>3, <2>4 DEF TxnsInv
<1>9. ASSUME NEW p \in PagesOffered, setPage(p) PROVE TxnsInv'
  <2>1. p \in Nat \ {0} /\ (Exists(pageNo, total) => Exists(p, total))
    BY <1>1, OfferedPages
  <2>2. ASSUME ~strayFetch /\ ~deleted /\ Calls("transactions") = {}
        PROVE  Exists(p, matching[txnFilter])
    <3>1. total <= matching[txnFilter] /\ Exists(p, total)
      BY <2>1, <2>2 DEF TxnsInv, PageCarried
    <3>2. /\ total \in 0 .. matching[txnFilter] /\ total \in Nat /\ matching[txnFilter] \in Nat
          /\ PageLimit \in Nat \ {0}
      BY <1>1, <3>1, TransactionsAssumption
    <3>3. /\ TotalPages(total, PageLimit) <= TotalPages(matching[txnFilter], PageLimit)
          /\ TotalPages(total, PageLimit) \in Nat
          /\ TotalPages(matching[txnFilter], PageLimit) \in Nat
      BY <3>2, PagesCounted
    <3>4. QED
      BY <2>1, <3>1, <3>3 DEF Exists
  <2>3. QED
    BY <1>1, <1>5, <1>9, <2>1, <2>2 DEF setPage
<1>10. ASSUME RefreshTxns PROVE TxnsInv'
  <2>1. ~strayFetch /\ ~deleted => Exists(pageNo, matching[txnFilter])
    BY DEF TxnsInv, PageCarried
  <2>2. QED
    BY <1>1, <1>5, <1>10, <2>1 DEF RefreshTxns
<1>11. ASSUME NEW c \in Call, TxnsLoaded(c) PROVE TxnsInv'
  <2>1. /\ wire[c].op = "transactions" /\ wire'[c].op = "idle"
        /\ \A d \in Call \ {c} : wire'[d] = wire[d]
    BY <1>1, <1>11, TakeEffect, RejectedEffect DEF TxnsLoaded, Answered, Writes
  <2>2. c \in Calls("transactions") /\ mounted
    BY <1>2, <2>1 DEF Calls
  <2>3. UNCHANGED <<mounted, matching, deleted, pageNo, txnFilter, selected>> /\ txnLoading' = FALSE
    BY <1>11 DEF TxnsLoaded
  <2>4. TxnsMessages'
    BY <1>1, <2>1 DEF TxnsMessages, TxnsMessage
  <2>5. CASE strayFetch' = TRUE /\ UNCHANGED <<txns, total>>
    BY <1>1, <2>2, <2>3, <2>4, <2>5 DEF TxnsInv
  <2>6. CASE /\ Answered(c, "transactions") /\ total' = wire[c].answer.total
             /\ txns' = [filter |-> wire[c].arg.filter, page |-> wire[c].arg.page,
                         rows |-> wire[c].answer.rows]
             /\ UNCHANGED strayFetch
    <3>1. /\ wire[c].arg \in [filter : Filter, page : Nat \ {0}] /\ wire[c].state = "answered"
          /\ wire[c].answer \in [total : 0 .. MaxTxns, rows : 0 .. PageLimit]
      BY <1>1, <2>1, <2>6 DEF TxnsMessage, Answered
    <3>2. /\ txns' \in [filter : Filter, page : Nat, rows : 0 .. PageLimit]
          /\ total' \in 0 .. MaxTxns
          /\ txns'.filter = wire[c].arg.filter /\ txns'.page = wire[c].arg.page
          /\ txns'.rows = wire[c].answer.rows
      BY <2>6, <3>1
    <3>3. ASSUME ~strayFetch PROVE FetchCarried' /\ (~deleted => PageCarried')
      <4>1. Calls("transactions") = {c} /\ FetchCarried /\ (~deleted => PageCarried)
        BY <2>2, <3>3 DEF TxnsInv, FetchCarried, AtMostOne
      <4>2. Calls("transactions")' = {}
        BY <2>1, <4>1 DEF Calls
      <4>3. QED
        BY <2>3, <2>6, <3>1, <3>2, <4>1, <4>2 DEF FetchCarried, PageCarried, AtMostOne, Exists
    <3>4. QED
      BY <1>1, <2>2, <2>3, <2>4, <2>6, <3>2, <3>3 DEF TxnsInv
  <2>7. QED
    BY <1>11, <2>5, <2>6 DEF TxnsLoaded
<1>12. ASSUME NEW shown \in BOOLEAN, setSelected(shown) PROVE TxnsInv'
  <2>1. UNCHANGED <<wire, mounted, matching, deleted, txns, total, pageNo, txnFilter, txnLoading,
                    strayFetch>> /\ selected' = shown
    BY <1>12 DEF setSelected
  <2>2. Calls("transactions")' = Calls("transactions")
    BY <2>1 DEF Calls
  <2>3. (~strayFetch => FetchCarried /\ (~deleted => PageCarried))'
    BY <2>1, <2>2 DEF TxnsInv, FetchCarried, PageCarried, AtMostOne, Exists
  <2>4. QED
    BY <1>1, <2>1, <2>3 DEF TxnsInv, TxnsFirst, TxnsMessages
<1>13. ASSUME NEW c \in Call, list_transactions(c) PROVE TxnsInv'
  <2> DEFINE n == matching[wire[c].arg.filter]
             behind == n - (wire[c].arg.page - 1) * PageLimit
             answer == [total |-> n, rows |-> IF behind <= 0 THEN 0
                                        ELSE IF behind < PageLimit THEN behind ELSE PageLimit]
  <2>1. /\ Sent(c, "transactions") /\ Reply(c, "answered", answer)
        /\ UNCHANGED <<mounted, matching, deleted, txns, total, pageNo, txnFilter, txnLoading,
                       selected, strayFetch>>
    BY <1>13 DEF list_transactions, txnsVars
  <2>2. /\ wire[c].op = "transactions" /\ wire[c].arg \in [filter : Filter, page : Nat \ {0}]
        /\ c \in Calls("transactions") /\ wire[c].heard
    BY <1>1, <1>2, <2>1 DEF Sent, TxnsMessage, Calls
  <2>3. n \in 0 .. MaxTxns /\ behind \in Int /\ PageLimit \in Nat \ {0} /\ MaxTxns \in Nat
    <3>1. (wire[c].arg.page - 1) * PageLimit \in Int
      BY <2>2, TransactionsAssumption
    <3>2. n \in 0 .. MaxTxns
      BY <1>1, <2>2
    <3>3. QED
      BY <3>1, <3>2, TransactionsAssumption
  <2>4. /\ answer.total = n /\ answer.rows \in 0 .. PageLimit
        /\ answer \in [total : 0 .. MaxTxns, rows : 0 .. PageLimit]
        /\ answer.rows = 0 => behind <= 0
    <3> HIDE DEF n, behind
    <3>1. QED
      BY <2>3
  <2>5. answer.rows = 0 /\ Exists(wire[c].arg.page, n) => n = 0
    <3>1. SUFFICES ASSUME answer.rows = 0, Exists(wire[c].arg.page, n) PROVE n = 0
      OBVIOUS
    <3> DEFINE p == wire[c].arg.page
    <3>2. p \in Nat \ {0} /\ (p - 1) * PageLimit \in Int /\ n - (p - 1) * PageLimit <= 0
      BY <2>2, <2>3, <2>4, <3>1
    <3>3. n \in Nat /\ TotalPages(n, PageLimit) \in Nat
      BY <2>3, PagesCounted
    <3> HIDE DEF n, behind, answer, p
    <3>4. p \in 1 .. TotalPages(n, PageLimit)
      BY <3>1, <3>2, <3>3 DEF Exists, p
    <3>5. n <= (p - 1) * PageLimit
      BY <3>2, <3>3
    <3>6. QED
      BY <2>3, <3>3, <3>4, <3>5, PagesCounted
  <2> HIDE DEF n, behind, answer
  <2>6. Reply(c, "answered", answer)
    BY <2>1
  <2>7. /\ wire'[c].op = "transactions" /\ wire'[c].arg = wire[c].arg
        /\ wire'[c].state = "answered" /\ wire'[c].answer = answer
        /\ \A d \in Call \ {c} : wire'[d] = wire[d]
    BY <1>1, <2>2, <2>6, ReplyEffect
  <2>8. TxnsMessages'
    BY <1>1, <2>2, <2>4, <2>7 DEF TxnsMessages, TxnsMessage
  <2>9. Calls("transactions")' = Calls("transactions")
    BY <2>2, <2>7 DEF Calls
  <2>10. ASSUME ~strayFetch PROVE FetchCarried' /\ (~deleted => PageCarried')
    <3>1. /\ Calls("transactions") = {c} /\ (~deleted => PageCarried)
          /\ wire[c].arg.filter = txnFilter /\ wire[c].arg.page = pageNo
      BY <2>2, <2>10 DEF TxnsInv, FetchCarried, AtMostOne
    <3>2. FetchCarried'
      BY <2>1, <2>7, <2>9, <3>1 DEF FetchCarried, AtMostOne
    <3>3. n = matching[txnFilter] /\ n \in Nat /\ n <= n
      BY <2>3, <3>1 DEF n
    <3>4. ~deleted => PageCarried'
      BY <2>1, <2>4, <2>5, <2>7, <2>9, <3>1, <3>3 DEF PageCarried, Exists
    <3>5. QED
      BY <3>2, <3>4
  <2>11. QED
    BY <1>1, <2>1, <2>8, <2>10 DEF TxnsInv, TxnsFirst
<1>14. ASSUME NEW f \in Filter, LedgerChanges(f) PROVE TxnsInv'
  <2>1. /\ UNCHANGED <<wire, mounted, txns, total, pageNo, txnFilter, txnLoading, selected,
                       strayFetch>>
        /\ \A g \in Filter : matching'[g] <= matching'[AllTxns]
    BY <1>14 DEF LedgerChanges, txnsView
  <2>2. Calls("transactions")' = Calls("transactions") /\ TxnsMessages'
    BY <1>1, <2>1 DEF Calls, TxnsMessages
  <2>3. CASE /\ matching[AllTxns] < MaxTxns
             /\ matching' = [g \in Filter |-> matching[g] + IF g \in {f, AllTxns} THEN 1 ELSE 0]
             /\ UNCHANGED deleted
    <3>1. \A g \in Filter : /\ matching[g] \in Nat /\ matching'[g] \in 0 .. MaxTxns
                            /\ matching[g] <= matching'[g]
      BY <1>1, <2>3, TransactionsAssumption
    <3>2. matching' \in [Filter -> 0 .. MaxTxns]
      BY <2>3, <3>1
    <3> DEFINE a == matching[txnFilter]
               b == matching'[txnFilter]
    <3>3. a \in 0 .. b /\ a \in Nat /\ b \in Nat /\ PageLimit \in Nat \ {0}
      BY <1>1, <3>1, TransactionsAssumption
    <3>4. /\ TotalPages(a, PageLimit) <= TotalPages(b, PageLimit)
          /\ TotalPages(a, PageLimit) \in Nat /\ TotalPages(b, PageLimit) \in Nat
      BY <3>3, PagesCounted
    <3>5. Exists(pageNo, a) => Exists(pageNo, b)
      BY <1>1, <3>4 DEF Exists
    <3>6. \A m \in Nat : m <= a => m <= b
      BY <3>3
    <3>7. ~strayFetch /\ ~deleted => PageCarried'
      <4>1. SUFFICES ASSUME ~strayFetch, ~deleted PROVE PageCarried'
        OBVIOUS
      <4>2. PageCarried
        BY <4>1 DEF TxnsInv
      <4>3. \A c \in Calls("transactions") : wire[c].state = "answered" => wire[c].answer.total \in Nat
        BY <1>1 DEF Calls, TxnsMessage
      <4>4. total \in Nat
        BY <1>1
      <4>5. QED
        BY <2>1, <2>2, <3>5, <3>6, <4>2, <4>3, <4>4 DEF PageCarried, Exists
    <3>8. ~strayFetch => FetchCarried'
      BY <2>1, <2>2 DEF TxnsInv, FetchCarried, AtMostOne
    <3>9. QED
      BY <1>1, <2>1, <2>2, <2>3, <3>2, <3>7, <3>8 DEF TxnsInv, TxnsFirst
  <2>4. CASE /\ matching[f] > 0
             /\ matching' = [g \in Filter |-> matching[g] - IF g \in {f, AllTxns} THEN 1 ELSE 0]
             /\ deleted' = (deleted \/ mounted)
    <3>1. matching[f] \in Nat /\ matching[AllTxns] \in Nat /\ matching[f] <= matching[AllTxns]
      BY <1>1, TransactionsAssumption
    <3>2. \A g \in Filter : matching'[g] \in 0 .. MaxTxns
      BY <1>1, <2>4, <3>1, TransactionsAssumption
    <3>3. matching' \in [Filter -> 0 .. MaxTxns]
      BY <2>4, <3>2
    <3>4. ~strayFetch => FetchCarried'
      BY <2>1, <2>2 DEF TxnsInv, FetchCarried, AtMostOne
    <3>5. ASSUME ~deleted' PROVE PageCarried'
      <4>1. TxnsFirst' /\ Calls("transactions")' = {}
        BY <1>2, <2>1, <2>2, <2>4, <3>5 DEF TxnsInv, TxnsFirst
      <4>2. matching'[AllTxns] \in Nat
        BY <3>2, TransactionsAssumption
      <4>3. QED
        BY <4>1, <4>2, FirstPageShown DEF TxnsFirst, PageCarried, Exists
    <3>6. QED
      BY <1>1, <2>1, <2>2, <2>4, <3>3, <3>4, <3>5 DEF TxnsInv, TxnsFirst
  <2>5. QED
    BY <1>14, <2>3, <2>4 DEF LedgerChanges
<1>15. QED
    BY <1>6, <1>7, <1>8, <1>9, <1>10, <1>11, <1>12, <1>13, <1>14, TransactionsAssumption
    DEF TransactionsNext, TransactionsAnswer, TransactionsServe, clearFilters

-----------------------------------------------------------------------------
(* Camera *)

(* The newest pictures at some time, n then being the last one taken.      *)
NewestRows == {[i \in 1 .. Smaller(n, CaptureLimit) |-> n - i + 1] : n \in 0 .. MaxCaptures}

NewestFirst(s) == s \in NewestRows

CapturesMessages ==
    \A c \in Call : /\ wire[c].op \in {"idle", "captures"}
                    /\ wire[c].state = "answered" => NewestFirst(wire[c].answer)

CapturesInv ==
    /\ CapturesTypeOK
    /\ Len(taken) <= MaxCaptures
    /\ NewestFirst(captures)
    /\ tab = "camera" => CapturesMessages

LEMMA IntervalCounted ==
    ASSUME NEW a \in Int, NEW b \in Int, a <= b + 1
    PROVE  IsFiniteSet(a .. b) /\ Cardinality(a .. b) = b - a + 1
BY FS_Interval

(* No more newer pictures of one side than of both.                        *)
LEMMA NewerCounted ==
    ASSUME NEW N \in Nat, NEW A \in SUBSET (1 .. N), NEW n \in 1 .. N
    PROVE  /\ IsFiniteSet({m \in A : m > n})
           /\ Cardinality({m \in A : m > n}) \in 0 .. N - n
<1> DEFINE B == {m \in A : m > n}
<1>1. B \subseteq n + 1 .. N
  <2>1. \A m \in B : m \in n + 1 .. N
    OBVIOUS
  <2> HIDE DEF B
  <2>2. QED
    BY <2>1
<1>2. IsFiniteSet(n + 1 .. N) /\ Cardinality(n + 1 .. N) = N - n
    BY IntervalCounted
<1>3. IsFiniteSet(B) /\ Cardinality(B) <= N - n
    BY <1>1, <1>2, FS_Subset
<1>4. Cardinality(B) \in Nat
    BY <1>3, FS_CardinalityType
<1>5. QED
    BY <1>3, <1>4

(* The newest pictures of both sides are among the newest of each side.    *)
LEMMA NewestOfBoth ==
    ASSUME NEW N \in Nat, taken \in Seq(Side), Len(taken) = N
    PROVE  Newest(UNION {Newest({n \in DOMAIN taken : taken[n] = s}, CaptureLimit) : s \in Side},
                  CaptureLimit)
             = N - Smaller(N, CaptureLimit) + 1 .. N
<1> DEFINE of(s) == {n \in DOMAIN taken : taken[n] = s}
           U == UNION {Newest(of(s), CaptureLimit) : s \in Side}
           low == N - Smaller(N, CaptureLimit) + 1
<1>1. DOMAIN taken = 1 .. N /\ \A n \in 1 .. N : taken[n] \in Side
    OBVIOUS
<1>2. CaptureLimit \in Nat \ {0} /\ low \in 1 .. N + 1
      /\ \A n \in 1 .. N : n >= low <=> N - n < CaptureLimit
    BY CapturesAssumption DEF Smaller
<1>3. \A s : of(s) \in SUBSET (1 .. N)
    BY <1>1
<1>4. U \subseteq 1 .. N
    BY <1>3 DEF Newest
<1>5. ASSUME NEW n \in 1 .. N, n >= low PROVE n \in U
  <2>1. Cardinality({m \in of(taken[n]) : m > n}) \in 0 .. N - n
    BY <1>3, NewerCounted
  <2>2. Cardinality({m \in of(taken[n]) : m > n}) < CaptureLimit
    BY <1>2, <1>5, <2>1
  <2>3. n \in of(taken[n])
    BY <1>1
  <2> HIDE DEF of
  <2>4. n \in Newest(of(taken[n]), CaptureLimit)
    BY <2>2, <2>3 DEF Newest
  <2>5. QED
    BY <1>1, <2>4
<1> HIDE DEF of, U, low
<1>6. ASSUME NEW n \in U, n >= low PROVE n \in Newest(U, CaptureLimit)
  <2>1. Cardinality({m \in U : m > n}) \in 0 .. N - n
    BY <1>4, NewerCounted
  <2>2. QED
    BY <1>2, <1>4, <1>6, <2>1 DEF Newest
<1>7. ASSUME NEW n \in U, n < low PROVE n \notin Newest(U, CaptureLimit)
  <2> DEFINE B == {m \in U : m > n}
  <2>1. n \in 1 .. N /\ N - n >= CaptureLimit /\ N - low + 1 = CaptureLimit
    BY <1>2, <1>4, <1>7 DEF low, Smaller
  <2>2. low .. N \subseteq B
    BY <1>2, <1>5, <1>7, <2>1
  <2>3. IsFiniteSet(low .. N) /\ Cardinality(low .. N) = N - low + 1
    BY <1>2, IntervalCounted
  <2>4. IsFiniteSet(B)
    BY <1>4, <2>1, NewerCounted
  <2>5. Cardinality(low .. N) <= Cardinality(B)
    BY <2>2, <2>4, FS_Subset
  <2>6. Cardinality(B) \in Nat
    BY <2>4, FS_CardinalityType
  <2>7. ~(Cardinality(B) < CaptureLimit)
    BY <1>2, <2>1, <2>3, <2>5, <2>6
  <2>8. QED
    BY <2>7 DEF Newest
<1>8. Newest(U, CaptureLimit) \subseteq U
    BY DEF Newest
<1>9. Newest(U, CaptureLimit) = low .. N
  <2>1. low \in Int /\ N \in Int /\ low >= 1
    BY <1>2
  <2>2. ASSUME NEW n \in Newest(U, CaptureLimit) PROVE n \in low .. N
    <3>1. n \in U /\ n \in 1 .. N
      BY <1>4, <1>8, <2>2
    <3>2. ~(n < low)
      BY <1>7, <2>2, <3>1
    <3>3. QED
      BY <2>1, <3>1, <3>2
  <2>3. ASSUME NEW n \in low .. N PROVE n \in Newest(U, CaptureLimit)
    <3>1. n \in 1 .. N /\ n >= low
      BY <2>1, <2>3
    <3>2. QED
      BY <1>5, <1>6, <3>1
  <2>4. QED
    BY <2>2, <2>3
<1>10. QED
    BY <1>9 DEF U, low, of

LEMMA DescendingInterval ==
    ASSUME NEW a \in Nat, NEW b \in Nat, a <= b + 1
    PROVE  Descending(a .. b) = [i \in 1 .. b - a + 1 |-> b - i + 1]
<1>1. Cardinality(a .. b) = b - a + 1
    BY IntervalCounted
<1>2. ASSUME NEW n \in a .. b PROVE Cardinality({m \in a .. b : m > n}) = b - n
  <2>1. {m \in a .. b : m > n} = n + 1 .. b
    OBVIOUS
  <2>2. Cardinality(n + 1 .. b) = b - n
    BY IntervalCounted
  <2>3. QED
    BY <2>1, <2>2
<1>3. ASSUME NEW i \in 1 .. b - a + 1
      PROVE  (CHOOSE n \in a .. b : Cardinality({m \in a .. b : m > n}) = i - 1) = b - i + 1
  <2>1. b - i + 1 \in a .. b /\ Cardinality({m \in a .. b : m > b - i + 1}) = i - 1
    BY <1>2
  <2>2. ASSUME NEW n \in a .. b, Cardinality({m \in a .. b : m > n}) = i - 1 PROVE n = b - i + 1
    BY <1>2, <2>2
  <2>3. QED
    BY <2>1, <2>2
<1>4. QED
    BY <1>1, <1>3 DEF Descending

(* What the server answers: cutting each side first loses no picture.      *)
LEMMA AllCapturesNewest ==
    ASSUME CapturesTypeOK, Len(taken) <= MaxCaptures
    PROVE  NewestFirst(all_captures)
<1> DEFINE N == Len(taken)
           K == Smaller(N, CaptureLimit)
<1>1. N \in 0 .. MaxCaptures /\ K \in 0 .. N /\ N \in Nat
    BY CapturesAssumption DEF CapturesTypeOK, Smaller
<1>2. all_captures = Descending(N - K + 1 .. N)
    BY <1>1, NewestOfBoth DEF all_captures, CapturesTypeOK
<1>3. N - K + 1 \in Nat /\ N - (N - K + 1) + 1 = K
    BY <1>1
<1>4. Descending(N - K + 1 .. N) = [i \in 1 .. K |-> N - i + 1]
    BY <1>1, <1>3, DescendingInterval
<1>5. QED
    BY <1>1, <1>2, <1>4 DEF NewestFirst, NewestRows

LEMMA NewestFirstRows ==
    ASSUME NEW s, NewestFirst(s)
    PROVE  /\ s \in Seq(1 .. MaxCaptures)
           /\ Len(s) <= CaptureLimit
           /\ \A i \in 1 .. Len(s) - 1 : s[i] = s[i + 1] + 1
           /\ Len(s) > 0 /\ Len(s) < CaptureLimit => s[Len(s)] = 1
<1>1. PICK n \in 0 .. MaxCaptures : s = [i \in 1 .. Smaller(n, CaptureLimit) |-> n - i + 1]
    BY DEF NewestFirst, NewestRows
<1> DEFINE k == Smaller(n, CaptureLimit)
<1>2. /\ k \in Nat /\ k <= n /\ k <= CaptureLimit /\ (k < CaptureLimit => k = n)
      /\ CaptureLimit \in Nat /\ n \in Nat /\ n <= MaxCaptures /\ MaxCaptures \in Nat
    BY CapturesAssumption DEF Smaller
<1> HIDE DEF k
<1>3. s = [i \in 1 .. k |-> n - i + 1]
    BY <1>1 DEF k
<1>4. \A i \in 1 .. k : n - i + 1 \in 1 .. MaxCaptures
    BY <1>2
<1>5. s \in Seq(1 .. MaxCaptures) /\ Len(s) = k
    BY <1>2, <1>3, <1>4
<1>6. QED
    BY <1>2, <1>3, <1>5

LEMMA NoRowsNewest ==
    NewestFirst(<<>>)
<1>1. 0 \in 0 .. MaxCaptures /\ Smaller(0, CaptureLimit) = 0
    BY CapturesAssumption DEF Smaller
<1>2. <<>> = [i \in 1 .. 0 |-> 0 - i + 1]
    OBVIOUS
<1>3. QED
    BY <1>1, <1>2 DEF NewestFirst, NewestRows

LEMMA CapturesInvInit ==
    ASSUME Init
    PROVE  CapturesInv
<1>1. \A c \in Call : wire[c].op = "idle" /\ wire[c].state = "free"
    BY IdleIsMessage DEF Init, ClientInit
<1>2. CapturesInit
    BY DEF Init
<1>3. CapturesTypeOK /\ Len(taken) <= MaxCaptures
    BY <1>2, CapturesAssumption DEF CapturesInit, CapturesTypeOK
<1>4. QED
    BY <1>1, <1>2, <1>3, NoRowsNewest DEF CapturesInv, CapturesInit, CapturesMessages

LEMMA CapturesInvStep ==
    ASSUME ClientInv, CapturesInv, tab = "camera", tab' = tab, CapturesNext
    PROVE  CapturesInv'
<1> USE DEF CapturesTypeOK
<1>1. /\ WireOK /\ CapturesTypeOK /\ Len(taken) <= MaxCaptures /\ NewestFirst(captures)
      /\ \A c \in Call : /\ wire[c].op \in {"idle", "captures"}
                         /\ wire[c].state = "answered" => NewestFirst(wire[c].answer)
    BY DEF ClientInv, CapturesInv, CapturesMessages
<1>2. ASSUME Send("captures", None) PROVE CapturesMessages'
    BY <1>1, <1>2, SendEffect DEF CapturesMessages, NewestFirst
<1>3. ASSUME UNCHANGED captures, CapturesMessages', Len(taken') <= MaxCaptures, CapturesTypeOK'
      PROVE  CapturesInv'
    BY <1>1, <1>3 DEF CapturesInv, NewestFirst
<1>4. CASE OpenCaptures
    BY <1>1, <1>2, <1>3, <1>4 DEF OpenCaptures, capturesVars, capturesView
<1>5. CASE LeaveCaptures
  <2>1. \A c \in Call : wire'[c].op = "idle" /\ wire'[c].state = "free"
    BY <1>1, <1>5, UnmountEffect DEF LeaveCaptures, Writes
  <2>2. CapturesMessages'
    BY <2>1 DEF CapturesMessages
  <2>3. NewestFirst(captures)'
    BY <1>5, NoRowsNewest DEF LeaveCaptures, NewestFirst
  <2>4. CapturesTypeOK' /\ Len(taken') <= MaxCaptures
    BY <1>1, <1>5, CapturesAssumption DEF LeaveCaptures
  <2>5. QED
    BY <2>2, <2>3, <2>4 DEF CapturesInv
<1>6. CASE loadCaptures
    BY <1>1, <1>2, <1>3, <1>6 DEF loadCaptures
<1>7. ASSUME NEW c \in Call, CapturesLoaded(c) PROVE CapturesInv'
  <2>1. /\ wire'[c].op = "idle" /\ wire'[c].state = "free"
        /\ \A d \in Call \ {c} : wire'[d] = wire[d]
    BY <1>1, <1>7, TakeEffect, RejectedEffect DEF CapturesLoaded, Writes
  <2>2. CapturesMessages'
    BY <1>1, <2>1 DEF CapturesMessages, NewestFirst
  <2>3. NewestFirst(captures')
    BY <1>1, <1>7 DEF CapturesLoaded, Answered
  <2>4. captures' \in Seq(1 .. MaxCaptures)
    BY <2>3, NewestFirstRows
  <2>5. CapturesTypeOK' /\ Len(taken') <= MaxCaptures
    BY <1>1, <1>7, <2>4 DEF CapturesLoaded
  <2>6. QED
    BY <2>2, <2>3, <2>5 DEF CapturesInv, NewestFirst
<1>8. ASSUME NEW f \in {"all"} \cup Side, setCaptureFilter(f) PROVE CapturesInv'
    BY <1>1, <1>3, <1>8 DEF setCaptureFilter, CapturesMessages, NewestFirst
<1>9. ASSUME NEW n \in 0 .. MaxCaptures, setLightbox(n) PROVE CapturesInv'
    BY <1>1, <1>3, <1>9 DEF setLightbox, CapturesMessages, NewestFirst
<1>10. ASSUME NEW s \in Side, Captured(s) PROVE CapturesInv'
  <2>1. taken' = Append(taken, s) /\ Len(taken) < MaxCaptures
        /\ UNCHANGED <<wire, captures, capturesLoading, captureFilter, lightbox>>
    BY <1>10 DEF Captured, capturesView
  <2>2. taken' \in Seq(Side) /\ Len(taken') <= MaxCaptures
    BY <1>1, <2>1, CapturesAssumption
  <2>3. QED
    BY <1>1, <1>3, <2>1, <2>2 DEF CapturesMessages, NewestFirst
<1>11. ASSUME NEW c \in Call, ServeCaptures(c) PROVE CapturesInv'
  <2>1. Sent(c, "captures") /\ Reply(c, "answered", all_captures) /\ UNCHANGED capturesVars
    BY <1>11 DEF ServeCaptures
  <2>2. Reply(c, "answered", all_captures) /\ wire[c].op # "idle"
    BY <2>1 DEF Sent
  <2>3. /\ wire'[c].op \in {"idle", "captures"}
        /\ wire'[c].state = "answered" => wire'[c].answer = all_captures
        /\ \A d \in Call \ {c} : wire'[d] = wire[d]
    BY <1>1, <2>2, ReplyEffect
  <2>4. NewestFirst(all_captures)
    BY <1>1, AllCapturesNewest
  <2>5. CapturesMessages'
    BY <1>1, <2>3, <2>4 DEF CapturesMessages, NewestFirst
  <2>6. QED
    BY <1>1, <1>3, <2>1, <2>5 DEF capturesVars, capturesView
<1>12. QED
    BY <1>4, <1>5, <1>6, <1>7, <1>8, <1>9, <1>10, <1>11
    DEF CapturesNext, CapturesAnswer, CapturesServe

-----------------------------------------------------------------------------
(* Testing *)

TestingMessages ==
    \A c \in Call :
       /\ wire[c].op \in {"idle", "simulate"}
       /\ wire[c].op = "simulate" => wire[c].arg \in [side : Card, picture : Picture \cup {None}]

CardCalls(s) == {c \in Heard("simulate") : wire[c].arg.side = s}

(* A card waits for one decision at most, about the picture it shows.      *)
CardCarried(s) ==
    /\ AtMostOne(CardCalls(s))
    /\ CardCalls(s) # {} => s \in running
    /\ s \notin swapped => \A c \in CardCalls(s) : wire[c].arg.picture = preview[s]

TestingInv ==
    /\ TestingTypeOK
    /\ ResultOfPicture
    /\ tab = "testing" => TestingMessages /\ \A s \in Card : CardCarried(s)

LEMMA TestingInvInit ==
    ASSUME Init
    PROVE  TestingInv
<1>1. \A c \in Call : wire[c].op = "idle"
    BY IdleIsMessage DEF Init, ClientInit
<1>2. TestingInit
    BY DEF Init
<1>3. TestingMessages /\ Heard("simulate") = {}
    BY <1>1 DEF TestingMessages, Heard
<1>4. QED
    BY <1>2, <1>3
    DEF TestingInv, TestingInit, TestingTypeOK, NoPicture, ResultOfPicture, ResultShown,
        CardCarried, CardCalls, AtMostOne

LEMMA TestingInvStep ==
    ASSUME ClientInv, TestingInv, tab = "testing", tab' = tab, TestingNext
    PROVE  TestingInv'
<1> USE DEF TestingTypeOK
<1>1. /\ WireOK /\ TestingTypeOK /\ ResultOfPicture /\ \A s \in Card : CardCarried(s)
      /\ TestingMessages /\ \A c \in Call : IsMessage(wire[c])
    BY DEF ClientInv, TestingInv, WireOK
<1>2. ASSUME NEW s \in Card, CardCalls(s)' = {} PROVE CardCarried(s)'
    BY <1>2 DEF CardCarried, AtMostOne
<1>3. ASSUME NEW s \in Card, CardCalls(s)' = CardCalls(s),
             \A c \in CardCalls(s) : wire'[c].arg = wire[c].arg,
             preview'[s] = preview[s], s \in running => s \in running',
             s \in swapped => s \in swapped'
      PROVE  CardCarried(s)'
    BY <1>1, <1>3 DEF CardCarried, AtMostOne
<1>4. CASE OpenTesting
  <2>1. UNCHANGED <<wire, preview, result, running, swapped>>
    BY <1>4 DEF OpenTesting, testingVars
  <2>2. \A s : CardCalls(s)' = CardCalls(s)
    BY <2>1 DEF CardCalls, Heard
  <2>3. \A s \in Card : CardCarried(s)'
    BY <1>3, <2>1, <2>2
  <2>4. QED
    BY <1>1, <2>1, <2>3 DEF TestingInv, TestingMessages, ResultOfPicture, ResultShown
<1>5. CASE LeaveTesting
  <2>1. \A c \in Call : /\ ~wire'[c].heard
                        /\ \/ wire'[c].op = "idle"
                           \/ wire'[c].op = wire[c].op /\ wire'[c].arg = wire[c].arg
    BY <1>1, <1>5, UnmountEffect DEF LeaveTesting
  <2>2. TestingMessages' /\ \A s : CardCalls(s)' = {}
    BY <1>1, <2>1 DEF TestingMessages, CardCalls, Heard
  <2>3. TestingTypeOK' /\ ResultOfPicture'
    BY <1>5 DEF LeaveTesting, NoPicture, ResultOfPicture, ResultShown
  <2>4. QED
    BY <1>2, <2>2, <2>3 DEF TestingInv
<1>6. ASSUME NEW s \in Card, NEW p \in Picture \cup {None}, choose(s, p) PROVE TestingInv'
  <2>1. /\ preview' = [preview EXCEPT ![s] = p] /\ result' = [result EXCEPT ![s] = None]
        /\ swapped' = IF s \in running THEN swapped \cup {s} ELSE swapped \ {s}
        /\ UNCHANGED <<wire, running>>
    BY <1>6 DEF choose
  <2>2. \A t : CardCalls(t)' = CardCalls(t)
    BY <2>1 DEF CardCalls, Heard
  <2>3. ASSUME NEW t \in Card \ {s} PROVE CardCarried(t)'
    BY <1>1, <1>3, <2>1, <2>2, <2>3
  <2>4. CardCarried(s)'
    <3>1. CASE s \in running
      BY <1>1, <2>1, <2>2, <3>1 DEF CardCarried, AtMostOne
    <3>2. CASE s \notin running
      BY <1>1, <1>2, <2>2, <3>2 DEF CardCarried
    <3>3. QED
      BY <3>1, <3>2
  <2>5. TestingTypeOK' /\ ResultOfPicture'
    BY <1>1, <2>1 DEF ResultOfPicture, ResultShown
  <2>6. QED
    BY <1>1, <2>1, <2>3, <2>4, <2>5 DEF TestingInv, TestingMessages
<1>7. ASSUME NEW s \in Card, onSimulate(s) PROVE TestingInv'
  <2>1. /\ s \notin running /\ running' = running \cup {s}
        /\ UNCHANGED <<preview, result, swapped>>
    BY <1>7 DEF onSimulate, SimulateOffered
  <2>2. Send("simulate", [side |-> s, picture |-> preview[s]])
    BY <1>7 DEF onSimulate
  <2>3. /\ Fresh \in Call /\ wire[Fresh].op = "idle" /\ wire'[Fresh].op = "simulate"
        /\ wire'[Fresh].arg = [side |-> s, picture |-> preview[s]]
        /\ \A d \in Call \ {Fresh} : wire'[d] = wire[d]
    BY <1>1, <2>2, SendEffect
  <2>4. wire'[Fresh].arg.side = s /\ wire'[Fresh].arg.picture = preview[s]
    BY <2>3
  <2>5. CardCalls(s) = {} /\ CardCalls(s)' \subseteq {Fresh}
    <3>1. CardCalls(s) = {}
      BY <1>1, <2>1 DEF CardCarried
    <3>2. QED
      BY <2>3, <3>1 DEF CardCalls, Heard
  <2>6. CardCarried(s)'
    BY <2>1, <2>4, <2>5 DEF CardCarried, AtMostOne
  <2>7. ASSUME NEW t \in Card \ {s} PROVE CardCarried(t)'
    <3>1. CardCalls(t)' = CardCalls(t) /\ \A c \in CardCalls(t) : wire'[c].arg = wire[c].arg
      BY <2>3, <2>4, <2>7 DEF CardCalls, Heard
    <3>2. QED
      BY <1>3, <2>1, <2>7, <3>1
  <2>8. TestingMessages'
    BY <1>1, <2>3 DEF TestingMessages
  <2>9. QED
    BY <1>1, <2>1, <2>6, <2>7, <2>8 DEF TestingInv, ResultOfPicture, ResultShown
<1>8. ASSUME NEW c \in Call, Simulated(c) PROVE TestingInv'
  <2>0. /\ wire[c].op = "simulate" /\ wire[c].heard
        /\ wire[c].arg \in [side : Card, picture : Picture \cup {None}]
    BY <1>1, <1>8 DEF Simulated, Answered, Rejected, TestingMessages, IsMessage
  <2>1. PICK s \in Card, p \in Picture \cup {None} : wire[c].arg = [side |-> s, picture |-> p]
    BY <2>0
  <2>2. /\ ~wire'[c].heard
        /\ \/ wire'[c].op = "idle"
           \/ wire'[c].op = "simulate" /\ wire'[c].arg = wire[c].arg
        /\ \A d \in Call \ {c} : wire'[d] = wire[d]
    BY <1>1, <1>8, TakeEffect, RejectedEffect DEF Simulated
  <2>3. /\ running' = running \ {s} /\ UNCHANGED <<preview, swapped>>
        /\ result' = [result EXCEPT ![s] = p] \/ result' = [result EXCEPT ![s] = None]
    BY <1>8, <2>1 DEF Simulated
  <2>4. c \in CardCalls(s)
    BY <2>0, <2>1 DEF CardCalls, Heard
  <2>5. s \notin swapped => p = preview[s]
    BY <1>1, <2>1, <2>4 DEF CardCarried
  <2>6. CardCarried(s)'
    <3>1. \A d \in CardCalls(s) : d = c
      BY <1>1, <2>1, <2>4 DEF CardCarried, AtMostOne
    <3>2. CardCalls(s)' = {}
      BY <2>2, <3>1 DEF CardCalls, Heard
    <3>3. QED
      BY <1>2, <2>1, <3>2
  <2>7. ASSUME NEW t \in Card \ {s} PROVE CardCarried(t)'
    <3>1. CardCalls(t)' = CardCalls(t) /\ \A d \in CardCalls(t) : wire'[d].arg = wire[d].arg
      BY <2>2, <2>4, <2>7 DEF CardCalls, Heard
    <3>2. QED
      BY <1>3, <2>3, <2>7, <3>1
  <2>8. TestingMessages'
    BY <1>1, <2>0, <2>2 DEF TestingMessages
  <2>9. TestingTypeOK' /\ ResultOfPicture'
    BY <1>1, <2>1, <2>3, <2>5 DEF ResultOfPicture, ResultShown
  <2>10. QED
    BY <2>6, <2>7, <2>8, <2>9 DEF TestingInv
<1>9. ASSUME NEW c \in Call, simulate(c) PROVE TestingInv'
  <2>1. /\ wire[c].op = "simulate" /\ UNCHANGED <<preview, result, running, swapped>>
        /\ Reply(c, "answered", None) \/ Reply(c, "refused", None)
    BY <1>9 DEF simulate, testingVars, Sent
  <2>2. /\ wire'[c].heard = wire[c].heard
        /\ ~wire[c].heard => wire'[c].op = "idle"
        /\ wire[c].heard => wire'[c].op = "simulate" /\ wire'[c].arg = wire[c].arg
        /\ \A d \in Call \ {c} : wire'[d] = wire[d]
    BY <1>1, <2>1, ReplyEffect
  <2>3. ASSUME NEW t \in Card PROVE CardCarried(t)'
    <3>1. CardCalls(t)' = CardCalls(t) /\ \A d \in CardCalls(t) : wire'[d].arg = wire[d].arg
      BY <2>1, <2>2 DEF CardCalls, Heard
    <3>2. QED
      BY <1>3, <2>1, <3>1
  <2>4. TestingMessages'
    BY <1>1, <2>1, <2>2 DEF TestingMessages
  <2>5. QED
    BY <1>1, <2>1, <2>3, <2>4 DEF TestingInv, ResultOfPicture, ResultShown
<1>10. QED
    BY <1>4, <1>5, <1>6, <1>7, <1>8, <1>9 DEF TestingNext

-----------------------------------------------------------------------------
(* Pre-Bookings *)

(* The page of the user and the tab share the client.                      *)
LEMMA PageClient ==
    /\ Page!Spend <=> Spend
    /\ Page!Quiet <=> Quiet
    /\ Page!Unmount <=> Unmount
    /\ \A op, arg : Page!Send(op, arg) <=> Send(op, arg)
    /\ \A c : Page!Take(c) <=> Take(c)
    /\ \A c, op : /\ Page!Answered(c, op) <=> Answered(c, op)
                  /\ Page!Sent(c, op) <=> Sent(c, op)
                  /\ Page!Rejected(c, op) <=> Rejected(c, op)
    /\ \A c, state, answer : Page!Reply(c, state, answer) <=> Reply(c, state, answer)
BY DEF Page!Spend, Spend, Page!Quiet, Quiet, Page!Unmount, Unmount, Page!Send, Send, Page!Room, Room,
       Page!Fresh, Fresh, Page!Request, Request, Page!Take, Take, Page!Answered, Answered,
       Page!Sent, Sent, Page!Rejected, Rejected, Page!Forgotten, Forgotten, Page!Writes, Writes,
       Page!Reply, Reply, Page!Idle, Idle

LEMMA PreBookingsClient ==
    ASSUME ClientInv, PreBookingsNext
    PROVE  ClientInv'
<1>1. CASE OpenPreBookings
  <2>1. Send("bookings", None) /\ Spend /\ mounted' = TRUE
    BY <1>1, PageClient DEF OpenPreBookings, Page!OpenBookings
  <2>2. QED
    BY <2>1, SendClient
<1>2. CASE LeavePreBookings
    BY <1>2, PageClient, UnmountClient DEF LeavePreBookings, Page!LeaveBookings
<1>3. ASSUME NEW f, setFilter(f) PROVE ClientInv'
    BY <1>3, QuietClient DEF setFilter, clientVars
<1>4. CASE loadPreBookings
  <2>1. Send("bookings", None) /\ Spend /\ mounted' = mounted /\ mounted
    BY <1>4, PageClient DEF loadPreBookings, Page!Refresh
  <2>2. QED
    BY <2>1, SendClient
<1>5. ASSUME NEW b \in Booking, cancelPreBooking(b) PROVE ClientInv'
  <2>1. Send("cancel", b) /\ Spend /\ mounted' = mounted /\ mounted
    BY <1>5, PageClient DEF cancelPreBooking, Page!handleCancel
  <2>2. QED
    BY <2>1, SendClient
<1>6. ASSUME NEW b \in Booking, Page!BookedElsewhere(b) PROVE ClientInv'
    BY <1>6, PageClient, QuietClient DEF Page!BookedElsewhere
<1>7. ASSUME NEW c \in Call, PreBookingsAnswer(c) PROVE ClientInv'
  <2>1. /\ Take(c) \/ Rejected(c, "bookings") \/ Rejected(c, "cancel")
        /\ UNCHANGED <<moves, mounted>>
    BY <1>7, PageClient
    DEF PreBookingsAnswer, Page!BookingsAnswer, Page!Loaded, Page!Cancelled, Page!CancelFailed
  <2>2. QED
    BY <2>1, TakeClient
<1>8. ASSUME NEW c \in Call, PreBookingsServe(c) PROVE ClientInv'
  <2>1. /\ wire[c].op \in {"bookings", "cancel"} /\ UNCHANGED <<moves, mounted>>
        /\ \/ Reply(c, "answered", preBooking) \/ Reply(c, "answered", None)
           \/ Reply(c, "refused", None)
    BY <1>8, PageClient
    DEF PreBookingsServe, Page!BookingsServe, Page!ServeBookings, Page!ServeCancel, Sent
  <2>2. QED
    BY <2>1, ReplyClient
<1>9. QED
    BY <1>1, <1>2, <1>3, <1>4, <1>5, <1>6, <1>7, <1>8 DEF PreBookingsNext

PBMessage(m) ==
    /\ m.op \in {"idle", "bookings", "cancel"}
    /\ m.op = "cancel" => /\ m.arg \in Booking
                          /\ m.state = "answered" => preBooking[m.arg] = "cancelled"
    /\ m.op = "bookings" /\ m.state = "answered" =>
         /\ m.answer \in [Booking -> {"absent", "active", "cancelled"}]
         /\ \A b \in Booking : m.answer[b] = "cancelled" => preBooking[b] = "cancelled"

PBMessages == \A c \in Call : PBMessage(wire[c])

(* Unless Refresh was pressed with an answer outstanding, nothing else is  *)
(* waited for while the rows load, and no row cancelled here comes back.   *)
ReloadAlone ==
    \A c \in Calls("bookings") :
       /\ pbLoading
       /\ \A d \in Call : wire[d].heard => d = c
       /\ wire[c].state = "answered" => \A b \in pbTold : wire[c].answer[b] # "active"

PBFirst == pbRows = Page!NoBookings /\ pbLoading /\ pbTold = {}

PreBookingsInv ==
    /\ PreBookingsTypeOK
    /\ PreBookingRowsTrue
    /\ \A b \in pbTold : preBooking[b] = "cancelled"
    /\ tab # "prebookings" \/ ~mounted => PBFirst
    /\ tab = "prebookings" => PBMessages /\ (~pbRefreshedBusy => ReloadAlone)

LEMMA PBExpanded ==
    /\ PreBookingsTypeOK <=>
         /\ preBooking \in [Booking -> {"absent", "active", "cancelled"}]
         /\ pbRows \in [Booking -> {"absent", "active", "cancelled"}]
         /\ pbLoading \in BOOLEAN
         /\ pbCancelling \in Booking \cup {None}
         /\ pbTold \subseteq Booking
         /\ pbRefreshedBusy \in BOOLEAN
         /\ pbFilter \in {"all", "active", "cancelled"}
    /\ PreBookingRowsTrue <=>
         /\ \A b \in Booking : pbRows[b] = "cancelled" => preBooking[b] = "cancelled"
         /\ pbRefreshedBusy \/ \A b \in pbTold : pbRows[b] # "active"
BY DEF PreBookingsTypeOK, PreBookingRowsTrue, Page!BookingsTypeOK, Page!BookingStatus,
       Page!ShownCancelledIsCancelled, Page!CancelledStaysShown

LEMMA PreBookingsInvInit ==
    ASSUME Init
    PROVE  PreBookingsInv
<1>1. \A c \in Call : wire[c].op = "idle"
    BY IdleIsMessage DEF Init, ClientInit
<1>2. PreBookingsInit
    BY DEF Init
<1>3. /\ preBooking \in [Booking -> {"absent", "active"}] /\ pbRows = [b \in Booking |-> "absent"]
      /\ pbLoading /\ pbCancelling = None /\ pbTold = {} /\ ~pbRefreshedBusy /\ pbFilter = "all"
      /\ PBFirst /\ pbLoading \in BOOLEAN /\ pbRefreshedBusy \in BOOLEAN
    BY <1>2 DEF PreBookingsInit, Page!BookingsInit, Page!NoBookings, PBFirst
<1>4. PreBookingsTypeOK /\ PreBookingRowsTrue
    BY <1>3, PBExpanded
<1>5. PBMessages /\ ReloadAlone
    BY <1>1 DEF PBMessages, PBMessage, ReloadAlone, Calls
<1>6. QED
    BY <1>3, <1>4, <1>5 DEF PreBookingsInv

LEMMA PreBookingsInvStep ==
    ASSUME ClientInv, PreBookingsInv, tab = "prebookings", tab' = tab, PreBookingsNext
    PROVE  PreBookingsInv'
<1> USE DEF PreBookingsTypeOK, PreBookingRowsTrue, Page!BookingsTypeOK, Page!BookingStatus,
            Page!ShownCancelledIsCancelled, Page!CancelledStaysShown
<1>1. /\ WireOK /\ PreBookingsTypeOK /\ PreBookingRowsTrue
      /\ \A b \in pbTold : preBooking[b] = "cancelled"
      /\ \A c \in Call : IsMessage(wire[c]) /\ PBMessage(wire[c])
      /\ ~pbRefreshedBusy => ReloadAlone
    BY DEF ClientInv, WireOK, PreBookingsInv, PBMessages
<1>2. \A c \in Calls("bookings") : wire[c].heard /\ mounted
    BY <1>1 DEF Calls, IsMessage, Writes, ClientInv, Quiet
<1>3. ASSUME UNCHANGED preBooking, PBMessages',
             ~pbRefreshedBusy' => ReloadAlone', PreBookingsTypeOK', PreBookingRowsTrue',
             \A b \in pbTold' : preBooking[b] = "cancelled",
             ~mounted' => PBFirst'
      PROVE  PreBookingsInv'
    BY <1>3 DEF PreBookingsInv
(* One call changes, the others keep what they carry.                      *)
<1>4. ASSUME NEW c \in Call, \A d \in Call \ {c} : wire'[d] = wire[d],
             \A b \in Booking : preBooking[b] = "cancelled" => preBooking'[b] = "cancelled",
             PBMessage(wire[c]) => PBMessage(wire[c])'
      PROVE  PBMessages'
    BY <1>1, <1>4 DEF PBMessages, PBMessage
<1>5. ASSUME Send("bookings", None), UNCHANGED preBooking
      PROVE  PBMessages' /\ (Quiet /\ pbLoading' => ReloadAlone')
  <2>1. /\ Fresh \in Call /\ wire'[Fresh].op = "bookings" /\ wire'[Fresh].state = "sent"
        /\ \A d \in Call \ {Fresh} : wire'[d] = wire[d]
    BY <1>1, <1>5, SendEffect
  <2>2. PBMessages'
    BY <1>4, <1>5, <2>1 DEF PBMessage
  <2>3. ASSUME Quiet, pbLoading' PROVE ReloadAlone'
    <3>1. \A d \in Call : wire'[d].heard => d = Fresh
      BY <2>1, <2>3 DEF Quiet
    <3>2. \A d \in Calls("bookings")' : d = Fresh
      BY <1>2, <2>1, <2>3 DEF Calls, Quiet
    <3>3. QED
      BY <2>1, <2>3, <3>1, <3>2 DEF ReloadAlone
  <2>4. QED
    BY <2>2, <2>3
<1>6. ASSUME NEW c \in Call, wire[c].op = "cancel", wire[c].heard,
             ~wire'[c].heard, wire'[c].op \in {"idle", "cancel"},
             wire'[c].op = "cancel" => wire'[c].arg = wire[c].arg /\ wire'[c].state = "sent",
             \A d \in Call \ {c} : wire'[d] = wire[d],
             UNCHANGED <<preBooking, pbRefreshedBusy>>
      PROVE  PBMessages' /\ (~pbRefreshedBusy' => ReloadAlone')
  <2>1. PBMessages'
    BY <1>4, <1>6 DEF PBMessage
  <2>2. ASSUME ~pbRefreshedBusy PROVE ReloadAlone'
    <3>1. Calls("bookings") = {}
      BY <1>1, <1>6, <2>2 DEF ReloadAlone, Calls
    <3>2. Calls("bookings")' = {}
      BY <1>6, <3>1 DEF Calls
    <3>3. QED
      BY <3>2 DEF ReloadAlone
  <2>3. QED
    BY <1>6, <2>1, <2>2
<1>7. CASE OpenPreBookings
  <2>1. /\ ~mounted /\ mounted' = TRUE /\ Send("bookings", None)
        /\ UNCHANGED <<preBooking, pbRows, pbLoading, pbCancelling, pbTold, pbRefreshedBusy,
                       pbFilter>>
    BY <1>7, PageClient DEF OpenPreBookings, Page!OpenBookings, Page!bookingVars
  <2>2. Send("bookings", None)
    BY <2>1
  <2>3. Quiet /\ pbLoading
    BY <2>1 DEF ClientInv, PreBookingsInv, PBFirst
  <2>4. PBMessages' /\ ReloadAlone'
    BY <1>5, <2>1, <2>2, <2>3
  <2>5. PreBookingsTypeOK' /\ PreBookingRowsTrue'
    BY <1>1, <2>1
  <2>6. QED
    BY <1>1, <1>3, <2>1, <2>4, <2>5
<1>8. CASE LeavePreBookings
  <2>1. /\ Unmount /\ pbRows' = Page!NoBookings /\ pbLoading' = TRUE /\ pbCancelling' = None
        /\ pbTold' = {} /\ pbRefreshedBusy' = FALSE /\ preBooking' = preBooking
        /\ pbFilter' = "all"
    BY <1>8, PageClient DEF LeavePreBookings, Page!LeaveBookings
  <2>2. \A c \in Call : /\ ~wire'[c].heard
                        /\ \/ wire'[c].op = "idle" /\ wire'[c].state = "free"
                           \/ /\ wire[c].op \in Writes /\ wire'[c].op = wire[c].op
                              /\ wire'[c].arg = wire[c].arg /\ wire'[c].state = "sent"
    BY <1>1, <2>1, UnmountEffect
  <2>3. PBMessages' /\ ReloadAlone'
    BY <1>1, <2>1, <2>2 DEF PBMessages, PBMessage, ReloadAlone, Calls, Writes
  <2>4. PBFirst'
    BY <2>1 DEF PBFirst
  <2>5. PreBookingsTypeOK' /\ PreBookingRowsTrue'
    <3>1. pbRows' = [b \in Booking |-> "absent"]
      BY <2>1 DEF Page!NoBookings
    <3>2. pbLoading' \in BOOLEAN /\ pbRefreshedBusy' \in BOOLEAN
      BY <2>1
    <3>3. QED
      BY <1>1, <2>1, <3>1, <3>2
  <2>6. QED
    BY <1>3, <2>1, <2>3, <2>4, <2>5
<1>9. ASSUME NEW f \in {"all", "active", "cancelled"}, setFilter(f) PROVE PreBookingsInv'
  <2>1. /\ UNCHANGED <<wire, mounted, preBooking, pbRows, pbLoading, pbCancelling, pbTold,
                       pbRefreshedBusy>>
        /\ pbFilter' = f
    BY <1>9 DEF setFilter, clientVars, pbList
  <2>2. PreBookingsTypeOK' /\ PreBookingRowsTrue'
    BY <1>1, <2>1
  <2>3. QED
    BY <1>1, <2>1, <2>2
    DEF PreBookingsInv, PBMessages, PBMessage, ReloadAlone, Calls, PBFirst, Page!NoBookings
<1>10. CASE loadPreBookings
  <2>1. /\ mounted /\ mounted' = mounted
        /\ UNCHANGED <<preBooking, pbRows, pbCancelling, pbTold, pbFilter>>
    BY <1>10, PageClient DEF loadPreBookings, Page!Refresh
  <2>2. Send("bookings", None)
    BY <1>10, PageClient DEF loadPreBookings, Page!Refresh
  <2>3. /\ pbLoading' /\ {pbLoading'} \subseteq BOOLEAN /\ {pbRefreshedBusy'} \subseteq BOOLEAN
        /\ ~pbRefreshedBusy' => Quiet /\ ~pbRefreshedBusy
    <3>1. pbLoading' = TRUE /\ pbRefreshedBusy' = (pbRefreshedBusy \/ ~Page!Quiet)
      BY <1>10 DEF loadPreBookings, Page!Refresh
    <3>2. pbLoading' /\ {pbLoading'} \subseteq BOOLEAN
      BY <3>1
    <3>3. {pbRefreshedBusy'} \subseteq BOOLEAN
      BY <3>1
    <3>4. ~pbRefreshedBusy' => Page!Quiet /\ ~pbRefreshedBusy
      <4>1. pbRefreshedBusy \in BOOLEAN
        BY <1>1
      <4>2. QED
        BY <3>1, <4>1 DEF Page!Quiet
    <3>5. QED
      BY <3>2, <3>3, <3>4, PageClient
  <2>4. PBMessages' /\ (~pbRefreshedBusy' => ReloadAlone')
    BY <1>5, <2>1, <2>2, <2>3
  <2>5. PreBookingsTypeOK' /\ PreBookingRowsTrue'
    <3>1. pbLoading' \in BOOLEAN /\ pbRefreshedBusy' \in BOOLEAN
      BY <2>3
    <3>2. QED
      BY <1>1, <2>1, <2>3, <3>1
  <2>6. QED
    BY <1>1, <1>3, <2>1, <2>3, <2>4, <2>5
<1>11. ASSUME NEW b \in Booking, cancelPreBooking(b) PROVE PreBookingsInv'
  <2>1. /\ mounted /\ mounted' = mounted /\ ~pbLoading /\ pbCancelling' = b
        /\ UNCHANGED <<preBooking, pbRows, pbLoading, pbTold, pbRefreshedBusy, pbFilter>>
    BY <1>11 DEF cancelPreBooking, PreBookingsScreen, Page!handleCancel
  <2>2. Send("cancel", b)
    BY <1>11, PageClient DEF cancelPreBooking, Page!handleCancel
  <2>3. /\ Fresh \in Call /\ wire[Fresh].op = "idle" /\ wire'[Fresh].op = "cancel"
        /\ wire'[Fresh].arg = b /\ wire'[Fresh].state = "sent"
        /\ \A d \in Call \ {Fresh} : wire'[d] = wire[d]
    BY <1>1, <2>2, SendEffect
  <2>4. PBMessages'
    BY <1>4, <2>1, <2>3 DEF PBMessage
  <2>5. ASSUME ~pbRefreshedBusy PROVE ReloadAlone'
    <3>1. Calls("bookings") = {}
      BY <1>1, <2>1, <2>5 DEF ReloadAlone
    <3>2. Calls("bookings")' = {}
      BY <2>3, <3>1 DEF Calls
    <3>3. QED
      BY <3>2 DEF ReloadAlone
  <2>6. PreBookingsTypeOK' /\ PreBookingRowsTrue'
    BY <1>1, <2>1
  <2>7. QED
    BY <1>1, <1>3, <2>1, <2>4, <2>5, <2>6
<1>12. ASSUME NEW b \in Booking, Page!BookedElsewhere(b), UNCHANGED pbFilter
       PROVE  PreBookingsInv'
  <2>1. UNCHANGED <<wire, mounted, pbRows, pbLoading, pbCancelling, pbTold, pbRefreshedBusy,
                    pbFilter>>
    BY <1>12 DEF Page!BookedElsewhere, Page!bookingView
  <2>2. /\ preBooking' \in [Booking -> {"absent", "active", "cancelled"}]
        /\ \A e \in Booking : preBooking[e] = "cancelled" => preBooking'[e] = "cancelled"
    BY <1>1, <1>12 DEF Page!BookedElsewhere
  <2>3. PBMessages'
    BY <1>1, <2>1, <2>2 DEF PBMessages, PBMessage
  <2>4. PreBookingsTypeOK' /\ PreBookingRowsTrue'
    BY <1>1, <2>1, <2>2
  <2>5. pbTold \subseteq Booking
    BY <1>1
  <2>6. QED
    BY <1>1, <2>1, <2>2, <2>3, <2>4, <2>5
    DEF PreBookingsInv, ReloadAlone, Calls, PBFirst, Page!NoBookings
<1>13. ASSUME NEW c \in Call, Page!Loaded(c), UNCHANGED pbFilter PROVE PreBookingsInv'
  <2>1. /\ UNCHANGED <<mounted, preBooking, pbCancelling, pbTold, pbRefreshedBusy, pbFilter>>
        /\ pbLoading' = FALSE
        /\ \/ Answered(c, "bookings") /\ Take(c) /\ pbRows' = wire[c].answer
           \/ Rejected(c, "bookings") /\ UNCHANGED pbRows
    BY <1>13, PageClient DEF Page!Loaded
  <2>2. /\ wire[c].op = "bookings" /\ wire'[c].op = "idle"
        /\ \A d \in Call \ {c} : wire'[d] = wire[d]
    BY <1>1, <2>1, TakeEffect, RejectedEffect DEF Answered, Writes
  <2>3. c \in Calls("bookings") /\ mounted /\ wire[c].heard
    BY <1>2, <2>2 DEF Calls
  <2>4. PBMessages'
    BY <1>4, <2>1, <2>2 DEF PBMessage
  <2>5. ASSUME ~pbRefreshedBusy PROVE ReloadAlone'
    <3>1. Calls("bookings") = {c}
      BY <1>1, <1>2, <2>3, <2>5 DEF ReloadAlone, Calls
    <3>2. Calls("bookings")' = {}
      BY <2>2, <3>1 DEF Calls
    <3>3. QED
      BY <3>2 DEF ReloadAlone
  <2>6. PreBookingsTypeOK' /\ PreBookingRowsTrue'
    <3>1. CASE UNCHANGED pbRows
      BY <1>1, <2>1, <3>1
    <3>2. CASE Answered(c, "bookings") /\ pbRows' = wire[c].answer
      <4>1. /\ pbRows' \in [Booking -> {"absent", "active", "cancelled"}]
            /\ \A b \in Booking : pbRows'[b] = "cancelled" => preBooking[b] = "cancelled"
        BY <1>1, <3>2 DEF PBMessage, Answered
      <4>2. ~pbRefreshedBusy => \A b \in pbTold : pbRows'[b] # "active"
        BY <1>1, <2>3, <3>2 DEF ReloadAlone, Answered
      <4>3. QED
        BY <1>1, <2>1, <4>1, <4>2
    <3>3. QED
      BY <2>1, <3>1, <3>2
  <2>7. QED
    BY <1>1, <1>3, <2>1, <2>3, <2>4, <2>5, <2>6
<1>14. ASSUME NEW c \in Call, Page!Cancelled(c), UNCHANGED pbFilter PROVE PreBookingsInv'
  <2>1. /\ Answered(c, "cancel") /\ Take(c)
        /\ pbRows' = [b \in Booking |->
             IF b = wire[c].arg /\ pbRows[b] # "absent" THEN "cancelled" ELSE pbRows[b]]
        /\ pbCancelling' = None /\ pbTold' = pbTold \cup {wire[c].arg}
        /\ UNCHANGED <<mounted, preBooking, pbLoading, pbRefreshedBusy, pbFilter>>
    BY <1>14, PageClient DEF Page!Cancelled
  <2>2. /\ wire[c].op = "cancel" /\ wire[c].state = "answered" /\ wire[c].heard
        /\ wire[c].arg \in Booking /\ preBooking[wire[c].arg] = "cancelled"
    BY <1>1, <2>1 DEF Answered, IsMessage, PBMessage
  <2>3. /\ ~wire'[c].heard /\ wire'[c].op = "idle"
        /\ \A d \in Call \ {c} : wire'[d] = wire[d]
    BY <1>1, <2>1, TakeEffect
  <2>4. mounted
    BY <2>2 DEF ClientInv, Quiet
  <2>5. PBMessages' /\ (~pbRefreshedBusy' => ReloadAlone')
    BY <1>6, <2>1, <2>2, <2>3
  <2>6. PreBookingsTypeOK' /\ PreBookingRowsTrue'
    BY <1>1, <2>1, <2>2
  <2>7. QED
    BY <1>1, <1>3, <2>1, <2>2, <2>4, <2>5, <2>6
<1>15. ASSUME NEW c \in Call, Page!CancelFailed(c), UNCHANGED pbFilter PROVE PreBookingsInv'
  <2>1. /\ Rejected(c, "cancel") /\ pbCancelling' = None
        /\ UNCHANGED <<mounted, preBooking, pbRows, pbLoading, pbTold, pbRefreshedBusy, pbFilter>>
    BY <1>15, PageClient DEF Page!CancelFailed
  <2>2. /\ wire[c].op = "cancel" /\ wire[c].heard /\ ~wire'[c].heard
        /\ \/ wire'[c].op = "idle"
           \/ wire'[c].op = "cancel" /\ wire'[c].arg = wire[c].arg /\ wire'[c].state = "sent"
        /\ \A d \in Call \ {c} : wire'[d] = wire[d]
    BY <1>1, <2>1, RejectedEffect
  <2>3. mounted
    BY <2>2 DEF ClientInv, Quiet
  <2>4. PBMessages' /\ (~pbRefreshedBusy' => ReloadAlone')
    BY <1>6, <2>1, <2>2
  <2>5. PreBookingsTypeOK' /\ PreBookingRowsTrue'
    BY <1>1, <2>1
  <2>6. QED
    BY <1>1, <1>3, <2>1, <2>3, <2>4, <2>5
<1>16. ASSUME NEW c \in Call, Page!ServeBookings(c), UNCHANGED pbFilter PROVE PreBookingsInv'
  <2>1. /\ Sent(c, "bookings")
        /\ UNCHANGED <<mounted, preBooking, pbRows, pbLoading, pbCancelling, pbTold,
                       pbRefreshedBusy, pbFilter>>
    BY <1>16, PageClient DEF Page!ServeBookings, Page!bookingVars
  <2>2. Reply(c, "answered", preBooking)
    BY <1>16, PageClient DEF Page!ServeBookings
  <2>3. wire[c].op = "bookings" /\ c \in Calls("bookings") /\ wire[c].heard /\ mounted
    BY <1>2, <2>1 DEF Sent, Calls
  <2>4. /\ wire'[c].op = "bookings" /\ wire'[c].state = "answered"
        /\ wire'[c].answer = preBooking /\ wire'[c].heard = wire[c].heard
        /\ \A d \in Call \ {c} : wire'[d] = wire[d]
    BY <1>1, <2>2, <2>3, ReplyEffect
  <2>5. PBMessages'
    BY <1>1, <1>4, <2>1, <2>4 DEF PBMessage
  <2>6. ASSUME ~pbRefreshedBusy PROVE ReloadAlone'
    <3>1. Calls("bookings")' = Calls("bookings")
      BY <2>3, <2>4 DEF Calls
    <3>2. \A d \in Call : wire'[d].heard = wire[d].heard
      BY <2>4
    <3>3. \A b \in pbTold : preBooking[b] # "active"
      BY <1>1
    <3>4. \A d \in Calls("bookings") : d = c
      BY <1>1, <1>2, <2>3, <2>6 DEF ReloadAlone, Calls
    <3>5. QED
      BY <1>1, <2>1, <2>4, <2>6, <3>1, <3>2, <3>3, <3>4 DEF ReloadAlone
  <2>7. PreBookingsTypeOK' /\ PreBookingRowsTrue'
    BY <1>1, <2>1
  <2>8. QED
    BY <1>1, <1>3, <2>1, <2>3, <2>5, <2>6, <2>7
<1>17. ASSUME NEW c \in Call, Page!ServeCancel(c), UNCHANGED pbFilter PROVE PreBookingsInv'
  <2>1. /\ Sent(c, "cancel")
        /\ UNCHANGED <<mounted, pbRows, pbLoading, pbCancelling, pbTold, pbRefreshedBusy,
                       pbFilter>>
    BY <1>17, PageClient DEF Page!ServeCancel, Page!bookingView
  <2>2. wire[c].op = "cancel" /\ wire[c].arg \in Booking
    BY <1>1, <2>1 DEF Sent, PBMessage
  <2>3. \/ /\ preBooking' = [preBooking EXCEPT ![wire[c].arg] = "cancelled"]
           /\ Reply(c, "answered", None)
        \/ preBooking' = preBooking /\ Reply(c, "refused", None)
    BY <1>17, PageClient DEF Page!ServeCancel
  <2>4. /\ preBooking' \in [Booking -> {"absent", "active", "cancelled"}]
        /\ \A b \in Booking : preBooking[b] = "cancelled" => preBooking'[b] = "cancelled"
    BY <1>1, <2>2, <2>3
  <2>5. /\ wire'[c].heard = wire[c].heard
        /\ wire'[c].op \in {"idle", "cancel"}
        /\ wire'[c].op = "cancel" =>
             /\ wire'[c].arg = wire[c].arg
             /\ wire'[c].state = "answered" => preBooking'[wire[c].arg] = "cancelled"
        /\ \A d \in Call \ {c} : wire'[d] = wire[d]
    <3>1. CASE Reply(c, "refused", None)
      BY <1>1, <2>2, <3>1, ReplyEffect
    <3>2. CASE /\ preBooking' = [preBooking EXCEPT ![wire[c].arg] = "cancelled"]
               /\ Reply(c, "answered", None)
      <4>1. preBooking'[wire[c].arg] = "cancelled"
        BY <1>1, <2>2, <3>2
      <4>2. QED
        BY <1>1, <2>2, <3>2, <4>1, ReplyEffect
    <3>3. QED
      BY <2>3, <3>1, <3>2
  <2>6. PBMessages'
    BY <1>4, <2>2, <2>4, <2>5 DEF PBMessage
  <2>7. ASSUME ~pbRefreshedBusy PROVE ReloadAlone'
    <3>1. Calls("bookings")' = Calls("bookings")
      BY <2>2, <2>5 DEF Calls
    <3>2. \A d \in Call : wire'[d].heard = wire[d].heard
      BY <2>5
    <3>3. \A d \in Calls("bookings") : wire'[d] = wire[d]
      BY <2>2, <2>5 DEF Calls
    <3>4. QED
      BY <1>1, <2>1, <2>7, <3>1, <3>2, <3>3 DEF ReloadAlone
  <2>8. PreBookingsTypeOK' /\ PreBookingRowsTrue' /\ pbTold \subseteq Booking
    BY <1>1, <2>1, <2>4
  <2>9. QED
    BY <1>1, <2>1, <2>4, <2>6, <2>7, <2>8
    DEF PreBookingsInv, PBFirst, Page!NoBookings
<1>18. QED
    BY <1>7, <1>8, <1>9, <1>10, <1>11, <1>12, <1>13, <1>14, <1>15, <1>16, <1>17
    DEF PreBookingsNext, PreBookingsAnswer, PreBookingsServe, Page!BookingsAnswer,
        Page!BookingsServe

-----------------------------------------------------------------------------
(* The panel *)

(* The invariants of the tabs hold together: the requests under way belong *)
(* to the tab that is shown, and the others are as they start.             *)
PanelInv ==
    /\ ClientInv
    /\ tab \in Tabs
    /\ HomeInv
    /\ UsersInv
    /\ SessionsInv
    /\ TxnsInv
    /\ CapturesInv
    /\ TestingInv
    /\ PreBookingsInv

LEMMA PanelInit ==
    ASSUME Init
    PROVE  PanelInv
<1>1. ClientInv
  <2>1. /\ \A c \in Call : wire[c] = Idle
        /\ DOMAIN wire = Call /\ wire = [c \in Call |-> wire[c]]
        /\ moves = 0 /\ mounted \in BOOLEAN
    BY DEF Init, ClientInit
  <2>2. WireOK
    BY <2>1, IdleIsMessage DEF WireOK
  <2>3. Quiet
    BY <2>1 DEF Quiet, Idle
  <2>4. QED
    BY <2>1, <2>2, <2>3, ClientAssumption DEF ClientInv
<1>2. QED
    BY <1>1, HomeInvInit, UsersInvInit, SessionsInvInit, TxnsInvInit, CapturesInvInit,
       TestingInvInit, PreBookingsInvInit DEF PanelInv, Init

(* What another tab does leaves a tab as it was.                           *)
LEMMA HomeKept ==
    ASSUME HomeInv, tab # "home", tab' = tab, UNCHANGED homeVars
    PROVE  HomeInv'
BY DEF HomeInv, HomeTypeOK, homeVars, serverView, baseView, gateView, slotsView

LEMMA UsersKept ==
    ASSUME UsersInv, tab # "users", tab' = tab, UNCHANGED usersVars
    PROVE  UsersInv'
BY DEF UsersInv, UsersTypeOK, usersVars, userServer, userView, NoDetail

LEMMA SessionsKept ==
    ASSUME SessionsInv, tab # "sessions", tab' = tab, UNCHANGED sessionsVars
    PROVE  SessionsInv'
BY DEF SessionsInv, SessionsTypeOK, ReportedClosedIsCompleted, SessionsFirst, NoSessions, sessionsVars

LEMMA TxnsKept ==
    ASSUME TxnsInv, tab # "transactions", tab' = tab, UNCHANGED txnsVars
    PROVE  TxnsInv'
BY DEF TxnsInv, TransactionsTypeOK, TxnsFirst, NoTxns, txnsVars

LEMMA CapturesKept ==
    ASSUME CapturesInv, tab # "camera", tab' = tab, UNCHANGED capturesVars
    PROVE  CapturesInv'
BY DEF CapturesInv, CapturesTypeOK, NewestFirst, capturesVars, capturesView

LEMMA TestingKept ==
    ASSUME TestingInv, tab # "testing", tab' = tab, UNCHANGED testingVars
    PROVE  TestingInv'
BY DEF TestingInv, TestingTypeOK, ResultOfPicture, ResultShown, testingVars

LEMMA PreBookingsKept ==
    ASSUME PreBookingsInv, tab # "prebookings", tab' = tab, UNCHANGED pbVars
    PROVE  PreBookingsInv'
BY DEF PreBookingsInv, PreBookingsTypeOK, PreBookingRowsTrue, Page!BookingsTypeOK,
       Page!BookingStatus, Page!ShownCancelledIsCancelled, Page!CancelledStaysShown, PBFirst,
       Page!NoBookings, pbVars, pbList

LEMMA PanelStep ==
    ASSUME PanelInv, Next
    PROVE  PanelInv'
<1>1. CASE HomeNext /\ Others("home")
    BY <1>1, HomeClient, HomeInvStep, UsersKept, SessionsKept, TxnsKept, CapturesKept,
       TestingKept, PreBookingsKept DEF PanelInv, Others
<1>2. CASE UsersNext /\ Others("users")
    BY <1>2, UsersClient, UsersInvStep, HomeKept, SessionsKept, TxnsKept, CapturesKept,
       TestingKept, PreBookingsKept DEF PanelInv, Others
<1>3. CASE SessionsNext /\ Others("sessions")
    BY <1>3, SessionsClient, SessionsInvStep, HomeKept, UsersKept, TxnsKept, CapturesKept,
       TestingKept, PreBookingsKept DEF PanelInv, Others
<1>4. CASE TransactionsNext /\ Others("transactions")
    BY <1>4, TransactionsClient, TxnsInvStep, HomeKept, UsersKept, SessionsKept, CapturesKept,
       TestingKept, PreBookingsKept DEF PanelInv, Others
<1>5. CASE CapturesNext /\ Others("camera")
    BY <1>5, CapturesClient, CapturesInvStep, HomeKept, UsersKept, SessionsKept, TxnsKept,
       TestingKept, PreBookingsKept DEF PanelInv, Others
<1>6. CASE TestingNext /\ Others("testing")
    BY <1>6, TestingClient, TestingInvStep, HomeKept, UsersKept, SessionsKept, TxnsKept,
       CapturesKept, PreBookingsKept DEF PanelInv, Others
<1>7. CASE PreBookingsNext /\ Others("prebookings")
    BY <1>7, PreBookingsClient, PreBookingsInvStep, HomeKept, UsersKept, SessionsKept, TxnsKept,
       CapturesKept, TestingKept DEF PanelInv, Others
<1>8. QED
    BY <1>1, <1>2, <1>3, <1>4, <1>5, <1>6, <1>7 DEF Next

LEMMA PanelInvariant == Init /\ [][Next]_vars => []PanelInv
<1>1. Init => PanelInv
    BY PanelInit
<1>2. PanelInv /\ [Next]_vars => PanelInv'
  <2>1. ASSUME PanelInv, UNCHANGED vars PROVE PanelInv'
    <3>1. UNCHANGED <<tab, wire, moves, mounted>>
      BY <2>1 DEF vars, clientVars
    <3>2. ClientInv'
      BY <2>1, <3>1, QuietClient DEF PanelInv
    <3>3. HomeInv'
      <4>1. UNCHANGED <<slot, news, gate, slots, stats, homeTab, gateLoading, clicked, gateDoubt,
                        overriding, occupied, occupiedLoading>>
        BY <2>1 DEF vars, homeVars, serverView, baseView, gateView, slotsView
      <4>2. QED
        BY <2>1, <3>1, <4>1 DEF PanelInv, HomeInv, HomeTypeOK, HomeMessage, ClicksCarried,
           ClickCarried, GateCalls, Calls
    <3>4. UsersInv'
      <4>1. UNCHANGED <<account, wallet, users, editId, editForm, detail, crediting, enteredTwice,
                        doubt>>
        BY <2>1 DEF vars, usersVars, userServer, userView
      <4>2. UsersTypeOK' /\ (tab' # "users" => doubt' = User /\ detail' = NoDetail)
        BY <2>1, <3>1, <4>1 DEF PanelInv, UsersInv, UsersTypeOK, NoDetail
      <4>3. ASSUME tab = "users" PROVE UsersMessages' /\ RowsInv' /\ WindowInv'
        <5>1. UsersMessages' /\ WindowInv'
          BY <2>1, <3>1, <4>1, <4>3
          DEF PanelInv, UsersInv, UsersMessages, UsersMessage, WindowInv, OwnCreditShown, Calls,
              Heard, NoDetail, UserForm
        <5>2. LoadAlone' /\ FormOfRow'
          BY <2>1, <3>1, <4>1, <4>3
          DEF PanelInv, UsersInv, RowsInv, LoadAlone, FormOfRow, Calls, UsersListed, NoUsers
        <5>3. ASSUME NEW u \in User \ doubt PROVE EditAlone(u)' /\ (mounted => EditCarried(u)')
          <6>1. EditAlone(u) /\ (mounted => EditCarried(u))
            BY <2>1, <4>3, <5>3 DEF PanelInv, UsersInv, RowsInv
          <6>2. QED
            BY <3>1, <4>1, <6>1 DEF EditAlone, EditCarried, Edits, Calls, Sent
        <5>4. QED
          BY <3>1, <4>1, <5>1, <5>2, <5>3 DEF RowsInv
      <4>4. QED
        BY <3>1, <4>2, <4>3 DEF UsersInv
    <3>5. SessionsInv'
      <4>1. UNCHANGED <<session, sessions, statusFilter, closing, closedHere, sessionsLoading,
                        strayLoad>>
        BY <2>1 DEF vars, sessionsVars
      <4>2. QED
        BY <2>1, <3>1, <4>1 DEF PanelInv, SessionsInv, SessionsTypeOK, ReportedClosedIsCompleted,
           SessionsFirst, NoSessions, SessionsMessages, SessionsMessage, LoadCarried, NotActive, Calls
    <3>6. TxnsInv'
      <4>1. UNCHANGED <<matching, deleted, txns, total, pageNo, txnFilter, txnLoading, selected,
                        strayFetch>>
        BY <2>1 DEF vars, txnsVars
      <4>2. QED
        BY <2>1, <3>1, <4>1 DEF PanelInv, TxnsInv, TransactionsTypeOK, TxnsFirst, NoTxns,
           TxnsMessages, TxnsMessage, FetchCarried, PageCarried, Calls
    <3>7. CapturesInv'
      <4>1. UNCHANGED <<taken, captures, capturesLoading, captureFilter, lightbox>>
        BY <2>1 DEF vars, capturesVars, capturesView
      <4>2. QED
        BY <2>1, <3>1, <4>1 DEF PanelInv, CapturesInv, CapturesTypeOK, NewestFirst, CapturesMessages
    <3>8. TestingInv'
      <4>1. UNCHANGED <<preview, result, running, swapped>>
        BY <2>1 DEF vars, testingVars
      <4>2. QED
        BY <2>1, <3>1, <4>1 DEF PanelInv, TestingInv, TestingTypeOK, ResultOfPicture, ResultShown,
           TestingMessages, CardCarried, CardCalls, Heard
    <3>9. PreBookingsInv'
      <4>1. UNCHANGED <<preBooking, pbRows, pbLoading, pbCancelling, pbTold, pbRefreshedBusy,
                        pbFilter>>
        BY <2>1 DEF vars, pbVars, pbList
      <4>2. QED
        BY <2>1, <3>1, <4>1 DEF PanelInv, PreBookingsInv, PreBookingsTypeOK, PreBookingRowsTrue,
           Page!BookingsTypeOK, Page!BookingStatus, Page!ShownCancelledIsCancelled,
           Page!CancelledStaysShown, PBFirst, Page!NoBookings, PBMessages, PBMessage, ReloadAlone,
           Calls
    <3>10. QED
      BY <2>1, <3>1, <3>2, <3>3, <3>4, <3>5, <3>6, <3>7, <3>8, <3>9 DEF PanelInv, Tabs
  <2>2. QED
    BY <2>1, PanelStep
<1>3. QED
    BY <1>1, <1>2, PTL

(* Whatever the page and the server do, the state of the panel keeps its   *)
(* types (every handler of admin-app/src and the endpoints it calls).      *)
THEOREM TypeCorrect == Spec => []TypeOK
<1>1. PanelInv => TypeOK
  <2>1. ClientInv => ClientTypeOK
    BY DEF ClientInv, WireOK, IsMessage, ClientTypeOK
  <2>2. QED
    BY <2>1 DEF PanelInv, TypeOK, HomeInv, UsersInv, SessionsInv, TxnsInv, CapturesInv,
       TestingInv, PreBookingsInv
<1>2. QED
    BY <1>1, PanelInvariant, PTL DEF Spec

(* Once no answer to a gate command is outstanding, a gate stands as the   *)
(* button clicked last on it says, however the answers of both gates were  *)
(* mixed (AdminDashboard.jsx handleGate), unless it is in doubt: a command *)
(* was given up, or two were under way to it.                              *)
THEOREM GateClicksCarriedOut == Spec => []GateFollowsLastClick
<1>1. ASSUME PanelInv PROVE GateFollowsLastClick
  <2>1. ASSUME mounted, ~Awaits("gate"), NEW g \in Gate \ gateDoubt, clicked[g] # None
        PROVE  gate[g] = clicked[g]
    <3>1. tab = "home" /\ ClickCarried(g)
      BY <1>1, <2>1 DEF PanelInv, HomeInv, ClicksCarried
    <3>2. GateCalls(g) = {}
      BY <2>1, <3>1 DEF ClickCarried, Awaits, GateCalls, Calls
    <3>3. QED
      BY <3>1, <3>2 DEF ClickCarried
  <2>2. QED
    BY <2>1 DEF GateFollowsLastClick
<1>2. QED
    BY <1>1, PanelInvariant, PTL DEF Spec

(* The balance in the window of a user is never less than the one that was *)
(* reported after the administrator's own credit, whatever reload of the   *)
(* details comes late (UserDetailModal handleCredit), unless an amount was *)
(* entered while the credit before was unanswered.                         *)
THEOREM CreditStaysShown == Spec => []OwnCreditShown
<1>1. PanelInv => OwnCreditShown
    BY DEF PanelInv, UsersInv, WindowInv, OwnCreditShown, NoDetail
<1>2. QED
    BY <1>1, PanelInvariant, PTL DEF Spec

(* An edit that is carried out late makes no closed account active again   *)
(* unless the box was ticked by hand, or the account was changed elsewhere *)
(* or by an edit nobody waits for (handleSaveUser, update_user).           *)
THEOREM ReactivationAsked == Spec => NoSilentReactivation
<1>1. ASSUME PanelInv, [Next]_vars, account' # account
      PROVE  \A c \in Call : Sent(c, "update") /\ wire'[c].state # "sent" =>
                LET u == wire[c].arg.user
                IN  account[u] # None /\ ~account[u].active /\ account'[u].active
                      => wire[c].arg.form.ticked \/ u \in doubt
  <2>1. UsersNext /\ tab = "users"
    <3>1. \A t : Others(t) => t = "users"
      BY <1>1 DEF Others, usersVars, userServer
    <3>2. ~UNCHANGED vars
      BY <1>1 DEF vars, usersVars, userServer
    <3>3. QED
      BY <1>1, <3>1, <3>2 DEF Next, Others
  <2>2. QED
    BY <1>1, <2>1, ReactivationStep DEF PanelInv
<1>2. PanelInv /\ [Next]_vars =>
        [\A c \in Call : Sent(c, "update") /\ wire'[c].state # "sent" =>
           LET u == wire[c].arg.user
           IN  account[u] # None /\ ~account[u].active /\ account'[u].active
                 => wire[c].arg.form.ticked \/ u \in doubt]_account
    BY <1>1
<1>3. QED
    BY <1>2, PanelInvariant, PTL DEF Spec, NoSilentReactivation

(* With no answer outstanding the rows are those of the filter and of the  *)
(* page chosen now, and a plate shown is the one read in the picture that  *)
(* is shown (SessionsTab fetchSessions, TransactionsTab fetchTxns,         *)
(* SystemTesting run), however the answers overtook each other, but for    *)
(* the overlaps that strayLoad, strayFetch and swapped record.             *)
THEOREM RowsBelongToChoice == Spec => []RowsAsChosen
<1>1. ASSUME PanelInv PROVE RowsAsChosen
  <2>1. Quiet => Calls("sessions") = {} /\ Calls("transactions") = {}
    BY <1>1 DEF PanelInv, ClientInv, WireOK, IsMessage, Quiet, Calls, Writes
  <2>2. ASSUME mounted, Quiet, ~strayLoad
        PROVE  /\ sessions \in [Session -> Matching(statusFilter)] /\ NotActive(sessions)
    <3>1. CASE tab = "sessions"
      BY <1>1, <2>1, <2>2, <3>1 DEF PanelInv, SessionsInv, LoadCarried
    <3>2. CASE tab # "sessions"
      BY <1>1, <3>2 DEF PanelInv, SessionsInv, SessionsFirst, NoSessions, Matching, NotActive
    <3>3. QED
      BY <3>1, <3>2
  <2>3. RowsFollowFilter
    BY <2>2 DEF RowsFollowFilter, Matching, NotActive
  <2>4. RowsOfPageShown
    <3>1. CASE tab = "transactions"
      BY <1>1, <2>1, <3>1 DEF PanelInv, TxnsInv, FetchCarried, RowsOfPageShown
    <3>2. CASE tab # "transactions"
      BY <1>1, <3>2 DEF PanelInv, TxnsInv, TxnsFirst, NoTxns, RowsOfPageShown
    <3>3. QED
      BY <3>1, <3>2
  <2>5. QED
    BY <1>1, <2>3, <2>4 DEF RowsAsChosen, PanelInv, TestingInv
<1>2. QED
    BY <1>1, PanelInvariant, PTL DEF Spec

(* The page of transactions shown exists, an empty table means that there  *)
(* are none, and the bar below it leads to every neighbour and to no page  *)
(* that does not exist (TransactionsTab, list_transactions), unless rows   *)
(* were deleted meanwhile or two loads overlapped.                         *)
THEOREM PagesStayUsable == Spec => []PagesUsable
<1>1. ASSUME PanelInv PROVE PagesUsable
  <2>1. total \in Nat /\ pageNo \in Nat \ {0} /\ PageLimit \in Nat \ {0}
    BY <1>1, TransactionsAssumption DEF PanelInv, TxnsInv, TransactionsTypeOK
  <2>2. totalPages \in Nat \ {0}
    BY <2>1, PagesCounted DEF totalPages
  <2>3. BarUsable
    BY <2>1, <2>2, BarCorrect DEF BarUsable
  <2>4. ASSUME mounted, Quiet, ~strayFetch, ~deleted
        PROVE  pageNo <= totalPages /\ (txns.rows = 0 => total = 0)
    <3>1. CASE tab = "transactions"
      <4>1. Calls("transactions") = {}
        BY <1>1, <2>4 DEF PanelInv, ClientInv, WireOK, IsMessage, Quiet, Calls, Writes
      <4>2. QED
        BY <1>1, <2>4, <3>1, <4>1 DEF PanelInv, TxnsInv, PageCarried, Exists, totalPages
    <3>2. CASE tab # "transactions"
      BY <1>1, <2>2, <3>2 DEF PanelInv, TxnsInv, TxnsFirst
    <3>3. QED
      BY <3>1, <3>2
  <2>5. PageShownExists
    BY <2>4 DEF PageShownExists, TransactionTable
  <2>6. QED
    BY <2>3, <2>5 DEF PagesUsable
<1>2. QED
    BY <1>1, PanelInvariant, PTL DEF Spec

(* The rows tell what the server holds: with no answer outstanding the     *)
(* accounts as they are, a session reported closed and a pre-booking shown *)
(* cancelled only if they are, and the newest pictures with no gap         *)
(* (AdminDashboard.jsx handleSaveUser, handleForceClose,                   *)
(* PreBookingsTab, CameraCapturesTab, get_all_captures).                   *)
THEOREM RowsTellTheTruth == Spec => []RowsTrue
<1>1. ASSUME PanelInv PROVE RowsTrue
  <2>1. ASSUME mounted, Quiet, NEW u \in User \ doubt PROVE users[u] = account[u]
    <3>1. tab = "users" /\ EditCarried(u)
      BY <1>1, <2>1 DEF PanelInv, UsersInv, RowsInv
    <3>2. Calls("users") = {}
      BY <1>1, <2>1 DEF PanelInv, ClientInv, WireOK, IsMessage, Quiet, Calls, Writes
    <3>3. Edits(u) = {}
      BY <2>1, <3>1 DEF EditCarried, Quiet, Edits, Calls
    <3>4. QED
      BY <3>1, <3>2, <3>3 DEF EditCarried
  <2>2. AccountsShownAreHeld
    BY <2>1 DEF AccountsShownAreHeld
  <2>3. CapturesWithoutGap
    <3>1. NewestFirst(captures)
      BY <1>1 DEF PanelInv, CapturesInv
    <3>2. /\ Len(captures) <= CaptureLimit
          /\ \A i \in 1 .. Len(captures) - 1 : captures[i] = captures[i + 1] + 1
          /\ Len(captures) > 0 /\ Len(captures) < CaptureLimit => captures[Len(captures)] = 1
          /\ captures \in Seq(1 .. MaxCaptures)
      BY <3>1, NewestFirstRows
    <3>3. captures # <<>> => Len(captures) > 0
      BY <3>2, EmptySeq
    <3>4. QED
      BY <3>2, <3>3 DEF CapturesWithoutGap
  <2>4. QED
    BY <1>1, <2>2, <2>3 DEF RowsTrue, PanelInv, SessionsInv, PreBookingsInv
<1>2. QED
    BY <1>1, PanelInvariant, PTL DEF Spec

-----------------------------------------------------------------------------
(* No tab waits for nothing *)

(* What no step but the one that answers it takes from a tab that waits. *)
StillHeard(c) ==
    wire[c].heard => /\ wire'[c].heard
                     /\ wire'[c].op = wire[c].op /\ wire'[c].arg = wire[c].arg

HeardKept   == \A c \in Call : StillHeard(c)
HeardBut(c) == \A d \in Call \ {c} : StillHeard(d)

Asked(op)         == Heard(op) # {}
AskedFor(op, arg) == \E c \in Heard(op) : wire[c].arg = arg
Closing(s)        == \E c \in Heard("close") : wire[c].arg.session = s
Processing(s)     == \E c \in Heard("simulate") : wire[c].arg.side = s

LEMMA StillAsked ==
    ASSUME HeardKept
    PROVE  /\ \A op : Asked(op) => Asked(op)'
           /\ \A op, arg : AskedFor(op, arg) => AskedFor(op, arg)'
           /\ \A s : Closing(s) => Closing(s)'
           /\ \A s : Processing(s) => Processing(s)'
BY DEF HeardKept, StillHeard, Asked, AskedFor, Closing, Processing, Heard

(* The answer to request c leaves what waits for others, or for other      *)
(* kinds of answers, as it was.                                            *)
LEMMA OthersAsked ==
    ASSUME NEW c \in Call, HeardBut(c)
    PROVE  /\ \A op : wire[c].op # op /\ Asked(op) => Asked(op)'
           /\ \A op, arg : (wire[c].op # op \/ wire[c].arg # arg) /\ AskedFor(op, arg)
                             => AskedFor(op, arg)'
           /\ \A s : wire[c].op # "close" /\ Closing(s) => Closing(s)'
           /\ \A s : wire[c].arg.side # s /\ Processing(s) => Processing(s)'
<1>1. \A op : wire[c].op # op /\ Asked(op) => Asked(op)'
    BY DEF HeardBut, StillHeard, Asked, Heard
<1>2. ASSUME NEW op, NEW arg, wire[c].op # op \/ wire[c].arg # arg, AskedFor(op, arg)
      PROVE  AskedFor(op, arg)'
  <2>1. PICK d \in Call : wire[d].heard /\ wire[d].op = op /\ wire[d].arg = arg
    BY <1>2 DEF AskedFor, Heard
  <2>2. d # c
    BY <1>2, <2>1
  <2>3. QED
    BY <2>1, <2>2 DEF HeardBut, StillHeard, AskedFor, Heard
<1>3. \A s : wire[c].op # "close" /\ Closing(s) => Closing(s)'
    BY DEF HeardBut, StillHeard, Closing, Heard
<1>4. ASSUME NEW s, wire[c].arg.side # s, Processing(s)
      PROVE  Processing(s)'
  <2>1. PICK d \in Call : wire[d].heard /\ wire[d].op = "simulate" /\ wire[d].arg.side = s
    BY <1>4 DEF Processing, Heard
  <2>2. d # c
    BY <1>4, <2>1
  <2>3. QED
    BY <2>1, <2>2 DEF HeardBut, StillHeard, Processing, Heard
<1>5. QED
    BY <1>1, <1>2, <1>3, <1>4

LEMMA SendHeard ==
    ASSUME ClientInv, NEW op, NEW arg, op # "idle", Send(op, arg)
    PROVE  /\ HeardKept
           /\ Asked(op)' /\ AskedFor(op, arg)'
           /\ op = "close" => Closing(arg.session)'
           /\ op = "simulate" => Processing(arg.side)'
<1>1. /\ Fresh \in Call /\ wire[Fresh].op = "idle"
      /\ wire'[Fresh].op = op /\ wire'[Fresh].arg = arg /\ wire'[Fresh].heard
      /\ \A d \in Call \ {Fresh} : wire'[d] = wire[d]
    BY SendEffect DEF ClientInv
<1>2. ~wire[Fresh].heard
    BY <1>1 DEF ClientInv, WireOK, IsMessage, Writes
<1>3. QED
    BY <1>1, <1>2 DEF HeardKept, StillHeard, Asked, AskedFor, Closing, Processing, Heard

LEMMA ReplyHeard ==
    ASSUME ClientInv, NEW c \in Call, wire[c].op # "idle",
           NEW state \in {"answered", "refused"}, NEW answer, Reply(c, state, answer)
    PROVE  HeardKept
<1>1. /\ wire[c].heard => wire'[c].op = wire[c].op /\ wire'[c].arg = wire[c].arg
      /\ wire'[c].heard = wire[c].heard
      /\ \A d \in Call \ {c} : wire'[d] = wire[d]
    BY ReplyEffect DEF ClientInv
<1>2. QED
    BY <1>1 DEF HeardKept, StillHeard

LEMMA FulfilHeard ==
    ASSUME ClientInv, NEW c \in Call, NEW op, NEW p, NEW value,
           Fulfil(c, op, p, value) \/ Drop(c, op, p)
    PROVE  HeardKept
<1>1. /\ wire'[c].op = wire[c].op /\ wire'[c].arg = wire[c].arg
      /\ wire'[c].heard = wire[c].heard
      /\ \A d \in Call \ {c} : wire'[d] = wire[d]
    BY FulfilEffect, DropEffect DEF ClientInv
<1>2. QED
    BY <1>1 DEF HeardKept, StillHeard

LEMMA TakeHeard ==
    ASSUME ClientInv, NEW c \in Call, NEW op, Take(c) \/ Rejected(c, op)
    PROVE  HeardBut(c)
BY TakeEffect, RejectedEffect DEF ClientInv, HeardBut, StillHeard

LEMMA SendAllHeard ==
    ASSUME ClientInv, NEW c \in Call, NEW op, op # "idle", NEW parts, SendAll(c, op, parts)
    PROVE  HeardBut(c)
BY SendAllEffect DEF ClientInv, HeardBut, StillHeard

LEMMA FreshHeard ==
    ASSUME ClientInv, Room, NEW op, op # "idle", NEW parts, SendAll(Fresh, op, parts)
    PROVE  HeardKept
<1>1. Fresh \in Call /\ wire[Fresh].op = "idle"
    BY FreshIsFree DEF ClientInv
<1>2. ~wire[Fresh].heard
    BY <1>1 DEF ClientInv, WireOK, IsMessage, Writes
<1>3. QED
    BY <1>1, <1>2, SendAllHeard DEF HeardKept, HeardBut, StillHeard

LEMMA WireHeard ==
    ASSUME UNCHANGED wire
    PROVE  HeardKept
BY DEF HeardKept, StillHeard

(* A tab that spins, or whose buttons are disabled, has the request it     *)
(* waits for under way and hears its answer.                               *)
HomeWaits ==
    /\ \A k \in gateLoading : AskedFor("gate", k)
    /\ overriding => Asked("override")
    /\ occupiedLoading => Asked("occupied")

SessionsWait ==
    /\ mounted /\ sessionsLoading => Asked("sessions")
    /\ closing # None => Closing(closing)

PreBookingsWait ==
    /\ mounted /\ pbLoading => Asked("bookings")
    /\ pbCancelling # None => AskedFor("cancel", pbCancelling)

WaitInv ==
    /\ tab = "home" => HomeWaits
    /\ tab = "users" /\ crediting => Asked("credit")
    /\ tab = "sessions" => SessionsWait
    /\ tab = "transactions" /\ mounted /\ txnLoading => Asked("transactions")
    /\ tab = "camera" /\ mounted /\ capturesLoading => Asked("captures")
    /\ tab = "testing" => \A s \in running : Processing(s)
    /\ tab = "prebookings" => PreBookingsWait

LEMMA HomeWaiting ==
    ASSUME ClientInv, HomeWaits, HomeNext
    PROVE  HomeWaits'
<1>1. ASSUME HeardKept, UNCHANGED <<gateLoading, overriding, occupiedLoading>>
      PROVE  HomeWaits'
    BY <1>1, StillAsked DEF HomeWaits
<1>2. ASSUME OpenPanel \/ PollBase PROVE HomeWaits'
    BY <1>1, <1>2, FreshHeard
    DEF OpenPanel, PollBase, fetchBase, homeVars, gateView, slotsView
<1>3. ASSUME LeavePanel PROVE HomeWaits'
    BY <1>3 DEF LeavePanel, HomeWaits
<1>4. ASSUME NEW t \in HomeTab, setTab(t) PROVE HomeWaits'
  <2> DEFINE kept == [c \in Call |-> IF wire[c].op = "base" THEN wire[c] ELSE Forgotten(wire[c])]
  <2>1. gateLoading' = {} /\ overriding' = FALSE /\ (occupiedLoading' <=> t = "slots")
    BY <1>4 DEF setTab
  <2>2. ASSUME t = "slots" PROVE Asked("occupied")'
    <3>1. PICK c \in Call : wire' = [kept EXCEPT ![c] = Request("occupied", None)]
      BY <1>4, <2>2 DEF setTab
    <3>2. wire'[c] = Request("occupied", None)
      BY <3>1
    <3>3. wire'[c].op = "occupied" /\ wire'[c].heard
      BY <3>2 DEF Request
    <3>4. QED
      BY <3>3 DEF Asked, Heard
  <2>3. QED
    BY <2>1, <2>2 DEF HomeWaits
<1>5. ASSUME NEW k \in Command, sendGate(k) PROVE HomeWaits'
    BY <1>5, SendHeard, StillAsked DEF sendGate, slotsView, HomeWaits
<1>6. ASSUME NEW s \in Slot, NEW status \in SlotStatus, override(s, status) PROVE HomeWaits'
    BY <1>6, SendHeard, StillAsked DEF override, gateView, HomeWaits
<1>7. ASSUME OccupiedRefresh PROVE HomeWaits'
    BY <1>7, SendHeard, StillAsked DEF OccupiedRefresh, gateView, HomeWaits
<1>8. ASSUME LotMoves PROVE HomeWaits'
    BY <1>1, <1>8, WireHeard DEF LotMoves, gateView, slotsView
<1>9. ASSUME NEW c \in Call, BaseSettled(c) PROVE HomeWaits'
    BY <1>9, TakeHeard, OthersAsked DEF BaseSettled, Settled, gateView, slotsView, HomeWaits
<1>10. ASSUME NEW c \in Call, GateAnswered(c) PROVE HomeWaits'
    BY <1>10, TakeHeard, OthersAsked DEF GateAnswered, slotsView, HomeWaits
<1>11. ASSUME NEW c \in Call, Overridden(c) PROVE HomeWaits'
  <2>1. /\ wire[c].op = "override" /\ overriding' = FALSE
        /\ SendAll(c, "base", Base) \/ Rejected(c, "override")
        /\ UNCHANGED <<gateLoading, occupiedLoading>>
    BY <1>11 DEF Overridden, Answered, Rejected, fetchBase, gateView
  <2>2. HeardBut(c)
    BY <2>1, SendAllHeard, TakeHeard
  <2>3. QED
    BY <2>1, <2>2, OthersAsked DEF HomeWaits
<1>12. ASSUME NEW c \in Call, OccupiedLoaded(c) PROVE HomeWaits'
  <2>1. /\ wire[c].op = "occupied" /\ occupiedLoading' = FALSE
        /\ Take(c) \/ Rejected(c, "occupied")
        /\ UNCHANGED <<gateLoading, overriding>>
    BY <1>12 DEF OccupiedLoaded, Answered, Rejected, gateView
  <2>2. QED
    BY <2>1, TakeHeard, OthersAsked DEF HomeWaits
<1>13. ASSUME NEW c \in Call, ServeGate(c) \/ ServeOverride(c) \/ ServeOccupied(c)
       PROVE  HomeWaits'
  <2>1. HeardKept
    BY <1>13, ReplyHeard DEF ServeGate, ServeOverride, ServeOccupied, Sent
  <2>2. UNCHANGED <<gateLoading, overriding, occupiedLoading>>
    BY <1>13 DEF ServeGate, ServeOverride, ServeOccupied, homeVars, gateView, slotsView
  <2>3. QED
    BY <1>1, <2>1, <2>2
<1>14. ASSUME NEW c \in Call, NEW p \in Base, ServeBase(c, p) \/ FailBase(c, p)
       PROVE  HomeWaits'
    BY <1>1, <1>14, FulfilHeard DEF ServeBase, FailBase, homeVars, gateView, slotsView
<1>15. QED
    BY <1>2, <1>3, <1>4, <1>5, <1>6, <1>7, <1>8, <1>9, <1>10, <1>11, <1>12, <1>13, <1>14
    DEF HomeNext, HomeAnswer, HomeServe

LEMMA UsersWaiting ==
    ASSUME ClientInv, crediting => Asked("credit"), UsersNext
    PROVE  crediting' => Asked("credit")'
<1> DEFINE Waiting == crediting' => Asked("credit")'
<1>1. ASSUME HeardKept, crediting' = crediting PROVE Waiting
    BY <1>1, StillAsked
<1>2. ASSUME OpenUsers PROVE Waiting
    BY <1>1, <1>2, SendHeard DEF OpenUsers
<1>3. ASSUME LeaveUsers \/ closeDetail PROVE Waiting
    BY <1>3 DEF LeaveUsers, closeDetail
<1>4. ASSUME NEW u \in User, startEdit(u) \/ AccountChanges(u) PROVE Waiting
    BY <1>1, <1>4, WireHeard DEF startEdit, AccountChanges
<1>5. ASSUME NEW u \in User, remove(u) \/ openDetail(u) PROVE Waiting
    BY <1>1, <1>5, SendHeard DEF remove, openDetail
<1>6. ASSUME (\E n \in Name : rename(n)) \/ tick \/ cancelEdit \/ typeAmount PROVE Waiting
    BY <1>1, <1>6, WireHeard DEF rename, tick, setEditForm, cancelEdit, typeAmount
<1>7. ASSUME save PROVE Waiting
    BY <1>1, <1>7, SendHeard DEF save
<1>8. ASSUME pressCredit \/ pressEnter PROVE Waiting
    BY <1>8, SendHeard DEF pressCredit, pressEnter, handleCredit
<1>9. ASSUME NEW c \in Call, Credited(c) PROVE Waiting
    BY <1>9 DEF Credited
<1>10. ASSUME NEW c \in Call,
              UsersLoaded(c) \/ SaveAnswered(c) \/ RemoveAnswered(c) \/ DetailLoaded(c)
       PROVE  Waiting
  <2>1. /\ wire[c].op # "credit" /\ crediting' = crediting
        /\ Take(c) \/ \E op : Rejected(c, op)
    BY <1>10
    DEF UsersLoaded, SaveAnswered, RemoveAnswered, DetailLoaded, Answered, Rejected
  <2>2. HeardBut(c)
    BY <2>1, TakeHeard
  <2>3. QED
    BY <2>1, <2>2, OthersAsked
<1>11. ASSUME NEW c \in Call, UsersServe(c) PROVE Waiting
  <2>1. crediting' = crediting
    BY <1>11 DEF UsersServe, ServeUsers, update_user, delete_user, get_user_detail,
       admin_credit_wallet, usersVars, userView
  <2>2. /\ wire[c].op # "idle"
          /\ \E state \in {"answered", "refused"} : \E answer : Reply(c, state, answer)
    BY <1>11 DEF UsersServe, ServeUsers, update_user, delete_user, get_user_detail,
       admin_credit_wallet, Sent
  <2>3. HeardKept
    BY <2>2, ReplyHeard
  <2>4. QED
    BY <1>1, <2>1, <2>3
<1>12. QED
    BY <1>2, <1>3, <1>4, <1>5, <1>6, <1>7, <1>8, <1>9, <1>10, <1>11
    DEF UsersNext, UsersAnswer

LEMMA SessionsWaiting ==
    ASSUME ClientInv, SessionsWait, SessionsNext
    PROVE  SessionsWait'
<1>1. ASSUME HeardKept, UNCHANGED <<mounted, sessionsLoading, closing>> PROVE SessionsWait'
    BY <1>1, StillAsked DEF SessionsWait
<1>2. ASSUME OpenSessions PROVE SessionsWait'
    BY <1>2, SendHeard, StillAsked DEF OpenSessions, sessionsVars, SessionsWait
<1>3. ASSUME LeaveSessions PROVE SessionsWait'
    BY <1>3 DEF LeaveSessions, Unmount, SessionsWait
<1>4. ASSUME (\E f \in StatusFilter : setStatusFilter(f)) \/ RefreshSessions
      PROVE  SessionsWait'
    BY <1>4, SendHeard, StillAsked
    DEF setStatusFilter, RefreshSessions, fetchSessions, SessionsWait
<1>5. ASSUME NEW s \in Session, handleClose(s) PROVE SessionsWait'
  <2>1. /\ HeardKept /\ Closing(s)'
        /\ closing' = s /\ UNCHANGED <<mounted, sessionsLoading>>
    BY <1>5, SendHeard DEF handleClose
  <2>2. QED
    BY <2>1, StillAsked DEF SessionsWait
<1>6. ASSUME NEW s \in Session, GateMoves(s) PROVE SessionsWait'
    BY <1>1, <1>6, WireHeard DEF GateMoves, sessionsView
<1>7. ASSUME NEW c \in Call, SessionsLoaded(c) PROVE SessionsWait'
  <2>1. /\ wire[c].op = "sessions" /\ sessionsLoading' = FALSE /\ closing' = closing
        /\ Take(c) \/ Rejected(c, "sessions")
    BY <1>7 DEF SessionsLoaded, Answered, Rejected
  <2>2. QED
    BY <2>1, TakeHeard, OthersAsked DEF SessionsWait
<1>8. ASSUME NEW c \in Call, SessionClosed(c) PROVE SessionsWait'
  <2> DEFINE m == Request("sessions", [session |-> None, filter |-> wire[c].arg.filter])
  <2>1. wire' = [wire EXCEPT ![c] = m] /\ closing' = None
    BY <1>8 DEF SessionClosed
  <2>2. m.op = "sessions" /\ m.heard
    BY DEF Request
  <2> HIDE DEF m
  <2>3. wire'[c] = m
    BY <2>1 DEF ClientInv, WireOK
  <2>4. QED
    BY <2>1, <2>2, <2>3 DEF SessionsWait, Asked, Heard
<1>9. ASSUME NEW c \in Call, CloseFailed(c) PROVE SessionsWait'
  <2>1. /\ wire[c].op = "close" /\ Rejected(c, "close") /\ closing' = None
        /\ UNCHANGED <<mounted, sessionsLoading>>
    BY <1>9 DEF CloseFailed, Rejected
  <2>2. QED
    BY <2>1, TakeHeard, OthersAsked DEF SessionsWait
<1>10. ASSUME NEW c \in Call, SessionsServe(c) PROVE SessionsWait'
  <2>1. HeardKept
    BY <1>10, ReplyHeard DEF SessionsServe, list_sessions, force_close_session, Sent
  <2>2. UNCHANGED <<mounted, sessionsLoading, closing>>
    BY <1>10
    DEF SessionsServe, list_sessions, force_close_session, sessionsVars, sessionsView
  <2>3. QED
    BY <1>1, <2>1, <2>2
<1>11. QED
    BY <1>2, <1>3, <1>4, <1>5, <1>6, <1>7, <1>8, <1>9, <1>10 DEF SessionsNext, SessionsAnswer

LEMMA TransactionsWaiting ==
    ASSUME ClientInv, mounted /\ txnLoading => Asked("transactions"), TransactionsNext
    PROVE  mounted' /\ txnLoading' => Asked("transactions")'
<1> DEFINE Waiting == mounted' /\ txnLoading' => Asked("transactions")'
<1>1. ASSUME HeardKept, UNCHANGED <<mounted, txnLoading>> PROVE Waiting
    BY <1>1, StillAsked
<1>2. ASSUME OpenTransactions PROVE Waiting
    BY <1>2, SendHeard DEF OpenTransactions
<1>3. ASSUME LeaveTransactions PROVE Waiting
    BY <1>3 DEF LeaveTransactions, Unmount
<1>4. ASSUME \/ \E f \in Filter : resetPage(f)
             \/ clearFilters \/ RefreshTxns
             \/ \E p \in PagesOffered : setPage(p)
      PROVE  Waiting
    BY <1>4, SendHeard DEF resetPage, clearFilters, setPage, RefreshTxns, fetchTxns
<1>5. ASSUME \/ \E f \in Filter : LedgerChanges(f)
             \/ \E shown \in BOOLEAN : setSelected(shown)
      PROVE  Waiting
    BY <1>1, <1>5, WireHeard DEF LedgerChanges, setSelected, txnsView
<1>6. ASSUME NEW c \in Call, TxnsLoaded(c) PROVE Waiting
    BY <1>6 DEF TxnsLoaded
<1>7. ASSUME NEW c \in Call, list_transactions(c) PROVE Waiting
  <2>1. HeardKept
    BY <1>7, ReplyHeard DEF list_transactions, Sent
  <2>2. QED
    BY <1>1, <1>7, <2>1 DEF list_transactions, txnsVars
<1>8. QED
    BY <1>2, <1>3, <1>4, <1>5, <1>6, <1>7
    DEF TransactionsNext, TransactionsAnswer, TransactionsServe

LEMMA CapturesWaiting ==
    ASSUME ClientInv, mounted /\ capturesLoading => Asked("captures"), CapturesNext
    PROVE  mounted' /\ capturesLoading' => Asked("captures")'
<1> DEFINE Waiting == mounted' /\ capturesLoading' => Asked("captures")'
<1>1. ASSUME HeardKept, UNCHANGED <<mounted, capturesLoading>> PROVE Waiting
    BY <1>1, StillAsked
<1>2. ASSUME OpenCaptures \/ loadCaptures PROVE Waiting
    BY <1>2, SendHeard DEF OpenCaptures, loadCaptures
<1>3. ASSUME LeaveCaptures PROVE Waiting
    BY <1>3 DEF LeaveCaptures, Unmount
<1>4. ASSUME NEW f, setCaptureFilter(f) PROVE Waiting
    BY <1>1, <1>4, WireHeard DEF setCaptureFilter
<1>5. ASSUME NEW n, setLightbox(n) PROVE Waiting
    BY <1>1, <1>5, WireHeard DEF setLightbox
<1>6. ASSUME NEW s \in Side, Captured(s) PROVE Waiting
    BY <1>1, <1>6, WireHeard DEF Captured, capturesView
<1>7. ASSUME NEW c \in Call, CapturesLoaded(c) PROVE Waiting
    BY <1>7 DEF CapturesLoaded
<1>8. ASSUME NEW c \in Call, ServeCaptures(c) PROVE Waiting
  <2>1. HeardKept
    BY <1>8, ReplyHeard DEF ServeCaptures, Sent
  <2>2. QED
    BY <1>1, <1>8, <2>1 DEF ServeCaptures, capturesVars, capturesView
<1>9. QED
    BY <1>2, <1>3, <1>4, <1>5, <1>6, <1>7, <1>8
    DEF CapturesNext, CapturesAnswer, CapturesServe

LEMMA TestingWaiting ==
    ASSUME ClientInv, \A s \in running : Processing(s), TestingNext
    PROVE  \A s \in running' : Processing(s)'
<1> DEFINE Waiting == \A s \in running' : Processing(s)'
<1>1. ASSUME HeardKept, running' = running PROVE Waiting
    BY <1>1, StillAsked
<1>2. ASSUME OpenTesting PROVE Waiting
    BY <1>1, <1>2, WireHeard DEF OpenTesting, testingVars
<1>3. ASSUME LeaveTesting PROVE Waiting
    BY <1>3 DEF LeaveTesting
<1>4. ASSUME NEW s \in Card, onSimulate(s) PROVE Waiting
  <2>1. /\ HeardKept /\ Processing(s)' /\ running' = running \cup {s}
    BY <1>4, SendHeard DEF onSimulate
  <2>2. QED
    BY <2>1, StillAsked
<1>5. ASSUME NEW s \in Card, NEW p, choose(s, p) PROVE Waiting
    BY <1>1, <1>5, WireHeard DEF choose
<1>6. ASSUME NEW c \in Call, Simulated(c) PROVE Waiting
  <2>1. /\ Take(c) \/ Rejected(c, "simulate")
        /\ running' = running \ {wire[c].arg.side}
    BY <1>6 DEF Simulated
  <2>2. QED
    BY <2>1, TakeHeard, OthersAsked
<1>7. ASSUME NEW c \in Call, simulate(c) PROVE Waiting
  <2>1. HeardKept
    BY <1>7, ReplyHeard DEF simulate, Sent
  <2>2. QED
    BY <1>1, <1>7, <2>1 DEF simulate, testingVars
<1>8. QED
    BY <1>2, <1>3, <1>4, <1>5, <1>6, <1>7 DEF TestingNext

LEMMA PreBookingsWaiting ==
    ASSUME ClientInv, PreBookingsWait, PreBookingsNext
    PROVE  PreBookingsWait'
<1>1. ASSUME HeardKept, UNCHANGED <<mounted, pbLoading, pbCancelling>> PROVE PreBookingsWait'
    BY <1>1, StillAsked DEF PreBookingsWait
<1>2. ASSUME OpenPreBookings PROVE PreBookingsWait'
  <2>1. Send("bookings", None) /\ UNCHANGED <<pbLoading, pbCancelling>>
    BY <1>2, PageClient DEF OpenPreBookings, Page!OpenBookings, Page!bookingVars
  <2>2. QED
    BY <2>1, SendHeard, StillAsked DEF PreBookingsWait
<1>3. ASSUME LeavePreBookings PROVE PreBookingsWait'
  <2>1. Unmount /\ pbCancelling' = None
    BY <1>3, PageClient DEF LeavePreBookings, Page!LeaveBookings
  <2>2. QED
    BY <2>1 DEF Unmount, PreBookingsWait
<1>4. ASSUME NEW f, setFilter(f) PROVE PreBookingsWait'
    BY <1>1, <1>4, WireHeard DEF setFilter, clientVars, pbList
<1>5. ASSUME loadPreBookings PROVE PreBookingsWait'
  <2>1. Send("bookings", None) /\ UNCHANGED <<mounted, pbCancelling>>
    BY <1>5, PageClient DEF loadPreBookings, Page!Refresh
  <2>2. QED
    BY <2>1, SendHeard, StillAsked DEF PreBookingsWait
<1>6. ASSUME NEW b \in Booking, cancelPreBooking(b) PROVE PreBookingsWait'
  <2>1. Send("cancel", b) /\ pbCancelling' = b /\ UNCHANGED <<mounted, pbLoading>>
    BY <1>6, PageClient DEF cancelPreBooking, Page!handleCancel
  <2>2. QED
    BY <2>1, SendHeard, StillAsked DEF PreBookingsWait
<1>7. ASSUME NEW b \in Booking, Page!BookedElsewhere(b) PROVE PreBookingsWait'
    BY <1>1, <1>7, WireHeard DEF Page!BookedElsewhere, Page!bookingView
<1>8. ASSUME NEW c \in Call, PreBookingsAnswer(c) PROVE PreBookingsWait'
  <2>1. CASE Page!Loaded(c)
    <3>1. /\ wire[c].op = "bookings" /\ (Take(c) \/ Rejected(c, "bookings"))
          /\ pbLoading' = FALSE /\ pbCancelling' = pbCancelling
      BY <2>1, PageClient DEF Page!Loaded, Answered, Rejected
    <3>2. QED
      BY <3>1, TakeHeard, OthersAsked DEF PreBookingsWait
  <2>2. CASE Page!Cancelled(c) \/ Page!CancelFailed(c)
    <3>1. /\ wire[c].op = "cancel" /\ (Take(c) \/ Rejected(c, "cancel"))
          /\ pbCancelling' = None /\ UNCHANGED <<mounted, pbLoading>>
      BY <2>2, PageClient DEF Page!Cancelled, Page!CancelFailed, Answered, Rejected
    <3>2. QED
      BY <3>1, TakeHeard, OthersAsked DEF PreBookingsWait
  <2>3. QED
    BY <1>8, <2>1, <2>2 DEF PreBookingsAnswer, Page!BookingsAnswer
<1>9. ASSUME NEW c \in Call, PreBookingsServe(c) PROVE PreBookingsWait'
  <2>1. /\ wire[c].op \in {"bookings", "cancel"}
        /\ \/ Reply(c, "answered", preBooking) \/ Reply(c, "answered", None)
           \/ Reply(c, "refused", None)
        /\ UNCHANGED <<mounted, pbLoading, pbCancelling>>
    BY <1>9, PageClient DEF PreBookingsServe, Page!BookingsServe, Page!ServeBookings,
       Page!ServeCancel, Page!bookingVars, Page!bookingView, Sent
  <2>2. QED
    BY <1>1, <2>1, ReplyHeard
<1>10. QED
    BY <1>2, <1>3, <1>4, <1>5, <1>6, <1>7, <1>8, <1>9 DEF PreBookingsNext

LEMMA WaitInvNext ==
    ASSUME ClientInv, WaitInv, Next
    PROVE  WaitInv'
BY HomeWaiting, UsersWaiting, SessionsWaiting, TransactionsWaiting, CapturesWaiting,
   TestingWaiting, PreBookingsWaiting DEF Next, WaitInv, Others

(* What a tab spins for. *)
SpinsFor(t) ==
    CASE t = "home"         -> {"gate", "override", "occupied"}
      [] t = "users"        -> {"credit"}
      [] t = "sessions"     -> {"sessions", "close"}
      [] t = "transactions" -> {"transactions"}
      [] t = "camera"       -> {"captures"}
      [] t = "testing"      -> {"simulate"}
      [] t = "prebookings"  -> {"bookings", "cancel"}

(* A tab that spins, or a button that is disabled while it waits, has its  *)
(* own request under way and hears its answer (admin-app/src): there is    *)
(* always something left that ends it, the answer or the 15 s of           *)
(* api/client.js, whatever was clicked, left or answered late before.      *)
THEOREM SpinnersHaveRequests ==
    Spec => [](Busy => \E c \in Call : wire[c].op \in SpinsFor(tab) /\ wire[c].heard)
<1>1. Init => WaitInv
    BY DEF Init, ClientInit, HomeInit, UsersInit, SessionsInit, TransactionsInit, CapturesInit,
       TestingInit, PreBookingsInit, Page!BookingsInit, WaitInv, HomeWaits, SessionsWait,
       PreBookingsWait
<1>2. ClientInv /\ WaitInv /\ [Next]_vars => WaitInv'
  <2>1. ASSUME WaitInv, UNCHANGED vars PROVE WaitInv'
    BY <2>1
    DEF WaitInv, HomeWaits, SessionsWait, PreBookingsWait, Asked, AskedFor, Closing, Processing,
        Heard, vars, clientVars, homeVars, gateView, slotsView, usersVars, userView,
        sessionsVars, txnsVars, capturesVars, capturesView, testingVars, pbVars, pbList
  <2>2. QED
    BY <2>1, WaitInvNext
<1>3. WaitInv => (Busy => \E c \in Call : wire[c].op \in SpinsFor(tab) /\ wire[c].heard)
    BY DEF WaitInv, HomeWaits, SessionsWait, PreBookingsWait, Busy, Asked, AskedFor, Closing,
       Processing, Heard, SpinsFor
<1>4. PanelInv => ClientInv
    BY DEF PanelInv
<1>5. QED
    BY <1>1, <1>2, <1>3, <1>4, PanelInvariant, PTL DEF Spec
=============================================================================
