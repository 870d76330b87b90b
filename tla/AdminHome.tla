------------------------------ MODULE AdminHome ------------------------------
(***************************************************************************)
(* The admin panel itself and its tabs "Overview" and "Slots"              *)
(* (admin-app, pages/AdminDashboard.jsx).  The panel polls statistics,     *)
(* slots and last captures every 10 s whatever tab is shown; Overview has  *)
(* the four gate buttons, Slots the manual override and the table of       *)
(* parked vehicles, which loads by itself and is not polled.               *)
(***************************************************************************)
EXTENDS Client

CONSTANTS Slot, SlotStatus, Gate

ASSUME AdminHomeAssumption == {"available", "occupied"} \subseteq SlotStatus

VARIABLES
    slot,             \* the server: status of every slot
    news,             \* the server: statistics and captures, one of two versions
    gate,             \* the last command each gate's board took, None at first
    slots,            \* the page's slots
    stats,            \* the page: the version it shows, None at first
    homeTab,          \* "overview", "slots", or "other": a tab of another module
    gateLoading,      \* the gate buttons that are disabled
    clicked,          \* history: the last command clicked for each gate
    gateDoubt,        \* history: gates with overlapping or undelivered commands
    overriding,       \* SlotsTab's loading: all override buttons are disabled
    occupied,         \* the rows of the table of parked vehicles: their slots
    occupiedLoading

serverView == <<slot, news, gate>>
baseView   == <<slots, stats>>
gateView   == <<gateLoading, clicked, gateDoubt>>
slotsView  == <<overriding, occupied, occupiedLoading>>
homeVars   == <<serverView, baseView, homeTab, gateView, slotsView>>

HomeTab == {"overview", "slots", "other"}
Action  == {"open", "close"}
Command == [gate : Gate, action : Action]
Base    == {"slots", "stats"}

HomeInit ==
    /\ slot \in [Slot -> {"available", "occupied"}]
    /\ news = FALSE
    /\ gate = [g \in Gate |-> None]
    /\ slots = None
    /\ stats = None
    /\ homeTab = "overview"
    /\ gateLoading = {}
    /\ clicked = [g \in Gate |-> None]
    /\ gateDoubt = {}
    /\ overriding = FALSE
    /\ occupied = {}
    /\ occupiedLoading = FALSE

\* fetchBase reads all at once.
fetchBase(c) == SendAll(c, "base", Base)

OpenPanel ==
    /\ ~mounted /\ mounted' = TRUE
    /\ Spend
    /\ Room /\ fetchBase(Fresh)
    /\ UNCHANGED homeVars

\* The fields start again from their first values when it is next opened.
LeavePanel ==
    /\ Unmount
    /\ slots' = None
    /\ stats' = None
    /\ homeTab' = "overview"
    /\ gateLoading' = {}
    /\ clicked' = [g \in Gate |-> None]
    /\ gateDoubt' = {}
    /\ overriding' = FALSE
    /\ occupied' = {}
    /\ occupiedLoading' = FALSE
    /\ UNCHANGED serverView

\* The timer, or the Refresh button beside the title.
PollBase ==
    /\ mounted
    /\ Room /\ fetchBase(Fresh)
    /\ UNCHANGED <<moves, mounted, homeVars>>

ServeBase(c, p) ==
    /\ Fulfil(c, "base", p, IF p = "slots" THEN slot ELSE news)
    /\ UNCHANGED <<moves, mounted, homeVars>>

FailBase(c, p) ==
    /\ Drop(c, "base", p)
    /\ Spend
    /\ UNCHANGED <<mounted, homeVars>>

BaseSettled(c) ==
    /\ Settled(c, "base")
    /\ Take(c)
    /\ slots' = Brought(c, "slots", slots)
    /\ stats' = Brought(c, "stats", stats)
    /\ UNCHANGED <<moves, mounted, serverView, homeTab, gateView, slotsView>>

\* The other tab is mounted anew, what the old one waited for is forgotten;
\* the table of parked vehicles loads when Slots is shown.
setTab(t) ==
    /\ mounted /\ t # homeTab
    /\ Spend
    /\ homeTab' = t
    /\ LET kept == [c \in Call |-> IF wire[c].op = "base" THEN wire[c] ELSE Forgotten(wire[c])]
           free == {c \in Call : kept[c].state = "free"}
       IN  IF t = "slots"
           THEN \E c \in free : wire' = [kept EXCEPT ![c] = Request("occupied", None)]
           ELSE wire' = kept
    /\ gateLoading' = {}
    /\ clicked' = [g \in Gate |-> None]
    /\ gateDoubt' = {}
    /\ overriding' = FALSE
    /\ occupied' = {}
    /\ occupiedLoading' = (t = "slots")
    /\ UNCHANGED <<mounted, serverView, baseView>>

(* Overview *)

GateOffered(k) == mounted /\ homeTab = "overview" /\ k \notin gateLoading

\* Each of the four buttons is disabled by its own request only.
sendGate(k) ==
    /\ GateOffered(k)
    /\ Spend
    /\ Send("gate", k)
    /\ gateLoading' = gateLoading \cup {k}
    /\ clicked' = [clicked EXCEPT ![k.gate] = k.action]
    /\ gateDoubt' = IF \E c \in Call : wire[c].op = "gate" /\ wire[c].arg.gate = k.gate
                    THEN gateDoubt \cup {k.gate} ELSE gateDoubt
    /\ UNCHANGED <<mounted, serverView, baseView, homeTab, slotsView>>

\* The toast says "sent" or "unreachable"; both are a success to the page.
GateAnswered(c) ==
    /\ wire[c].op = "gate"
    /\ \/ Answered(c, "gate") /\ Take(c) /\ UNCHANGED gateDoubt
       \/ Rejected(c, "gate") /\ gateDoubt' = gateDoubt \cup {wire[c].arg.gate}
    /\ gateLoading' = gateLoading \ {wire[c].arg}
    /\ UNCHANGED <<moves, mounted, serverView, baseView, homeTab, clicked, slotsView>>

\* Mutant of ServeGate: answers without calling the board.
MutantServeGate(c) ==
    /\ Sent(c, "gate")
    /\ Reply(c, "answered", "sent")
    /\ UNCHANGED <<moves, mounted, homeVars>>

\* POST /admin/gate-control: no board known is a 503; the board that is
\* called takes the command or is not reached within 5 s.
ServeGate(c) ==
    /\ Sent(c, "gate")
    /\ LET k == wire[c].arg
       IN  \/ /\ gate' = [gate EXCEPT ![k.gate] = k.action]
              /\ Reply(c, "answered", "sent")
              /\ UNCHANGED gateDoubt
           \/ /\ gateDoubt' = gateDoubt \cup (IF wire[c].heard THEN {k.gate} ELSE {})
              /\ Reply(c, "answered", "unreachable")
              /\ UNCHANGED gate
           \/ Reply(c, "refused", None) /\ UNCHANGED <<gate, gateDoubt>>
    /\ UNCHANGED <<moves, mounted, slot, news, baseView, homeTab, gateLoading, clicked, slotsView>>

(* Slots *)

Listed == IF slots = None THEN {} ELSE Slot
OverrideOffered(s, status) ==
    /\ mounted /\ homeTab = "slots"
    /\ s \in Listed /\ ~overriding /\ slots[s] # status

override(s, status) ==
    /\ OverrideOffered(s, status)
    /\ Spend
    /\ Send("override", [slot |-> s, status |-> status])
    /\ overriding' = TRUE
    /\ UNCHANGED <<mounted, serverView, baseView, homeTab, gateView, occupied, occupiedLoading>>

\* A success calls onRefresh, which is fetchBase, and does not wait for it.
Overridden(c) ==
    /\ \/ Answered(c, "override") /\ fetchBase(c)
       \/ Rejected(c, "override")
    /\ overriding' = FALSE
    /\ UNCHANGED <<moves, mounted, serverView, baseView, homeTab, gateView,
                   occupied, occupiedLoading>>

ServeOverride(c) ==
    /\ Sent(c, "override")
    /\ slot' = [slot EXCEPT ![wire[c].arg.slot] = wire[c].arg.status]
    /\ Reply(c, "answered", None)
    /\ UNCHANGED <<moves, mounted, news, gate, baseView, homeTab, gateView, slotsView>>

\* Refresh is drawn above rows only: a table that loaded empty, or failed to
\* load, offers nothing until the tab is shown again.
OccupiedScreen ==
    IF occupiedLoading THEN "spinner"
    ELSE IF occupied = {} THEN "No vehicles currently parked" ELSE "table"

OccupiedRefresh ==
    /\ mounted /\ homeTab = "slots" /\ OccupiedScreen = "table"
    /\ Spend
    /\ Send("occupied", None)
    /\ occupiedLoading' = TRUE
    /\ UNCHANGED <<mounted, serverView, baseView, homeTab, gateView, overriding, occupied>>

OccupiedLoaded(c) ==
    /\ \/ Answered(c, "occupied") /\ Take(c) /\ occupied' = wire[c].answer
       \/ Rejected(c, "occupied") /\ UNCHANGED occupied
    /\ occupiedLoading' = FALSE
    /\ UNCHANGED <<moves, mounted, serverView, baseView, homeTab, gateView, overriding>>

\* GET /admin/slots/occupied: the slots of the active sessions.
ServeOccupied(c) ==
    /\ Sent(c, "occupied")
    /\ Reply(c, "answered", {s \in Slot : slot[s] = "occupied"})
    /\ UNCHANGED <<moves, mounted, homeVars>>

\* Gates, users and other administrators.
LotMoves ==
    /\ Spend
    /\ news' = ~news
    /\ \E s \in Slot, new \in SlotStatus : slot' = [slot EXCEPT ![s] = new]
    /\ UNCHANGED <<wire, mounted, gate, baseView, homeTab, gateView, slotsView>>

HomeAnswer(c) == BaseSettled(c) \/ GateAnswered(c) \/ Overridden(c) \/ OccupiedLoaded(c)
HomeServe(c)  == \/ ServeGate(c) \/ ServeOverride(c) \/ ServeOccupied(c)
                 \/ \E p \in Base : ServeBase(c, p)

HomeNext ==
    \/ OpenPanel
    \/ LeavePanel
    \/ PollBase
    \/ \E t \in HomeTab : setTab(t)
    \/ \E k \in Command : sendGate(k)
    \/ \E s \in Slot, status \in SlotStatus : override(s, status)
    \/ OccupiedRefresh
    \/ LotMoves
    \/ \E c \in Call : HomeAnswer(c) \/ HomeServe(c) \/ \E p \in Base : FailBase(c, p)

HomeTypeOK ==
    /\ slot \in [Slot -> SlotStatus]
    /\ slots \in [Slot -> SlotStatus] \cup {None}
    /\ news \in BOOLEAN /\ stats \in BOOLEAN \cup {None}
    /\ gate \in [Gate -> Action \cup {None}] /\ clicked \in [Gate -> Action \cup {None}]
    /\ homeTab \in HomeTab
    /\ gateLoading \subseteq Command
    /\ gateDoubt \subseteq Gate
    /\ occupied \subseteq Slot
    /\ {overriding, occupiedLoading} \subseteq BOOLEAN

(***************************************************************************)
(* When no gate request is outstanding each gate has taken the command     *)
(* clicked last, unless two commands to it overlapped (Open and Close are  *)
(* two buttons, each disabled by itself only) or one was not delivered.    *)
(***************************************************************************)
GateFollowsLastClick ==
    mounted /\ ~Awaits("gate") =>
        \A g \in Gate \ gateDoubt : clicked[g] # None => gate[g] = clicked[g]
=============================================================================
