------------------------------- MODULE Client -------------------------------
(***************************************************************************)
(* What every page of both web apps shares: the HTTP client they call      *)
(* (api/client.js, axios with a 15 s timeout) and the life of the          *)
(* component that waits for the answer.                                    *)
(*                                                                         *)
(* A request is answered in two steps: the server serves it (and may       *)
(* change its tables then), and later the page takes the answer, so that   *)
(* answers may be taken in another order than they were given.  A page     *)
(* may give up on a request (timeout, lost connection) that the server     *)
(* still carries out; a page that is left takes no answer any more.        *)
(***************************************************************************)
EXTENDS Naturals, FiniteSets

CONSTANTS
    Call,      \* the requests a browser may have under way at once
    None,      \* the null of the code
    MaxMoves   \* bound: clicks, visits, losses and outside changes

ASSUME ClientAssumption == MaxMoves \in Nat

VARIABLES
    wire,      \* wire[c]: the request under way as number c
    moves,     \* moves spent
    mounted    \* the page is on the screen

clientVars == <<wire, moves, mounted>>

\* Requests that change the server's tables; the others only read.
Writes == {"cancel", "topup", "addVehicle", "deleteVehicle", "book", "prebook",
           "gate", "override", "credit", "update", "remove", "close", "simulate"}

Idle == [op |-> "idle", arg |-> None, open |-> {}, answer |-> None,
         state |-> "free", heard |-> FALSE]

Request(op, arg) == [op |-> op, arg |-> arg, open |-> {}, answer |-> None,
                     state |-> "sent", heard |-> TRUE]

\* Promise.allSettled over several reads: open holds the reads not settled,
\* answer what the others brought.
Requests(op, parts) == [op |-> op, arg |-> None, open |-> parts,
                        answer |-> [p \in parts |-> None],
                        state |-> "sent", heard |-> TRUE]

Room  == \E c \in Call : wire[c].state = "free"
Fresh == CHOOSE c \in Call : wire[c].state = "free"

\* The page has a request op under way and waits for its answer.
Awaits(op) == \E c \in Call : wire[c].op = op /\ wire[c].heard
Quiet == \A c \in Call : ~wire[c].heard

Spend == moves < MaxMoves /\ moves' = moves + 1

\* api.get, api.post ...: the request leaves the browser.
Send(op, arg) == Room /\ wire' = [wire EXCEPT ![Fresh] = Request(op, arg)]

\* The reads leave together, as request c (after the answer that was there).
SendAll(c, op, parts) == wire' = [wire EXCEPT ![c] = Requests(op, parts)]

\* One of them is answered, or fails.
Fulfil(c, op, p, value) ==
    /\ wire[c].op = op /\ p \in wire[c].open
    /\ wire' = [wire EXCEPT ![c].open = @ \ {p}, ![c].answer[p] = value]

Drop(c, op, p) ==
    /\ wire[c].op = op /\ p \in wire[c].open
    /\ wire' = [wire EXCEPT ![c].open = @ \ {p}]

\* All are settled: what part p brought, or what was there before.
Settled(c, op) == wire[c].op = op /\ wire[c].open = {}
\* Mutant of Brought: takes the value of a read that was rejected.
MutantBrought(c, p, old) ==
    wire[c].answer[p]

Brought(c, p, old) == IF wire[c].answer[p] = None THEN old ELSE wire[c].answer[p]

\* The server answers; nobody may be waiting any more.
Reply(c, state, answer) ==
    wire' = [wire EXCEPT ![c] =
               IF @.heard THEN [@ EXCEPT !.state = state, !.answer = answer] ELSE Idle]

Sent(c, op)     == wire[c].op = op /\ wire[c].state = "sent"
Answered(c, op) == wire[c].op = op /\ wire[c].state = "answered"
Take(c)         == wire' = [wire EXCEPT ![c] = Idle]

\* What is left of a request nobody waits for: the server may still get it.
Forgotten(m) ==
    IF m.state = "sent" /\ m.op \in Writes THEN [m EXCEPT !.heard = FALSE] ELSE Idle

\* The promise of request op is rejected: the server refused, or the
\* timeout of 15 s or a broken connection ended the wait.
Rejected(c, op) ==
    /\ wire[c].op = op
    /\ wire[c].heard
    /\ wire' = [wire EXCEPT ![c] = Forgotten(@)]

\* Mutant of Unmount: the answers of the page before are still taken.
MutantUnmount ==
    /\ mounted
    /\ mounted' = FALSE
    /\ Spend
    /\ UNCHANGED wire

\* The component is unmounted: its answers find nobody.
Unmount ==
    /\ mounted
    /\ mounted' = FALSE
    /\ wire' = [c \in Call |-> Forgotten(wire[c])]
    /\ Spend

ClientInit ==
    /\ wire = [c \in Call |-> Idle]
    /\ moves = 0
    /\ mounted = FALSE

ClientTypeOK ==
    /\ DOMAIN wire = Call
    /\ \A c \in Call : /\ wire[c].state \in {"free", "sent", "answered", "refused"}
                       /\ wire[c].heard \in BOOLEAN
                       /\ wire[c].state \in {"answered", "refused"} => wire[c].heard
    /\ moves \in 0 .. MaxMoves
    /\ mounted \in BOOLEAN
=============================================================================
