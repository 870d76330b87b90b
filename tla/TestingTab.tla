----------------------------- MODULE TestingTab -----------------------------
(***************************************************************************)
(* The tab "Testing" of the admin panel has a card per gate: a picture is  *)
(* chosen, sent through the gate's endpoint (ParkingServer), and the       *)
(* decision is shown under the picture.                                    *)
(***************************************************************************)
EXTENDS Client

CONSTANTS Card, Picture   \* "entry" and "exit"; pictures that may be chosen

VARIABLES
    preview,   \* preview[s]: the picture chosen in card s
    result,    \* result[s]: the picture that the decision shown is about
    running,   \* the cards that say "Processing"
    swapped    \* history: cards whose picture was changed while processing

testingVars == <<preview, result, running, swapped>>

NoPicture == [s \in Card |-> None]

TestingInit ==
    /\ preview = NoPicture
    /\ result = NoPicture
    /\ running = {}
    /\ swapped = {}

\* ResultCard is drawn for a decision; the button of a card without a
\* picture only says so.
ResultShown(s) == result[s] # None
SimulateOffered(s) == s \notin running /\ preview[s] # None

OpenTesting ==
    /\ ~mounted /\ mounted' = TRUE
    /\ Spend
    /\ UNCHANGED <<wire, testingVars>>

\* The fields start again from their first values when it is next opened.
LeaveTesting ==
    /\ Unmount
    /\ preview' = NoPicture
    /\ result' = NoPicture
    /\ running' = {}
    /\ swapped' = {}

\* Mutant of choose: leaves the result.
MutantChoose(s, p) ==
    /\ mounted
    /\ p # preview[s]
    /\ Spend
    /\ preview' = [preview EXCEPT ![s] = p]
    /\ swapped' = IF s \in running THEN swapped \cup {s} ELSE swapped \ {s}
    /\ UNCHANGED <<wire, mounted, result, running>>

\* A picture can be chosen, or cleared, while its card is processing.
choose(s, p) ==
    /\ mounted
    /\ p # preview[s]
    /\ Spend
    /\ preview' = [preview EXCEPT ![s] = p]
    /\ result' = [result EXCEPT ![s] = None]
    /\ swapped' = IF s \in running THEN swapped \cup {s} ELSE swapped \ {s}
    /\ UNCHANGED <<wire, mounted, running>>

\* A decision that is shown stays while the next one is waited for.
onSimulate(s) ==
    /\ mounted
    /\ SimulateOffered(s)
    /\ Spend
    /\ Send("simulate", [side |-> s, picture |-> preview[s]])
    /\ running' = running \cup {s}
    /\ UNCHANGED <<mounted, preview, result, swapped>>

\* The decision about whatever picture was sent; a failure shows none.
Simulated(c) ==
    /\ \/ Answered(c, "simulate") /\ Take(c)
          /\ result' = [result EXCEPT ![wire[c].arg.side] = wire[c].arg.picture]
       \/ Rejected(c, "simulate")
          /\ result' = [result EXCEPT ![wire[c].arg.side] = None]
    /\ running' = running \ {wire[c].arg.side}
    /\ UNCHANGED <<moves, mounted, preview, swapped>>

\* POST /admin/simulate-*: the decision of the gate's endpoint, or its error.
simulate(c) ==
    /\ Sent(c, "simulate")
    /\ Reply(c, "answered", None) \/ Reply(c, "refused", None)
    /\ UNCHANGED <<moves, mounted, testingVars>>

TestingNext ==
    \/ OpenTesting
    \/ LeaveTesting
    \/ \E s \in Card : onSimulate(s) \/ \E p \in Picture \cup {None} : choose(s, p)
    \/ \E c \in Call : Simulated(c) \/ simulate(c)

TestingTypeOK ==
    /\ {preview, result} \subseteq [Card -> Picture \cup {None}]
    /\ {running, swapped} \subseteq SUBSET Card

(***************************************************************************)
(* The decision under a picture is about that picture, unless the picture  *)
(* was changed or cleared while the card was processing: the late answer   *)
(* is then shown under the other one, until a picture is chosen again.     *)
(***************************************************************************)
ResultOfPicture ==
    \A s \in Card \ swapped : ResultShown(s) => result[s] = preview[s]
=============================================================================
