----------------------------- MODULE SessionsTab -----------------------------
(***************************************************************************)
(* The tab "Sessions" of the admin panel: the parking sessions that match  *)
(* a filter, with a button on every active one that closes it free of      *)
(* charge.  Every change of the filter (the status, or a letter of the     *)
(* plate, which narrows the rows in the same way) loads anew; loads can    *)
(* overlap, and the last answer taken is shown.                            *)
(***************************************************************************)
EXTENDS Client

CONSTANT Session

VARIABLES
    session,         \* the server: status of every session
    sessions,        \* the page's rows: the status of those it lists
    statusFilter,
    sessionsLoading,
    closing,         \* the row whose button spins: one for all rows
    closedHere,      \* history: the sessions the page reported closed
    strayLoad        \* history: loads overlapped, failed, or used an older filter

sessionsVars == <<session, sessions, statusFilter, sessionsLoading, closing, closedHere, strayLoad>>
sessionsView == <<sessions, statusFilter, sessionsLoading, closing, closedHere, strayLoad>>

SessionState == {"absent", "active", "completed"}
StatusFilter == {"all", "active", "completed"}
NoSessions   == [s \in Session |-> "absent"]

SessionsInit ==
    /\ session \in [Session -> {"absent", "active"}]
    /\ sessions = NoSessions
    /\ statusFilter = "all"
    /\ sessionsLoading = TRUE
    /\ closing = None
    /\ closedHere = {}
    /\ strayLoad = FALSE

SessionsScreen ==
    IF sessionsLoading THEN "spinner"
    ELSE IF sessions = NoSessions THEN "No sessions found" ELSE "table"

CloseOffered(s) == SessionsScreen = "table" /\ sessions[s] = "active" /\ closing # s

OpenSessions ==
    /\ ~mounted /\ mounted' = TRUE
    /\ Spend
    /\ Send("sessions", [session |-> None, filter |-> "all"])
    /\ UNCHANGED sessionsVars

\* The fields start again from their first values when it is next opened.
LeaveSessions ==
    /\ Unmount
    /\ sessions' = NoSessions
    /\ statusFilter' = "all"
    /\ sessionsLoading' = TRUE
    /\ closing' = None
    /\ closedHere' = {}
    /\ strayLoad' = FALSE
    /\ UNCHANGED session

\* fetchSessions as the render with filter f made it.
fetchSessions(f) ==
    /\ Send("sessions", [session |-> None, filter |-> f])
    /\ sessionsLoading' = TRUE
    /\ strayLoad' = (strayLoad \/ Awaits("sessions"))

\* Mutant of setStatusFilter: does not load again.
MutantSetStatusFilter(f) ==
    /\ mounted /\ f # statusFilter
    /\ Spend
    /\ statusFilter' = f
    /\ UNCHANGED <<wire, mounted, session, sessions, sessionsLoading, closing, closedHere, strayLoad>>

setStatusFilter(f) ==
    /\ mounted /\ f # statusFilter
    /\ Spend
    /\ statusFilter' = f
    /\ fetchSessions(f)
    /\ UNCHANGED <<mounted, session, sessions, closing, closedHere>>

RefreshSessions ==
    /\ mounted
    /\ Spend
    /\ fetchSessions(statusFilter)
    /\ UNCHANGED <<mounted, session, sessions, statusFilter, closing, closedHere>>

SessionsLoaded(c) ==
    /\ \/ /\ Answered(c, "sessions") /\ Take(c)
          /\ sessions' = wire[c].answer
          /\ UNCHANGED strayLoad
       \/ /\ Rejected(c, "sessions")
          /\ strayLoad' = TRUE
          /\ UNCHANGED sessions
    /\ sessionsLoading' = FALSE
    /\ UNCHANGED <<moves, mounted, session, statusFilter, closing, closedHere>>

\* The handler belongs to the render it was clicked in, with its filter.
handleClose(s) ==
    /\ mounted
    /\ CloseOffered(s)
    /\ Spend
    /\ Send("close", [session |-> s, filter |-> statusFilter])
    /\ closing' = s
    /\ UNCHANGED <<mounted, session, sessions, statusFilter, sessionsLoading,
                   closedHere, strayLoad>>

\* On success the rows are loaded again, by the fetchSessions of the click.
SessionClosed(c) ==
    /\ Answered(c, "close")
    /\ LET f == wire[c].arg.filter
       IN  /\ wire' = [wire EXCEPT ![c] = Request("sessions", [session |-> None, filter |-> f])]
           /\ strayLoad' = (strayLoad \/ Awaits("sessions") \/ f # statusFilter)
    /\ sessionsLoading' = TRUE
    /\ closing' = None
    /\ closedHere' = closedHere \cup {wire[c].arg.session}
    /\ UNCHANGED <<moves, mounted, session, sessions, statusFilter>>

\* Mutant of CloseFailed: reports the close whatever came of it.
MutantReportClosed(c) ==
    /\ Rejected(c, "close")
    /\ closing' = None
    /\ closedHere' = closedHere \cup {wire[c].arg.session}
    /\ UNCHANGED <<moves, mounted, session, sessions, statusFilter, sessionsLoading, strayLoad>>

\* Mutant of CloseFailed: leaves the spinner.
MutantCloseFailed(c) ==
    /\ Rejected(c, "close")
    /\ UNCHANGED <<moves, mounted, sessionsVars>>

CloseFailed(c) ==
    /\ Rejected(c, "close")
    /\ closing' = None
    /\ UNCHANGED <<moves, mounted, session, sessions, statusFilter, sessionsLoading,
                   closedHere, strayLoad>>

\* GET /admin/sessions and PATCH /admin/sessions/{id}/close.
list_sessions(c) ==
    /\ Sent(c, "sessions")
    /\ LET f == wire[c].arg.filter
       IN  Reply(c, "answered",
                 [s \in Session |-> IF f \in {"all", session[s]} THEN session[s] ELSE "absent"])
    /\ UNCHANGED <<moves, mounted, sessionsVars>>

force_close_session(c) ==
    /\ Sent(c, "close")
    /\ LET s == wire[c].arg.session
       IN  IF session[s] = "active"
           THEN session' = [session EXCEPT ![s] = "completed"] /\ Reply(c, "answered", None)
           ELSE Reply(c, "refused", None) /\ UNCHANGED session
    /\ UNCHANGED <<moves, mounted, sessionsView>>

\* The gates open sessions and complete them.
GateMoves(s) ==
    /\ \/ session[s] = "absent" /\ session' = [session EXCEPT ![s] = "active"]
       \/ session[s] = "active" /\ session' = [session EXCEPT ![s] = "completed"]
    /\ Spend
    /\ UNCHANGED <<wire, mounted, sessionsView>>

SessionsAnswer(c) == SessionsLoaded(c) \/ SessionClosed(c) \/ CloseFailed(c)
SessionsServe(c)  == list_sessions(c) \/ force_close_session(c)

SessionsNext ==
    \/ OpenSessions
    \/ LeaveSessions
    \/ \E f \in StatusFilter : setStatusFilter(f)
    \/ RefreshSessions
    \/ \E s \in Session : handleClose(s) \/ GateMoves(s)
    \/ \E c \in Call : SessionsAnswer(c) \/ SessionsServe(c)

SessionsTypeOK ==
    /\ {session, sessions} \subseteq [Session -> SessionState]
    /\ statusFilter \in StatusFilter
    /\ closing \in Session \cup {None}
    /\ closedHere \subseteq Session
    /\ {sessionsLoading, strayLoad} \subseteq BOOLEAN

(***************************************************************************)
(* When no answer is outstanding the rows are those of the filter that is  *)
(* highlighted, and none that was reported closed is still active among    *)
(* them, unless loads overlapped, one failed, or the filter was changed    *)
(* while a close was under way: its load then uses the older filter.       *)
(***************************************************************************)
RowsFollowFilter ==
    mounted /\ Quiet /\ ~strayLoad =>
        /\ \A s \in Session : sessions[s] \in {"absent"} \cup
                (IF statusFilter = "all" THEN SessionState ELSE {statusFilter})
        /\ \A s \in closedHere : sessions[s] # "active"

(***************************************************************************)
(* The page reports a session closed only if it is: a car that left in     *)
(* between was charged by the exit gate, and its close is refused.         *)
(***************************************************************************)
ReportedClosedIsCompleted == \A s \in closedHere : session[s] = "completed"
=============================================================================
