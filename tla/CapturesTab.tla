----------------------------- MODULE CapturesTab -----------------------------
(***************************************************************************)
(* The tab "Camera" of the admin panel lists the newest pictures of both   *)
(* gates, which the server merges from the newest of each gate.            *)
(***************************************************************************)
EXTENDS Client, Sequences

CONSTANTS
    Side,          \* "entry" and "exit"
    CaptureLimit,  \* 200 in the code
    MaxCaptures    \* bound: pictures taken

ASSUME CapturesAssumption == CaptureLimit \in Nat \ {0} /\ MaxCaptures \in Nat

VARIABLES
    taken,             \* the server: the side of each picture, oldest first
    captures,          \* the page: the pictures listed, newest first, by number
    capturesLoading,
    captureFilter,
    lightbox           \* the picture over the page, or 0

capturesView == <<captures, capturesLoading, captureFilter, lightbox>>
capturesVars == <<taken, capturesView>>

Numbers(s) == {s[i] : i \in DOMAIN s}

CapturesInit ==
    /\ taken = <<>>
    /\ captures = <<>>
    /\ capturesLoading = TRUE
    /\ captureFilter = "all"
    /\ lightbox = 0

\* all_captures: the newest of each side up to the limit, sorted together by
\* time, newest first, and cut at the limit again.
Newest(numbers, limit) == {n \in numbers : Cardinality({m \in numbers : m > n}) < limit}
Descending(numbers) ==
    [i \in 1 .. Cardinality(numbers) |->
        CHOOSE n \in numbers : Cardinality({m \in numbers : m > n}) = i - 1]
\* Mutant of all_captures: shares the limit out between the sides.
mutant_all_captures ==
    LET of(s) == {n \in DOMAIN taken : taken[n] = s}
    IN  Descending(UNION {Newest(of(s), CaptureLimit \div 2) : s \in Side})

all_captures ==
    LET of(s) == {n \in DOMAIN taken : taken[n] = s}
    IN  Descending(Newest(UNION {Newest(of(s), CaptureLimit) : s \in Side}, CaptureLimit))

\* The pictures of the filter chosen; `taken` names the side of a picture.
visible == SelectSeq(captures, LAMBDA n : captureFilter \in {"all", taken[n]})
CameraTab ==
    IF capturesLoading THEN "spinner"
    ELSE IF visible = <<>> THEN "No captures yet" ELSE "pictures"

OpenCaptures ==
    /\ ~mounted /\ mounted' = TRUE
    /\ Spend
    /\ Send("captures", None)
    /\ UNCHANGED capturesVars

\* The fields start again from their first values when it is next opened.
LeaveCaptures ==
    /\ Unmount
    /\ captures' = <<>>
    /\ capturesLoading' = TRUE
    /\ captureFilter' = "all"
    /\ lightbox' = 0
    /\ UNCHANGED taken

loadCaptures ==
    /\ mounted
    /\ Spend
    /\ Send("captures", None)
    /\ capturesLoading' = TRUE
    /\ UNCHANGED <<mounted, taken, captures, captureFilter, lightbox>>

CapturesLoaded(c) ==
    /\ \/ Answered(c, "captures") /\ Take(c) /\ captures' = wire[c].answer
       \/ Rejected(c, "captures") /\ UNCHANGED captures
    /\ capturesLoading' = FALSE
    /\ UNCHANGED <<moves, mounted, taken, captureFilter, lightbox>>

setCaptureFilter(f) ==
    /\ mounted /\ lightbox = 0 /\ f # captureFilter
    /\ captureFilter' = f
    /\ UNCHANGED <<wire, moves, mounted, taken, captures, capturesLoading, lightbox>>

setLightbox(n) ==
    /\ mounted
    /\ \/ n = 0 /\ lightbox # 0
       \/ n # 0 /\ lightbox = 0 /\ CameraTab = "pictures" /\ n \in Numbers(visible)
    /\ lightbox' = n
    /\ UNCHANGED <<wire, moves, mounted, taken, captures, capturesLoading, captureFilter>>

ServeCaptures(c) ==
    /\ Sent(c, "captures")
    /\ Reply(c, "answered", all_captures)
    /\ UNCHANGED <<moves, mounted, capturesVars>>

\* A gate's camera takes a picture.
Captured(s) ==
    /\ Len(taken) < MaxCaptures
    /\ taken' = Append(taken, s)
    /\ UNCHANGED <<wire, moves, mounted, capturesView>>

CapturesAnswer(c) == CapturesLoaded(c)
CapturesServe(c)  == ServeCaptures(c)

CapturesNext ==
    \/ OpenCaptures
    \/ LeaveCaptures
    \/ loadCaptures
    \/ \E f \in {"all"} \cup Side : setCaptureFilter(f)
    \/ \E n \in 0 .. MaxCaptures : setLightbox(n)
    \/ \E s \in Side : Captured(s)
    \/ \E c \in Call : CapturesAnswer(c) \/ CapturesServe(c)

CapturesTypeOK ==
    /\ taken \in Seq(Side)
    /\ captures \in Seq(1 .. MaxCaptures)
    /\ captureFilter \in {"all"} \cup Side
    /\ lightbox \in 0 .. MaxCaptures
    /\ capturesLoading \in BOOLEAN

(***************************************************************************)
(* Cutting each side at the limit before merging loses nothing: the list   *)
(* is "newest first" (admin.py:342), without a gap from its first picture  *)
(* to its last, and never longer than the limit.                           *)
(***************************************************************************)
CapturesWithoutGap ==
    /\ Len(captures) <= CaptureLimit
    /\ \A i \in 1 .. Len(captures) - 1 : captures[i] = captures[i + 1] + 1
    /\ captures # <<>> /\ Len(captures) < CaptureLimit => captures[Len(captures)] = 1
=============================================================================
