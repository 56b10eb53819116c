----------------------------- MODULE TcpConnect -----------------------------
(***************************************************************************)
(* One call of TcpStream::connect() (tcp_stream.cpp): the overlapped,      *)
(* staggered connection attempts of RFC 8305 driven by a single loop over  *)
(* WSAPoll, with an attempt deadline, an overall deadline and a            *)
(* cancellation flag that another thread may set at any moment.            *)
(*                                                                         *)
(* Time is a count of ticks that passes where the thread blocks: in the    *)
(* resolver, in WSAPoll and in Sleep. An attempt is known by its ordinal,  *)
(* which is its candidate's place in the interleaved list.                 *)
(***************************************************************************)
EXTENDS Integers, Sequences, FiniteSetsExt

CONSTANTS
    Lists,             \* what the resolver may answer: sequences of families
    Errors,            \* the failures attempts may meet, within ErrorClasses
    AttemptDelay,      \* options.attempt_delay
    CandidateTimeout,  \* options.candidate_timeout
    OverallTimeout,    \* options.overall_timeout
    Caps,              \* the values of options.max_in_flight
    PollSlice,         \* kPollSliceMs
    ResolveTicks,      \* bound on the time the resolver takes
    Horizon            \* bound on the clock

ErrorClasses == {"refused", "timeout", "unreachable", "unavailable", "other"}

ASSUME TcpConnectAssumption ==
    /\ {AttemptDelay, CandidateTimeout, OverallTimeout, PollSlice} \subseteq Nat \ {0}
    /\ Caps \cup {ResolveTicks} \subseteq Nat
    /\ Horizon > OverallTimeout + ResolveTicks + PollSlice
    /\ Errors \subseteq ErrorClasses
    /\ \A l \in Lists : Len(l) \in Nat \ {0} /\ DOMAIN l = 1..Len(l)

VARIABLES
    clock,       \* the time
    now,         \* the loop's last sample of it
    cap,         \* options.max_in_flight
    requested,   \* the handle's flag
    attached,    \* the attempt whose socket the handle holds, 0 for none
    listed,      \* the resolver's answer
    candidates,  \* the interleaved list of places in `listed`
    next,        \* next_candidate, also the ordinal of the last one begun
    nextStart,   \* next_start
    inFlight,    \* in_flight: ordinals of pending attempts, which the vector
                 \* keeps in their order
    deadline,    \* attempt.deadline, by ordinal
    answer,      \* what the network has answered to an attempt, by ordinal
    open,        \* ordinals whose socket exists
    ready,       \* the attempts the last WSAPoll reported
    winner,      \* the attempt handed to finish(), 0 before
    wake,        \* when the pending WSAPoll or Sleep times out
    best,        \* best_error, "none" while nothing is remembered
    pc,
    result,
    failures,    \* history: every failure reported to the loop
    cancelledAt  \* history: when the flag was set

vars == <<clock, now, cap, requested, attached, listed, candidates, next,
          nextStart, inFlight, deadline, answer, open, ready, winner, wake, best,
          pc, result, failures, cancelledAt>>

timeVars == <<clock, now>>
listVars == <<listed, candidates>>
userVars == <<cap, requested, attached, cancelledAt>>
givenVars == <<listVars, userVars>>
tryVars == <<next, nextStart, deadline>>
raceVars == <<tryVars, inFlight>>
netVars == <<answer, ready, winner>>
socketVars == <<netVars, open>>
endVars == <<best, result, failures>>

Places == UNION {DOMAIN l : l \in Lists}

\* How much a failure tells, to pick the one that is reported.
Definiteness(e) ==
    CASE e = "refused"     -> 50
      [] e = "timeout"     -> 40
      [] e = "unreachable" -> 30
      [] e = "other"       -> 20
      [] e = "unavailable" -> 10
      [] e = "none"        -> -1

\* Mutant: the latest failure is kept.
MostDefinite_Latest(b, es) == IF es = {} THEN b ELSE CHOOSE e \in es : TRUE

\* remember(), for the failures of one step.
MostDefinite(b, es) ==
    CHOOSE e \in es \cup {b} :
        \A f \in es \cup {b} : Definiteness(f) <= Definiteness(e)

\* The places of the candidates whose family is the first one's, or is not.
PlacesOf(l, first) ==
    LET F[i \in 0..Len(l)] ==
            IF i = 0 THEN <<>>
            ELSE IF (l[i] = l[1]) = first THEN Append(F[i - 1], i)
            ELSE F[i - 1]
    IN  F[Len(l)]

\* Mutant: one family after the other.
Interleave_Grouped(l) == PlacesOf(l, TRUE) \o PlacesOf(l, FALSE)

\* interleave_by_family: the places of the first family and of the others
\* alternate until one of the two is used up.
Interleave(l) ==
    LET primary   == PlacesOf(l, TRUE)
        secondary == PlacesOf(l, FALSE)
        m == Min({Len(primary), Len(secondary)})
    IN  [i \in DOMAIN l |->
            IF i > 2 * m
              THEN IF Len(primary) > m THEN primary[i - m] ELSE secondary[i - m]
              ELSE IF i % 2 = 1 THEN primary[(i + 1) \div 2]
                                ELSE secondary[i \div 2]]

Init ==
    /\ clock = 0
    /\ now = 0
    /\ cap \in Caps
    /\ requested = FALSE
    /\ attached = 0
    /\ listed = <<>>
    /\ candidates = <<>>
    /\ next = 0
    /\ nextStart = 0
    /\ inFlight = {}
    /\ deadline = [o \in Places |-> 0]
    /\ answer = [o \in Places |-> "none"]
    /\ open = {}
    /\ ready = {}
    /\ winner = 0
    /\ wake = 0
    /\ best = "none"
    /\ pc = "call"
    /\ result = "none"
    /\ failures = {}
    /\ cancelledAt = 0

-----------------------------------------------------------------------------
(* The environment.                                                        *)

\* CancelHandle::cancel() on another thread.
CancelRequest ==
    /\ pc # "done"
    /\ ~requested
    /\ requested' = TRUE
    /\ cancelledAt' = clock
    /\ UNCHANGED <<timeVars, cap, attached, listVars, raceVars, socketVars, wake,
                   endVars, pc>>

\* The network completes a pending attempt, with success or with an error.
Answer(o, r) ==
    /\ pc # "done"
    /\ o \in open \cap inFlight
    /\ answer[o] = "none"
    /\ answer' = [answer EXCEPT ![o] = r]
    /\ UNCHANGED <<timeVars, givenVars, raceVars, open, ready, winner, wake,
                   endVars, pc>>

Answered == {o \in inFlight : answer[o] # "none"}

\* Time passes in the resolver, in Sleep, and in WSAPoll until it has something
\* to report. A wait whose timeout is zero takes a tick or none.
Tick ==
    /\ \/ pc = "resolve" /\ clock < ResolveTicks
       \/ pc = "poll" /\ Answered = {} /\ (clock < wake \/ clock = now)
       \/ pc = "sleep" /\ (clock < wake \/ clock = now)
    /\ clock < Horizon
    /\ clock' = clock + 1
    /\ UNCHANGED <<now, givenVars, raceVars, socketVars, wake, endVars, pc>>

-----------------------------------------------------------------------------
(* The loop.                                                               *)

OverallDeadline == OverallTimeout   \* the call starts at time 0

Done(r) == pc' = "done" /\ result' = r

\* The deadline is fixed before the name is resolved.
Call ==
    /\ pc = "call"
    /\ pc' = "resolve"
    /\ UNCHANGED <<timeVars, givenVars, raceVars, socketVars, wake, endVars>>

Resolved(l) ==
    /\ pc = "resolve"
    /\ listed' = l
    /\ candidates' = Interleave(l)
    /\ pc' = "top"
    /\ UNCHANGED <<timeVars, userVars, raceVars, socketVars, wake, endVars>>

ResolveFails ==
    /\ pc = "resolve"
    /\ Done("resolve_failed")
    /\ UNCHANGED <<timeVars, givenVars, raceVars, socketVars, wake, best, failures>>

\* The flag is read once per turn; leaving destroys in_flight.
CheckCancel ==
    /\ pc = "top"
    /\ IF requested THEN Done("cancelled") /\ open' = {}
                    ELSE pc' = "loop" /\ UNCHANGED <<open, result>>
    /\ now' = clock
    /\ UNCHANGED <<clock, givenVars, raceVars, netVars, wake, best, failures>>

\* in_flight.clear(), then the best error, or a timeout when there is none.
Fail(es) ==
    LET e == MostDefinite(best, es) IN
    /\ best' = e
    /\ open' = {}
    /\ inFlight' = {}
    /\ Done(IF e = "none" THEN "timeout" ELSE e)

\* Mutant: the overall deadline is tested only while something is pending.
TimeIsUp_IfPending == inFlight # {} /\ now >= OverallDeadline

TimeIsUp == now >= OverallDeadline

OverallExpired ==
    /\ pc = "loop"
    /\ TimeIsUp
    /\ Fail({"timeout"})
    /\ UNCHANGED <<timeVars, givenVars, tryVars, netVars, wake, failures>>

CandidatesLeft == next < Len(candidates)

HasRoom == Cardinality(inFlight) < cap

\* Mutant: the end of the list is overrun by one.
MayStart_PastEnd ==
    next <= Len(candidates) /\ HasRoom /\ (inFlight = {} \/ now >= nextStart)

\* The next attempt starts when its stagger has elapsed, or when nothing is
\* pending.
MayStart == CandidatesLeft /\ HasRoom /\ (inFlight = {} \/ now >= nextStart)

\* begin_attempt: the connect is pending, has succeeded at once, or one of the
\* calls failed, in which case the socket is already closed again.
StartAttempt(how) ==
    LET o == next + 1 IN
    /\ pc = "loop"
    /\ ~TimeIsUp
    /\ MayStart
    /\ next' = o
    /\ nextStart' = now + AttemptDelay
    /\ IF how \in Errors
         THEN /\ best' = MostDefinite(best, {how})
              /\ failures' = failures \cup {how}
              /\ pc' = "top"
              /\ UNCHANGED <<open, deadline, inFlight, winner>>
         ELSE /\ open' = open \cup {o}
              /\ deadline' = [deadline EXCEPT ![o] =
                                 Min({now + CandidateTimeout, OverallDeadline})]
              /\ IF how = "connected"
                   THEN winner' = o /\ pc' = "finish" /\ UNCHANGED inFlight
                   ELSE inFlight' = inFlight \cup {o} /\ pc' = "top"
                          /\ UNCHANGED winner
              /\ UNCHANGED <<best, failures>>
    /\ UNCHANGED <<timeVars, givenVars, answer, ready, wake, result>>

\* Nothing is pending and nothing is left to try.
Exhausted ==
    /\ pc = "loop"
    /\ ~TimeIsUp
    /\ inFlight = {}
    /\ ~CandidatesLeft
    /\ Fail({})
    /\ UNCHANGED <<timeVars, givenVars, tryVars, netVars, wake, failures>>

\* Nothing is pending and a candidate is left that may not start. With nothing
\* pending no stagger is waited for, so that only max_in_flight = 0 leads here.
Sleep ==
    /\ pc = "loop"
    /\ ~TimeIsUp
    /\ ~MayStart
    /\ inFlight = {}
    /\ CandidatesLeft
    /\ wake' = Max({now, Min({nextStart, now + PollSlice})})
    /\ pc' = "sleep"
    /\ UNCHANGED <<timeVars, givenVars, raceVars, socketVars, endVars>>

Wakes ==
    /\ pc = "sleep"
    /\ clock >= wake
    /\ wake' = 0
    /\ pc' = "top"
    /\ UNCHANGED <<timeVars, givenVars, raceVars, socketVars, endVars>>

\* Mutants: the wake time leaves out the slice, or the deadlines.
WakeTime_NoSlice ==
    Min({OverallDeadline} \cup {deadline[o] : o \in inFlight}
          \cup (IF CandidatesLeft THEN {nextStart} ELSE {}))
WakeTime_NoDeadlines ==
    Min({now + PollSlice} \cup (IF CandidatesLeft THEN {nextStart} ELSE {}))

WakeTime ==
    Min({now + PollSlice, OverallDeadline} \cup {deadline[o] : o \in inFlight}
          \cup (IF CandidatesLeft THEN {nextStart} ELSE {}))

\* With something in flight and nothing to start, the thread enters WSAPoll.
Poll ==
    /\ pc = "loop"
    /\ ~TimeIsUp
    /\ ~MayStart
    /\ inFlight # {}
    /\ wake' = WakeTime
    /\ pc' = "poll"
    /\ UNCHANGED <<timeVars, givenVars, raceVars, socketVars, endVars>>

PollFails ==
    /\ pc = "poll"
    /\ Fail({"other"})
    /\ failures' = failures \cup {"other"}
    /\ UNCHANGED <<timeVars, givenVars, tryVars, netVars, wake>>

\* WSAPoll returns every attempt that is ready, or none at the timeout.
PollReturns ==
    /\ pc = "poll"
    /\ Answered # {} \/ clock >= wake
    /\ ready' = Answered
    /\ failures' = failures \cup ({answer[o] : o \in Answered} \ {"ok"})
    /\ now' = clock
    /\ wake' = 0
    /\ pc' = "process"
    /\ UNCHANGED <<clock, givenVars, raceVars, answer, open, winner, best, result>>

\* SO_ERROR decides. The first success in the order of in_flight wins.
Win ==
    LET good == {o \in ready : answer[o] = "ok"} IN
    /\ pc = "process"
    /\ good # {}
    /\ winner' = Min(good)
    /\ pc' = "finish"
    /\ UNCHANGED <<timeVars, givenVars, raceVars, answer, open, ready, wake,
                   endVars>>

Expired == {o \in inFlight \ ready : deadline[o] <= now}

\* Mutant: an attempt that ran out of time is only forgotten, not closed.
Closing_FailedOnly == ready

\* The sockets that leave in_flight with their attempt.
Closing == ready \cup Expired

\* Without a success, failed and expired attempts are dropped.
Drop ==
    /\ pc = "process"
    /\ \A o \in ready : answer[o] # "ok"
    /\ best' = MostDefinite(best, {answer[o] : o \in ready}
                                    \cup (IF Expired = {} THEN {} ELSE {"timeout"}))
    /\ inFlight' = inFlight \ (ready \cup Expired)
    /\ open' = open \ Closing
    /\ deadline' = [o \in Places |-> IF o \in ready \cup Expired THEN 0 ELSE deadline[o]]
    /\ answer' = [o \in Places |-> IF o \in ready THEN "none" ELSE answer[o]]
    /\ ready' = {}
    /\ pc' = "top"
    /\ UNCHANGED <<timeVars, givenVars, next, nextStart, winner, wake, result,
                   failures>>

\* The sockets that in_flight.clear() closes.
Losers == open \ {winner}

\* finish() closes the losers first.
ClosesLosers == inFlight' = {} /\ open' = open \ Losers

\* The winner stays non-blocking, and is dropped.
RestoreFails ==
    /\ pc = "finish"
    /\ ClosesLosers
    /\ result' = "restore_failed"
    /\ pc' = "discard"
    /\ UNCHANGED <<timeVars, givenVars, tryVars, netVars, wake, best, failures>>

\* Mutant: the flag is not looked at again when the socket is attached.
Refused_Never == FALSE

\* attach_cancel_socket refuses a handle whose cancellation was requested.
Refused == requested

Attach ==
    /\ pc = "finish"
    /\ ClosesLosers
    /\ IF Refused
         THEN result' = "cancelled" /\ pc' = "discard" /\ UNCHANGED attached
         ELSE attached' = winner /\ pc' = "attached" /\ UNCHANGED result
    /\ UNCHANGED <<timeVars, cap, requested, cancelledAt, listVars, tryVars,
                   netVars, wake, best, failures>>

\* The stream is returned with the winner's socket, or building it, which
\* describes addresses and writes the log, runs out of memory.
Build(r) ==
    /\ pc = "attached"
    /\ result' = r
    /\ pc' = IF r = "stream" THEN "done" ELSE "discard"
    /\ UNCHANGED <<timeVars, givenVars, raceVars, socketVars, wake, best, failures>>

\* ~Attempt closes the winner that did not become a stream.
Discard ==
    /\ pc = "discard"
    /\ open' = open \ {winner}
    /\ pc' = "done"
    /\ UNCHANGED <<timeVars, givenVars, raceVars, netVars, wake, endVars>>

\* Memory runs out in the list, the attempts, the poll set or a log line: the
\* unwinding destroys in_flight.
Unwinds ==
    /\ pc \in {"resolve", "loop", "process"}
    /\ Done("exception")
    /\ open' = {}
    /\ UNCHANGED <<timeVars, givenVars, raceVars, netVars, wake, best, failures>>

Environment ==
    \/ CancelRequest
    \/ \E o \in Places, r \in Errors \cup {"ok"} : Answer(o, r)
    \/ Tick

Loop ==
    \/ Call
    \/ \E l \in Lists : Resolved(l)
    \/ ResolveFails
    \/ CheckCancel
    \/ OverallExpired
    \/ \E how \in {"pending", "connected"} \cup Errors : StartAttempt(how)
    \/ Exhausted
    \/ Sleep
    \/ Wakes
    \/ Poll
    \/ PollFails
    \/ PollReturns
    \/ Win
    \/ Drop
    \/ RestoreFails
    \/ Attach
    \/ \E r \in {"stream", "exception"} : Build(r)
    \/ Discard
    \/ Unwinds

Next == Environment \/ Loop

Spec == Init /\ [][Next]_vars

\* The thread runs and time passes; a poll that returns at once, again and
\* again, does not stop the clock.
FairSpec == Spec /\ WF_vars(Loop) /\ SF_vars(Tick)

-----------------------------------------------------------------------------
(* What connect() promises.                                                *)

\* Every variable has its type.
TypeOK ==
    /\ {clock, now, nextStart, wake, cancelledAt, next} \subseteq Nat
    /\ cap \in Caps
    /\ requested \in BOOLEAN
    /\ attached \in {0, winner}
    /\ listed \in Lists \cup {<<>>}
    /\ DOMAIN candidates = DOMAIN listed
    /\ next <= Len(candidates)
    /\ inFlight \subseteq Places
    /\ deadline \in [Places -> Nat]
    /\ answer \in [Places -> Errors \cup {"none", "ok"}]
    /\ open \subseteq Places
    /\ ready \subseteq Places
    /\ winner \in Places \cup {0}
    /\ best \in ErrorClasses \cup {"none"}
    /\ pc \in {"call", "resolve", "top", "loop", "sleep", "poll", "process",
              "finish", "attached", "discard", "done"}
    /\ result \in ErrorClasses \cup {"none", "stream", "cancelled", "exception",
                                    "restore_failed", "resolve_failed"}
    /\ failures \subseteq ErrorClasses

\* tcp_stream.h:115-116: losing and failed attempts are always closed, and a
\* burst of SYNs is avoided. While the race runs the open sockets are those of
\* the pending attempts and of the winner, never more than max_in_flight; once
\* finish() is under way only the winner's is left, and after a call that did
\* not return a stream none, whichever way it ended.
SocketsAccounted ==
    /\ open = CASE pc = "done" /\ result = "stream" -> {winner}
               [] pc = "done" /\ result # "stream" -> {}
               [] pc \in {"attached", "discard"} -> {winner}
               [] pc = "finish" -> inFlight \cup {winner}
               [] OTHER -> inFlight
    /\ Cardinality(open) <= cap

\* The thread is woken in time for everything it waits for: no attempt outlives
\* its deadline inside WSAPoll nor the call its overall deadline, and a stagger
\* is never overslept, so that a family that answers nothing costs
\* attempt_delay and no more. Nor does the loop spin: a wait of no time at all is
\* entered only while max_in_flight attempts are pending and another candidate
\* is due, again and again until a slot is free (tcp_stream.cpp:399).
WakesOnTime ==
    /\ pc = "poll" =>
         /\ clock <= OverallDeadline
         /\ \A o \in inFlight : clock <= deadline[o]
         /\ CandidatesLeft /\ HasRoom => clock <= nextStart
    /\ pc \in {"poll", "sleep"} /\ wake <= now => ~HasRoom /\ CandidatesLeft

\* tcp_stream.h:118-119: once the name is resolved, a cancellation is observed
\* within one poll slice of the moment it is requested.
CancelSeenSoon ==
    requested /\ pc \in {"loop", "sleep", "poll", "process", "finish"} =>
        clock <= cancelledAt + PollSlice

\* A failed connect reports a failure that no other reported failure beats.
MostDefiniteReported ==
    pc = "done" /\ result \in ErrorClasses =>
        \A e \in failures : Definiteness(e) <= Definiteness(result)

\* interleave_by_family keeps the resolver's first choice and each family's
\* order, loses nothing, and alternates between the first one's family and the
\* others while there are candidates of both.
InterleaveIsFair ==
    LET F(i) == listed[candidates[i]]
        First(i) == F(i) = listed[1]
    IN  listed # <<>> =>
            /\ candidates[1] = 1
            /\ {candidates[i] : i \in DOMAIN candidates} = DOMAIN listed
            /\ \A i, j \in DOMAIN candidates :
                  i < j /\ F(i) = F(j) => candidates[i] < candidates[j]
            /\ \A i \in DOMAIN candidates :
                  i > 1 /\ First(i) = First(i - 1) =>
                      \A j \in DOMAIN candidates : j > i => First(j) = First(i)

\* connect() returns, also when nothing may ever start.
Terminates == <>(pc = "done")

-----------------------------------------------------------------------------
(* The call as TcpStream sees it.                                          *)

Call_pc ==
    CASE pc = "call" -> "idle"
      [] pc = "finish" -> "won"
      [] pc \in {"attached", "discard"} -> pc
      [] pc = "done" -> IF result = "stream" THEN "built" ELSE "idle"
      [] OTHER -> "connecting"

Call_outcome ==
    CASE result = "none" -> "none"
      [] result = "stream" -> "connected"
      [] result = "cancelled" -> "cancelled"
      [] OTHER -> "error"

Call_socket == IF winner \in open THEN "socket" ELSE "none"

Call_fresh ==
    [socket |-> Call_socket,
     cancel |-> IF Call_pc = "idle" THEN "none" ELSE "handle"]

\* One worker that connects once, and one canceller that has set the flag and
\* gets no further.
Stream == INSTANCE TcpStream WITH
    Workers <- {"caller"}, Cancellers <- {"canceller"},
    Handles <- {"handle"}, Descriptors <- {"socket"},
    NoThread <- "none", NoHandle <- "none", NoSocket <- "none",
    ReadTimeout <- TRUE, ReuseHandles <- FALSE, BuildMayThrow <- TRUE,
    requested <- [h \in {"handle"} |-> requested],
    attached <- [h \in {"handle"} |-> IF attached = 0 THEN "none" ELSE "socket"],
    mutex <- [h \in {"handle"} |-> "none"],
    owner <- [d \in {"socket"} |-> IF Call_socket = d THEN "caller" ELSE "none"],
    io <- [d \in {"socket"} |-> "none"],
    stream <- [w \in {"caller"} |-> [socket |-> "none", cancel |-> "none"]],
    fresh <- [w \in {"caller"} |-> Call_fresh],
    pc <- [w \in {"caller"} |-> Call_pc],
    outcome <- [w \in {"caller"} |-> Call_outcome],
    cpc <- [c \in {"canceller"} |-> IF requested THEN "flagged" ELSE "idle"],
    cancelling <- [c \in {"canceller"} |-> IF requested THEN "handle" ELSE "none"],
    target <- [c \in {"canceller"} |-> "none"],
    used <- IF pc = "call" THEN {} ELSE {"handle"},
    late <- [h \in {"handle"} |-> 0]

\* The race implements the connect() of module TcpStream, on which the theorems
\* about cancellation and about descriptors rest: it wins at most one socket,
\* attaches that one and only when no cancellation was requested, reports a
\* cancellation only then, and keeps or closes the socket as TcpStream says,
\* whenever the flag is set.
ImplementsConnect == Stream!Spec
=============================================================================
