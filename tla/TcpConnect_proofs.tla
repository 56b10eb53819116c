-------------------------- MODULE TcpConnect_proofs --------------------------
(***************************************************************************)
(* Theorems about TcpConnect, for every list of candidates, every delay    *)
(* and timeout and every cap on the attempts in flight.                    *)
(***************************************************************************)
EXTENDS TcpConnect, CommonLemmas, FiniteSetTheorems, TLAPS

\* Where the race has no winner yet, and where it is in progress.
Racing == {"call", "resolve", "top", "loop", "sleep", "poll", "process"}
Won == {"finish", "attached", "discard"}

\* What each point of the program says of the attempts and of the winner.
Shape ==
    /\ IsFiniteSet(inFlight) /\ inFlight \subseteq 1..next
    /\ Len(candidates) = Len(listed)
    /\ pc \in {"call", "resolve"} => next = 0 /\ listed = <<>>
    /\ pc \in Racing => winner = 0
    /\ pc \in Racing \cup {"finish"} => attached = 0 /\ result = "none"
    /\ pc \in Won => winner \in open
    /\ pc = "attached" => result = "none" /\ attached = winner
    /\ pc = "discard" => result \in {"restore_failed", "cancelled", "exception"}
    /\ pc = "process" => ready \subseteq inFlight /\ \A o \in ready : answer[o] # "none"
    /\ pc = "sleep" => inFlight = {}

\* The samples of the clock on which the loop acts are those it needs.
Times ==
    /\ now <= clock
    /\ pc \in {"loop", "process"} => clock = now
    /\ pc = "top" /\ inFlight # {} => clock = now
    /\ pc \in {"top", "loop", "poll"} => \A o \in inFlight : now < deadline[o]
    /\ pc \in {"poll", "sleep"} =>
         /\ now < OverallDeadline
         /\ wake <= now + PollSlice
         /\ clock <= wake \/ clock <= now + 1
    /\ pc = "poll" =>
         /\ wake <= OverallDeadline
         /\ \A o \in inFlight : wake <= deadline[o]
         /\ CandidatesLeft => wake <= nextStart
         /\ CandidatesLeft /\ HasRoom => now < nextStart
         /\ wake <= now => CandidatesLeft /\ ~HasRoom
    /\ pc = "sleep" => CandidatesLeft /\ ~HasRoom

\* A flag that the last look at it did not show was set after that look.
Flags ==
    /\ requested => cancelledAt <= clock
    /\ requested /\ pc \in {"loop", "poll", "sleep"} => now <= cancelledAt

\* What is remembered beats every failure the loop has been told of, but for
\* those that the last WSAPoll reported.
Remembered ==
    /\ pc \in Racing \/ result \in ErrorClasses =>
         \A e \in failures :
            \/ Definiteness(e) <= Definiteness(best)
            \/ pc = "process" /\ \E o \in ready : answer[o] = e
    /\ pc = "done" /\ result \in ErrorClasses =>
          \/ result = best
          \/ best = "none" /\ result = "timeout"

Inv == TypeOK /\ Shape /\ SocketsAccounted /\ Times /\ Flags /\ CancelSeenSoon
         /\ Remembered

-----------------------------------------------------------------------------
(* What the operators of the model return.                                 *)

\* remember() keeps one of the failures it is given, and no other beats it.
LEMMA MostDefiniteProperties ==
    ASSUME NEW b \in ErrorClasses \cup {"none"}, NEW es \in SUBSET ErrorClasses
    PROVE  /\ MostDefinite(b, es) \in es \cup {b}
           /\ \A f \in es \cup {b} : Definiteness(f) <= Definiteness(MostDefinite(b, es))
<1> DEFINE all == es \cup {b}
<1>1. \E e \in all : \A f \in all : Definiteness(f) <= Definiteness(e)
  <2>1. all \subseteq {"refused", "timeout", "unreachable", "other", "unavailable", "none"}
    BY DEF ErrorClasses
  <2>2. /\ Definiteness("refused") = 50 /\ Definiteness("timeout") = 40
        /\ Definiteness("unreachable") = 30 /\ Definiteness("other") = 20
        /\ Definiteness("unavailable") = 10 /\ Definiteness("none") = -1
    BY DEF Definiteness
  <2>3. b \in all
    OBVIOUS
  <2> HIDE DEF all
  <2>4. CASE "refused" \in all
    BY <2>1, <2>2, <2>4
  <2>5. CASE "refused" \notin all /\ "timeout" \in all
    BY <2>1, <2>2, <2>5
  <2>6. CASE {"refused", "timeout"} \cap all = {} /\ "unreachable" \in all
    BY <2>1, <2>2, <2>6
  <2>7. CASE {"refused", "timeout", "unreachable"} \cap all = {} /\ "other" \in all
    BY <2>1, <2>2, <2>7
  <2>8. CASE {"refused", "timeout", "unreachable", "other"} \cap all = {}
             /\ "unavailable" \in all
    BY <2>1, <2>2, <2>8
  <2>9. CASE {"refused", "timeout", "unreachable", "other", "unavailable"} \cap all = {}
    BY <2>1, <2>2, <2>3, <2>9
  <2> QED
    BY <2>4, <2>5, <2>6, <2>7, <2>8, <2>9
<1>2. MostDefinite(b, es) =
        CHOOSE e \in all : \A f \in all : Definiteness(f) <= Definiteness(e)
  BY DEF MostDefinite
<1> HIDE DEF all
<1>3. /\ MostDefinite(b, es) \in all
      /\ \A f \in all : Definiteness(f) <= Definiteness(MostDefinite(b, es))
  BY <1>1, <1>2
<1> QED
  BY <1>3 DEF all

\* The interleaved list is as long as the resolver's.
LEMMA InterleaveProperties ==
    ASSUME NEW l \in Lists
    PROVE  /\ Len(l) \in Nat \ {0} /\ DOMAIN l = 1..Len(l)
           /\ DOMAIN Interleave(l) = DOMAIN l
           /\ Len(Interleave(l)) = Len(l)
<1>1. Len(l) \in Nat \ {0} /\ DOMAIN l = 1..Len(l)
  BY TcpConnectAssumption
<1>2. DOMAIN Interleave(l) = DOMAIN l
  BY DEF Interleave
<1> QED
  BY <1>1, <1>2

\* The numbers of the model are numbers.
LEMMA Numbers ==
    ASSUME TypeOK
    PROVE  /\ clock \in Nat /\ now \in Nat /\ nextStart \in Nat /\ wake \in Nat
           /\ cancelledAt \in Nat /\ next \in Nat /\ cap \in Nat
           /\ Places \subseteq Nat \ {0}
           /\ OverallDeadline \in Nat /\ PollSlice \in Nat \ {0}
           /\ CandidateTimeout \in Nat \ {0} /\ AttemptDelay \in Nat
<1> USE TcpConnectAssumption
<1>1. Places \subseteq Nat \ {0}
  BY DEF Places
<1> QED
  BY <1>1 DEF TypeOK, OverallDeadline

\* The candidate that may start has a place.
LEMMA NextHasPlace ==
    ASSUME TypeOK, Len(candidates) = Len(listed), CandidatesLeft
    PROVE  next + 1 \in Places /\ next + 1 <= Len(candidates)
<1>1. next \in Nat /\ listed \in Lists \cup {<<>>}
  BY DEF TypeOK
<1>2. listed # <<>>
  <2>1. Len(<<>>) = 0
    OBVIOUS
  <2> QED
    BY <1>1, <2>1 DEF CandidatesLeft
<1>3. Len(listed) \in Nat /\ DOMAIN listed = 1..Len(listed)
  BY <1>1, <1>2, TcpConnectAssumption
<1>4. next + 1 \in DOMAIN listed
  BY <1>1, <1>3 DEF CandidatesLeft
<1> QED
  BY <1>1, <1>2, <1>3, <1>4 DEF Places, CandidatesLeft

\* When a WSAPoll is to time out.
LEMMA WakeTimeProperties ==
    ASSUME TypeOK
    PROVE  /\ WakeTime \in Nat
           /\ WakeTime <= now + PollSlice
           /\ WakeTime <= OverallDeadline
           /\ \A o \in inFlight : WakeTime <= deadline[o]
           /\ CandidatesLeft => WakeTime <= nextStart
           /\ \/ WakeTime = now + PollSlice
              \/ WakeTime = OverallDeadline
              \/ \E o \in inFlight : WakeTime = deadline[o]
              \/ CandidatesLeft /\ WakeTime = nextStart
<1> DEFINE S == {now + PollSlice, OverallDeadline} \cup {deadline[o] : o \in inFlight}
                  \cup (IF CandidatesLeft THEN {nextStart} ELSE {})
<1>1. S \in SUBSET Nat
  <2>1. \A o \in inFlight : deadline[o] \in Nat
    BY DEF TypeOK
  <2> QED
    BY <2>1, Numbers
<1>2. /\ now + PollSlice \in S /\ OverallDeadline \in S
      /\ \A o \in inFlight : deadline[o] \in S
      /\ CandidatesLeft => nextStart \in S
  OBVIOUS
<1>3. \A x \in S : \/ x = now + PollSlice
                   \/ x = OverallDeadline
                   \/ \E o \in inFlight : x = deadline[o]
                   \/ CandidatesLeft /\ x = nextStart
  OBVIOUS
<1>4. WakeTime = Min(S)
  BY DEF WakeTime
<1> HIDE DEF S
<1>5. Min(S) \in S /\ \A y \in S : Min(S) <= y
  BY <1>1, <1>2, MinOfNats
<1> QED
  BY <1>1, <1>2, <1>3, <1>4, <1>5

\* The first of the attempts that succeeded.
LEMMA FirstSuccess ==
    ASSUME TypeOK, Shape, NEW good, good = {o \in ready : answer[o] = "ok"}, good # {}
    PROVE  Min(good) \in good
<1>1. good \in SUBSET Nat
  BY Numbers DEF TypeOK
<1> QED
  BY <1>1, MinOfNats

-----------------------------------------------------------------------------

\* Every variable keeps its type.
LEMMA TypeStep == ASSUME Inv, [Next]_vars PROVE TypeOK'
<1> USE TcpConnectAssumption
<1> USE DEF Inv, TypeOK, ErrorClasses, timeVars, listVars, userVars, givenVars,
            tryVars, raceVars, netVars, socketVars, endVars, Done
<1>1. CASE CancelRequest
  BY <1>1 DEF CancelRequest
<1>2. ASSUME NEW o \in Places, NEW r \in Errors \cup {"ok"}, Answer(o, r)
      PROVE  TypeOK'
  BY <1>2 DEF Answer
<1>3. CASE Tick
  BY <1>3 DEF Tick
<1>4. CASE Call
  BY <1>4 DEF Call
<1>5. ASSUME NEW l \in Lists, Resolved(l)
      PROVE  TypeOK'
  <2>1. /\ listed' = l /\ candidates' = Interleave(l)
        /\ DOMAIN Interleave(l) = DOMAIN l /\ Len(Interleave(l)) \in Nat
    BY <1>5, InterleaveProperties DEF Resolved
  <2>2. next' = 0
    BY <1>5 DEF Resolved, Shape
  <2> QED
    BY <1>5, <2>1, <2>2 DEF Resolved
<1>6. CASE ResolveFails
  BY <1>6 DEF ResolveFails
<1>7. CASE CheckCancel
  BY SMTT(30), <1>7 DEF CheckCancel
<1>8. ASSUME NEW es \in SUBSET ErrorClasses, Fail(es),
             UNCHANGED <<timeVars, givenVars, tryVars, netVars, wake>>,
             failures' \subseteq ErrorClasses
      PROVE  TypeOK'
  <2>1. MostDefinite(best, es) \in ErrorClasses \cup {"none"}
    BY MostDefiniteProperties
  <2> QED
    BY <1>8, <2>1 DEF Fail
<1>9. CASE OverallExpired
  BY <1>8, <1>9 DEF OverallExpired
<1>10. ASSUME NEW how \in {"pending", "connected"} \cup Errors, StartAttempt(how)
       PROVE  TypeOK'
  <2>1. next + 1 \in Places /\ next + 1 <= Len(candidates)
    BY <1>10, NextHasPlace DEF StartAttempt, MayStart, Shape
  <2>2. next \in Nat /\ nextStart' \in Nat
    <3>1. now \in Nat /\ next \in Nat /\ AttemptDelay \in Nat
      BY Numbers
    <3>2. nextStart' = now + AttemptDelay
      BY <1>10 DEF StartAttempt
    <3> QED
      BY <3>1, <3>2
  <2>5. next' = next + 1
    BY <1>10 DEF StartAttempt
  <2>3. CASE how \in Errors
    <3>1. MostDefinite(best, {how}) \in ErrorClasses \cup {"none"}
      <4>1. {how} \in SUBSET ErrorClasses /\ best \in ErrorClasses \cup {"none"}
        BY <2>3
      <4>2. MostDefinite(best, {how}) \in {how} \cup {best}
        BY <4>1, MostDefiniteProperties
      <4> QED
        BY <4>1, <4>2
    <3>2. /\ best' \in ErrorClasses \cup {"none"} /\ failures' \subseteq ErrorClasses
          /\ pc' = "top"
          /\ UNCHANGED <<timeVars, givenVars, open, deadline, inFlight, winner,
                         answer, ready, wake, result>>
      BY <1>10, <2>3, <3>1 DEF StartAttempt
    <3> QED
      BY SMTT(30), <2>1, <2>2, <2>5, <3>2
  <2>4. CASE how \notin Errors
    <3>1. Min({now + CandidateTimeout, OverallDeadline}) \in Nat
      <4> HIDE DEF Inv, TypeOK
      <4>1. TypeOK
        BY DEF Inv
      <4>2. now + CandidateTimeout \in Nat /\ OverallDeadline \in Nat
        BY <4>1, Numbers
      <4> QED
        BY ZenonT(60), <4>2, MinOfNats
    <3>2. deadline' \in [Places -> Nat]
      BY SMTT(30), <1>10, <2>1, <2>4, <3>1 DEF StartAttempt
    <3>3. /\ inFlight' \subseteq Places /\ open' \subseteq Places
          /\ winner' \in Places \cup {0} /\ attached' \in {0, winner'}
          /\ pc' \in {"top", "finish"}
      BY <1>10, <2>1, <2>4 DEF StartAttempt, Shape, Racing
    <3>4. UNCHANGED <<timeVars, givenVars, answer, ready, wake, result, best, failures>>
      BY <1>10, <2>4 DEF StartAttempt
    <3> QED
      BY SMTT(30), <2>1, <2>2, <2>5, <3>2, <3>3, <3>4
  <2> QED
    BY <2>3, <2>4
<1>11. CASE Exhausted
  BY <1>8, <1>11 DEF Exhausted
<1>12. CASE Sleep
  <2>1. wake' \in Nat
    <3>1. now \in Nat /\ nextStart \in Nat /\ PollSlice \in Nat
      BY Numbers
    <3>2. wake' = Max({now, Min({nextStart, now + PollSlice})})
      BY <1>12 DEF Sleep
    <3> HIDE DEF Inv, TypeOK
    <3>3. now + PollSlice \in Nat
      BY <3>1
    <3> DEFINE until == Min({nextStart, now + PollSlice})
    <3>4. until \in Nat
      BY <3>1, <3>3, MinOfTwo
    <3> HIDE DEF until
    <3>5. Max({now, until}) \in Nat
      BY <3>1, <3>4, MaxOfTwo
    <3> USE DEF until
    <3> QED
      BY <3>2, <3>5
  <2> QED
    BY <1>12, <2>1 DEF Sleep
<1>13. CASE Wakes
  BY <1>13 DEF Wakes
<1>14. CASE Poll
  BY SMTT(30), <1>14, WakeTimeProperties DEF Poll
<1>15. CASE PollFails
  BY <1>8, <1>15 DEF PollFails
<1>16. CASE PollReturns
  <2>1. Answered \subseteq Places
    BY DEF Answered
  <2>2. {answer[o] : o \in Answered} \ {"ok"} \subseteq ErrorClasses
    BY DEF Answered
  <2>3. failures' \subseteq ErrorClasses
    BY <1>16, <2>2 DEF PollReturns
  <2>4. /\ ready' = Answered /\ now' = clock /\ wake' = 0 /\ pc' = "process"
        /\ UNCHANGED <<clock, givenVars, raceVars, answer, open, winner, best, result>>
    BY <1>16 DEF PollReturns
  <2> QED
    BY <2>1, <2>3, <2>4
<1>17. CASE Win
  <2>1. winner' \in Places
    BY <1>17, FirstSuccess DEF Win
  <2>2. attached = 0
    BY <1>17 DEF Win, Shape, Racing
  <2> QED
    BY <1>17, <2>1, <2>2 DEF Win
<1>18. CASE Drop
  <2>1. best' \in ErrorClasses \cup {"none"}
    <3>1. {answer[o] : o \in ready} \subseteq ErrorClasses
      BY <1>18 DEF Drop, Shape
    <3> QED
      BY ZenonT(60), <1>18, <3>1, MostDefiniteProperties DEF Drop
  <2> QED
    BY <1>18, <2>1 DEF Drop
<1>19. CASE RestoreFails
  BY <1>19 DEF RestoreFails, ClosesLosers
<1>20. CASE Attach
  BY SMTT(30), <1>20 DEF Attach, ClosesLosers
<1>21. ASSUME NEW r \in {"stream", "exception"}, Build(r)
       PROVE  TypeOK'
  BY <1>21 DEF Build
<1>22. CASE Discard
  BY <1>22 DEF Discard
<1>23. CASE Unwinds
  BY <1>23 DEF Unwinds
<1>24. CASE UNCHANGED vars
  BY <1>24 DEF vars
<1> QED
  BY <1>1, <1>2, <1>3, <1>4, <1>5, <1>6, <1>7, <1>9, <1>10, <1>11, <1>12, <1>13,
     <1>14, <1>15, <1>16, <1>17, <1>18, <1>19, <1>20, <1>21, <1>22, <1>23, <1>24
  DEF Next, Environment, Loop

\* The actions keep the attempts and the winner as each point of the program
\* has them.
LEMMA ShapeStep == ASSUME Inv, [Next]_vars PROVE Shape'
<1> USE DEF Shape, Racing, Won, timeVars, listVars, userVars, givenVars,
            tryVars, raceVars, netVars, socketVars, endVars, Done
<1>0. /\ TypeOK /\ Shape /\ SocketsAccounted
      /\ next \in Nat /\ Places \subseteq Nat \ {0}
      /\ IsFiniteSet({})
  BY Numbers, FS_EmptySet DEF Inv
<1>a. answer \in [Places -> Errors \cup {"none", "ok"}] /\ inFlight \subseteq Places
  BY <1>0 DEF TypeOK
<1> HIDE DEF Shape
<1>1. CASE CancelRequest
  BY <1>0, <1>1 DEF CancelRequest, Shape
<1>2. ASSUME NEW o \in Places, NEW r \in Errors \cup {"ok"}, Answer(o, r)
      PROVE  Shape'
  <2>1. r # "none"
    BY TcpConnectAssumption DEF ErrorClasses
  <2>2. /\ answer' = [answer EXCEPT ![o] = r]
        /\ UNCHANGED <<timeVars, givenVars, raceVars, open, ready, winner, wake,
                       endVars, pc>>
    BY <1>2 DEF Answer
  <2>3. \A p \in Places : answer[p] # "none" => answer'[p] # "none"
    BY <1>a, <2>1, <2>2
  <2>4. pc = "process" => ready \subseteq inFlight /\ \A p \in ready : answer'[p] # "none"
    BY <1>0, <1>a, <2>3 DEF Shape
  <2> QED
    BY <1>0, <2>2, <2>4 DEF Shape
<1>3. CASE Tick
  BY <1>0, <1>3 DEF Tick, Shape
<1>4. CASE Call
  BY <1>0, <1>4 DEF Call, Shape
<1>5. ASSUME NEW l \in Lists, Resolved(l)
      PROVE  Shape'
  BY <1>0, <1>5, InterleaveProperties DEF Resolved, Shape
<1>6. CASE ResolveFails
  BY <1>0, <1>6 DEF ResolveFails, Shape
<1>7. CASE CheckCancel
  BY <1>0, <1>7 DEF CheckCancel, Shape
<1>8. ASSUME NEW es, Fail(es), pc \in Racing,
             UNCHANGED <<timeVars, givenVars, tryVars, netVars, wake>>
      PROVE  Shape'
  BY <1>0, <1>8 DEF Fail, Shape
<1>9. CASE OverallExpired
  BY <1>8, <1>9 DEF OverallExpired
<1>10. ASSUME NEW how \in {"pending", "connected"} \cup Errors, StartAttempt(how)
       PROVE  Shape'
  <2>1. IsFiniteSet(inFlight') /\ inFlight' \subseteq 1..next'
    <3>1. inFlight' \in {inFlight, inFlight \cup {next + 1}} /\ next' = next + 1
      BY <1>10 DEF StartAttempt
    <3>2. IsFiniteSet(inFlight \cup {next + 1})
      BY <1>0, FS_AddElement DEF Shape
    <3> QED
      BY <1>0, <3>1, <3>2 DEF Shape
  <2>2. UNCHANGED <<timeVars, givenVars, answer, ready, wake, result>> /\ pc = "loop"
    BY <1>10 DEF StartAttempt
  <2>3. \/ pc' = "top" /\ winner' = winner
        \/ pc' = "finish" /\ winner' \in open'
    BY <1>10 DEF StartAttempt
  <2> QED
    BY <1>0, <2>1, <2>2, <2>3 DEF Shape
<1>11. CASE Exhausted
  BY <1>8, <1>11 DEF Exhausted
<1>12. CASE Sleep
  BY <1>0, <1>12 DEF Sleep, Shape
<1>13. CASE Wakes
  BY <1>0, <1>13 DEF Wakes, Shape
<1>14. CASE Poll
  BY <1>0, <1>14 DEF Poll, Shape
<1>15. CASE PollFails
  BY <1>8, <1>15 DEF PollFails
<1>16. CASE PollReturns
  BY <1>0, <1>16 DEF PollReturns, Answered, Shape
<1>17. CASE Win
  <2>1. winner' \in ready
    BY <1>0, <1>17, FirstSuccess DEF Win
  <2>2. winner' \in open
    BY <1>0, <1>17, <2>1 DEF Win, Shape, SocketsAccounted
  <2> QED
    BY <1>0, <1>17, <2>2 DEF Win, Shape
<1>18. CASE Drop
  <2>1. IsFiniteSet(inFlight \ (ready \cup Expired))
    BY <1>0, FS_Subset DEF Shape
  <2> QED
    BY <1>0, <1>18, <2>1 DEF Drop, Shape
<1>19. CASE RestoreFails
  BY <1>0, <1>19 DEF RestoreFails, ClosesLosers, Losers, Shape
<1>20. CASE Attach
  BY <1>0, <1>20 DEF Attach, ClosesLosers, Losers, Shape
<1>21. ASSUME NEW r \in {"stream", "exception"}, Build(r)
       PROVE  Shape'
  BY <1>0, <1>21 DEF Build, Shape
<1>22. CASE Discard
  BY <1>0, <1>22 DEF Discard, Shape
<1>23. CASE Unwinds
  BY <1>0, <1>23 DEF Unwinds, Shape
<1>24. CASE UNCHANGED vars
  BY <1>0, <1>24 DEF vars, Shape
<1> QED
  BY <1>1, <1>2, <1>3, <1>4, <1>5, <1>6, <1>7, <1>9, <1>10, <1>11, <1>12, <1>13,
     <1>14, <1>15, <1>16, <1>17, <1>18, <1>19, <1>20, <1>21, <1>22, <1>23, <1>24
  DEF Next, Environment, Loop

\* Sockets are opened for attempts that have room and closed with them.
LEMMA SocketsStep == ASSUME Inv, [Next]_vars PROVE SocketsAccounted'
<1> USE DEF Racing, Won, timeVars, listVars, userVars, givenVars, tryVars,
            raceVars, netVars, socketVars, endVars, Done
<1>0. /\ TypeOK /\ Shape /\ SocketsAccounted
      /\ next \in Nat /\ cap \in Nat /\ Places \subseteq Nat \ {0}
      /\ IsFiniteSet(inFlight) /\ Cardinality(inFlight) \in Nat
  BY Numbers, FS_CardinalityType DEF Inv, Shape
<1>a. IsFiniteSet(open) /\ Cardinality(open) \in Nat /\ Cardinality(open) <= cap
  <2>1. IsFiniteSet(inFlight \cup {winner})
    BY <1>0, FS_AddElement
  <2>2. open \subseteq inFlight \cup {winner}
    BY <1>0 DEF SocketsAccounted
  <2>3. Cardinality(open) <= cap
    BY <1>0 DEF SocketsAccounted
  <2> QED
    BY <2>1, <2>2, <2>3, FS_Subset, FS_CardinalityType
<1>b. ASSUME NEW some \in SUBSET open
      PROVE  Cardinality(some) <= cap
  <2>1. Cardinality(some) <= Cardinality(open) /\ Cardinality(some) \in Nat
    BY <1>a, FS_Subset, FS_CardinalityType
  <2> QED
    BY <1>0, <1>a, <2>1
<1>1. CASE CancelRequest
  BY <1>0, <1>1 DEF CancelRequest, SocketsAccounted
<1>2. ASSUME NEW o \in Places, NEW r \in Errors \cup {"ok"}, Answer(o, r)
      PROVE  SocketsAccounted'
  BY <1>0, <1>2 DEF Answer, SocketsAccounted
<1>3. CASE Tick
  BY <1>0, <1>3 DEF Tick, SocketsAccounted
<1>4. CASE Call
  BY <1>0, <1>4 DEF Call, SocketsAccounted
<1>5. ASSUME NEW l \in Lists, Resolved(l)
      PROVE  SocketsAccounted'
  BY <1>0, <1>5 DEF Resolved, SocketsAccounted
<1>6. CASE ResolveFails
  <2>1. inFlight = {}
    BY <1>0, <1>6 DEF ResolveFails, Shape
  <2> QED
    BY <1>0, <1>6, <2>1 DEF ResolveFails, SocketsAccounted
<1>7. CASE CheckCancel
  <2>1. open' \subseteq open /\ cap' = cap
    BY <1>7 DEF CheckCancel
  <2>2. Cardinality(open') <= cap
    BY <1>b, <2>1
  <2> QED
    BY <1>0, <1>7, <2>1, <2>2 DEF CheckCancel, SocketsAccounted
<1>8. ASSUME NEW es \in SUBSET ErrorClasses, Fail(es),
             UNCHANGED <<timeVars, givenVars, tryVars, netVars, wake>>
      PROVE  SocketsAccounted'
  <2>1. open' = {} /\ cap' = cap /\ pc' = "done"
    BY <1>8 DEF Fail
  <2>2. Cardinality(open') <= cap
    BY <1>b, <2>1
  <2>3. result' # "stream"
    <3>1. MostDefinite(best, es) \in ErrorClasses \cup {"none"}
      BY <1>0, MostDefiniteProperties DEF TypeOK
    <3> QED
      BY <1>8, <3>1 DEF Fail, ErrorClasses
  <2> QED
    BY <2>1, <2>2, <2>3 DEF SocketsAccounted
<1>9. CASE OverallExpired
  BY <1>8, <1>9 DEF OverallExpired, ErrorClasses
<1>10. ASSUME NEW how \in {"pending", "connected"} \cup Errors, StartAttempt(how)
       PROVE  SocketsAccounted'
  <2>1. pc = "loop" /\ open = inFlight /\ cap' = cap /\ Cardinality(inFlight) < cap
    BY <1>0, <1>10 DEF StartAttempt, MayStart, HasRoom, SocketsAccounted
  <2>2. next + 1 \notin inFlight
    BY <1>0 DEF Shape
  <2>3. Cardinality(open \cup {next + 1}) <= cap
    <3>1. Cardinality(inFlight \cup {next + 1}) = Cardinality(inFlight) + 1
      BY <1>0, <2>2, FS_AddElement
    <3> QED
      BY <1>0, <2>1, <3>1
  <2>4. CASE how \in Errors
    BY <1>0, <1>10, <1>a, <2>1, <2>4 DEF StartAttempt, SocketsAccounted
  <2>5. CASE how \notin Errors
    <3>1. open' = open \cup {next + 1}
      BY <1>10, <2>5 DEF StartAttempt
    <3>2. \/ pc' = "top" /\ inFlight' = inFlight \cup {next + 1}
          \/ pc' = "finish" /\ inFlight' = inFlight /\ winner' = next + 1
      BY <1>10, <2>5 DEF StartAttempt
    <3> QED
      BY <2>1, <2>3, <3>1, <3>2 DEF SocketsAccounted
  <2> QED
    BY <2>4, <2>5
<1>11. CASE Exhausted
  BY <1>8, <1>11 DEF Exhausted
<1>12. CASE Sleep
  BY <1>0, <1>12 DEF Sleep, SocketsAccounted
<1>13. CASE Wakes
  BY <1>0, <1>13 DEF Wakes, SocketsAccounted
<1>14. CASE Poll
  BY <1>0, <1>14 DEF Poll, SocketsAccounted
<1>15. CASE PollFails
  BY <1>8, <1>15 DEF PollFails, ErrorClasses
<1>16. CASE PollReturns
  BY <1>0, <1>16 DEF PollReturns, SocketsAccounted
<1>17. CASE Win
  <2>1. winner' \in ready
    BY <1>0, <1>17, FirstSuccess DEF Win
  <2>2. winner' \in inFlight /\ open = inFlight
    BY <1>0, <1>17, <2>1 DEF Win, Shape, SocketsAccounted
  <2>3. UNCHANGED <<cap, open, inFlight>> /\ pc' = "finish"
    BY <1>17 DEF Win
  <2> QED
    BY <1>a, <2>2, <2>3 DEF SocketsAccounted
<1>18. CASE Drop
  <2>1. /\ pc' = "top" /\ cap' = cap /\ open = inFlight
        /\ open' = open \ (ready \cup Expired)
        /\ inFlight' = inFlight \ (ready \cup Expired)
    BY <1>0, <1>18 DEF Drop, Closing, SocketsAccounted
  <2>2. Cardinality(open') <= cap
    BY <1>b, <2>1
  <2> QED
    BY <2>1, <2>2 DEF SocketsAccounted
<1>19. ASSUME pc = "finish", ClosesLosers, cap' = cap, winner' = winner
       PROVE  open' = {winner'} /\ Cardinality(open') <= cap'
  <2>1. open' = {winner} /\ winner \in open
    BY <1>0, <1>19 DEF ClosesLosers, Losers, Shape
  <2>2. Cardinality(open') <= cap
    BY <1>b, <2>1
  <2> QED
    BY <1>19, <2>1, <2>2
<1>20. CASE RestoreFails
  BY <1>19, <1>20 DEF RestoreFails, SocketsAccounted
<1>21. CASE Attach
  BY <1>19, <1>21 DEF Attach, SocketsAccounted
<1>22. ASSUME NEW r \in {"stream", "exception"}, Build(r)
       PROVE  SocketsAccounted'
  <2>1. open = {winner} /\ UNCHANGED <<open, winner, cap>>
    BY <1>0, <1>22 DEF Build, SocketsAccounted
  <2>2. \/ pc' = "done" /\ result' = "stream"
        \/ pc' = "discard"
    BY <1>22 DEF Build
  <2> QED
    BY <1>a, <2>1, <2>2 DEF SocketsAccounted
<1>23. CASE Discard
  <2>1. open = {winner} /\ open' = {} /\ cap' = cap /\ pc' = "done" /\ result' # "stream"
    BY <1>0, <1>23 DEF Discard, Shape, SocketsAccounted
  <2>2. Cardinality(open') <= cap
    BY <1>b, <2>1
  <2> QED
    BY <2>1, <2>2 DEF SocketsAccounted
<1>24. CASE Unwinds
  <2>1. open' = {} /\ cap' = cap /\ pc' = "done" /\ result' # "stream"
    BY <1>24 DEF Unwinds
  <2>2. Cardinality(open') <= cap
    BY <1>b, <2>1
  <2> QED
    BY <2>1, <2>2 DEF SocketsAccounted
<1>25. CASE UNCHANGED vars
  BY <1>0, <1>25 DEF vars, SocketsAccounted
<1> QED
  BY <1>1, <1>2, <1>3, <1>4, <1>5, <1>6, <1>7, <1>9, <1>10, <1>11, <1>12, <1>13,
     <1>14, <1>15, <1>16, <1>17, <1>18, <1>20, <1>21, <1>22, <1>23, <1>24, <1>25
  DEF Next, Environment, Loop

\* The loop acts on the samples of the clock it needs.
LEMMA TimesStep == ASSUME Inv, [Next]_vars PROVE Times'
<1> USE DEF timeVars, listVars, userVars, givenVars, tryVars, raceVars, netVars,
            socketVars, endVars, Done
<1>0. /\ TypeOK /\ Shape /\ Times
      /\ clock \in Nat /\ now \in Nat /\ wake \in Nat /\ nextStart \in Nat /\ next \in Nat
      /\ OverallDeadline \in Nat /\ PollSlice \in Nat \ {0}
      /\ CandidateTimeout \in Nat \ {0} /\ AttemptDelay \in Nat
  BY Numbers DEF Inv
<1>a. inFlight \subseteq Places /\ deadline \in [Places -> Nat]
  BY <1>0 DEF TypeOK
<1>b. \A o \in inFlight : deadline[o] \in Nat
  BY <1>a
<1> USE DEF CandidatesLeft, HasRoom
<1>1. CASE CancelRequest
  BY <1>0, <1>1 DEF CancelRequest, Times
<1>2. ASSUME NEW o \in Places, NEW r \in Errors \cup {"ok"}, Answer(o, r)
      PROVE  Times'
  BY <1>0, <1>2 DEF Answer, Times
<1>3. CASE Tick
  <2>1. /\ clock' = clock + 1 /\ pc \in {"resolve", "poll", "sleep"}
        /\ pc \in {"poll", "sleep"} => clock < wake \/ clock = now
        /\ UNCHANGED <<now, givenVars, raceVars, socketVars, wake, endVars, pc>>
    BY <1>3 DEF Tick
  <2>2. pc \in {"poll", "sleep"} => clock' <= wake \/ clock' <= now + 1
    BY <1>0, <2>1
  <2> QED
    BY <1>0, <2>1, <2>2 DEF Times
<1>4. CASE Call
  BY <1>0, <1>4 DEF Call, Times
<1>5. ASSUME NEW l \in Lists, Resolved(l)
      PROVE  Times'
  <2>1. inFlight = {}
    BY <1>0, <1>5 DEF Resolved, Shape
  <2> QED
    BY <1>0, <1>5, <2>1 DEF Resolved, Times
<1>6. CASE ResolveFails
  BY <1>0, <1>6 DEF ResolveFails, Times
<1>7. CASE CheckCancel
  <2>1. inFlight # {} => clock = now
    BY <1>0, <1>7 DEF CheckCancel, Times
  <2>2. \A o \in inFlight : clock < deadline[o]
    BY <1>0, <1>7, <2>1 DEF CheckCancel, Times
  <2> QED
    BY <1>0, <1>7, <2>2 DEF CheckCancel, Times
<1>8. ASSUME NEW es, Fail(es), UNCHANGED <<timeVars, givenVars, tryVars, netVars, wake>>
      PROVE  Times'
  BY <1>0, <1>8 DEF Fail, Times
<1>9. CASE OverallExpired
  BY <1>8, <1>9 DEF OverallExpired
<1>10. ASSUME NEW how \in {"pending", "connected"} \cup Errors, StartAttempt(how)
       PROVE  Times'
  <2>1. /\ pc = "loop" /\ clock = now /\ now < OverallDeadline
        /\ pc' \in {"top", "finish"}
        /\ UNCHANGED <<timeVars, givenVars, wake>>
    BY <1>0, <1>10 DEF StartAttempt, TimeIsUp, Times
  <2>2. \A o \in inFlight : now < deadline[o]
    BY <1>0, <2>1 DEF Times
  <2>3. CASE how \in Errors
    BY <1>0, <1>10, <2>1, <2>2, <2>3 DEF StartAttempt, Times
  <2>4. CASE how \notin Errors
    <3> DEFINE until == Min({now + CandidateTimeout, OverallDeadline})
    <3>1. now < until /\ until \in Nat
      <4>1. now + CandidateTimeout \in Nat /\ now < now + CandidateTimeout
        BY <1>0
      <4> QED
        BY <1>0, <2>1, <4>1, MinOfTwo
    <3>2. /\ deadline' = [deadline EXCEPT ![next + 1] = until]
          /\ inFlight' \in {inFlight, inFlight \cup {next + 1}}
      BY <1>10, <2>4 DEF StartAttempt
    <3>3. next + 1 \in Places
      BY <1>0, <1>10, NextHasPlace DEF StartAttempt, MayStart, Shape
    <3> HIDE DEF until
    <3>4. \A o \in inFlight' : now < deadline'[o]
      BY <1>a, <2>2, <3>1, <3>2, <3>3
    <3> QED
      BY <1>0, <2>1, <3>4 DEF Times
  <2> QED
    BY <2>3, <2>4
<1>11. CASE Exhausted
  BY <1>8, <1>11 DEF Exhausted
<1>12. CASE Sleep
  <2>1. /\ pc = "loop" /\ clock = now /\ now < OverallDeadline
        /\ CandidatesLeft /\ ~HasRoom /\ pc' = "sleep"
        /\ UNCHANGED <<timeVars, givenVars, raceVars, socketVars, endVars>>
    BY <1>0, <1>12 DEF Sleep, TimeIsUp, MayStart, Times
  <2>2. wake' <= now + PollSlice
    <3> DEFINE until == Min({nextStart, now + PollSlice})
    <3>1. now + PollSlice \in Nat
      BY <1>0
    <3>2. until \in Nat /\ until <= now + PollSlice
      BY <1>0, <3>1, MinOfTwo
    <3>3. wake' = Max({now, until})
      BY <1>12 DEF Sleep
    <3> HIDE DEF until
    <3>4. Max({now, until}) = IF now >= until THEN now ELSE until
      BY <1>0, <3>2, MaxOfTwo
    <3> QED
      BY <1>0, <3>1, <3>2, <3>3, <3>4
  <2> QED
    BY <1>0, <2>1, <2>2 DEF Times
<1>13. CASE Wakes
  <2>1. inFlight = {}
    BY <1>0, <1>13 DEF Wakes, Shape
  <2> QED
    BY <1>0, <1>13, <2>1 DEF Wakes, Times
<1>14. CASE Poll
  <2>1. /\ pc = "loop" /\ clock = now /\ now < OverallDeadline /\ pc' = "poll"
        /\ wake' = WakeTime
        /\ CandidatesLeft /\ HasRoom => now < nextStart
        /\ UNCHANGED <<timeVars, givenVars, raceVars, socketVars, endVars>>
    BY <1>0, <1>14 DEF Poll, TimeIsUp, MayStart, Times
  <2>2. \A o \in inFlight : now < deadline[o]
    BY <1>0, <2>1 DEF Times
  <2>3. wake' \in Nat /\ (wake' <= now => CandidatesLeft /\ ~HasRoom)
    BY <1>0, <1>b, <2>1, <2>2, WakeTimeProperties
  <2>4. /\ wake' <= now + PollSlice /\ wake' <= OverallDeadline
        /\ \A o \in inFlight : wake' <= deadline[o]
        /\ CandidatesLeft => wake' <= nextStart
    BY <1>0, <2>1, WakeTimeProperties
  <2> QED
    BY <1>0, <2>1, <2>2, <2>3, <2>4 DEF Times
<1>15. CASE PollFails
  BY <1>8, <1>15 DEF PollFails
<1>16. CASE PollReturns
  BY <1>0, <1>16 DEF PollReturns, Times
<1>17. CASE Win
  BY <1>0, <1>17 DEF Win, Times
<1>18. CASE Drop
  <2>1. /\ pc' = "top" /\ clock = now /\ UNCHANGED timeVars
        /\ inFlight' = inFlight \ (ready \cup Expired)
    BY <1>0, <1>18 DEF Drop, Times
  <2>2. ASSUME NEW o \in inFlight'
        PROVE  now < deadline'[o]
    <3>1. o \in Places /\ o \notin ready \cup Expired /\ deadline[o] \in Nat
      BY <1>a, <2>1
    <3>2. deadline'[o] = deadline[o]
      BY <1>18, <3>1 DEF Drop
    <3>3. ~(deadline[o] <= now)
      BY <2>1, <3>1 DEF Expired
    <3> QED
      BY <1>0, <3>1, <3>2, <3>3
  <2> QED
    BY <1>0, <2>1, <2>2 DEF Times
<1>19. CASE RestoreFails
  BY <1>0, <1>19 DEF RestoreFails, Times
<1>20. CASE Attach
  BY <1>0, <1>20 DEF Attach, Times
<1>21. ASSUME NEW r \in {"stream", "exception"}, Build(r)
       PROVE  Times'
  BY <1>0, <1>21 DEF Build, Times
<1>22. CASE Discard
  BY <1>0, <1>22 DEF Discard, Times
<1>23. CASE Unwinds
  BY <1>0, <1>23 DEF Unwinds, Times
<1>24. CASE UNCHANGED vars
  BY <1>0, <1>24 DEF vars, Times
<1> QED
  BY <1>1, <1>2, <1>3, <1>4, <1>5, <1>6, <1>7, <1>9, <1>10, <1>11, <1>12, <1>13,
     <1>14, <1>15, <1>16, <1>17, <1>18, <1>19, <1>20, <1>21, <1>22, <1>23, <1>24
  DEF Next, Environment, Loop

\* A flag set since the last look at it was set after that look.
LEMMA FlagsStep == ASSUME Inv, [Next]_vars PROVE Flags'
<1> USE DEF timeVars, listVars, userVars, givenVars, tryVars, raceVars, netVars,
            socketVars, endVars, Done
<1>0. /\ Flags /\ Times /\ clock \in Nat /\ now \in Nat /\ cancelledAt \in Nat
  BY Numbers DEF Inv
<1>1. CASE CancelRequest
  BY <1>0, <1>1 DEF CancelRequest, Flags, Times
<1>2. ASSUME NEW o \in Places, NEW r \in Errors \cup {"ok"}, Answer(o, r)
      PROVE  Flags'
  BY <1>0, <1>2 DEF Answer, Flags
<1>3. CASE Tick
  BY <1>0, <1>3 DEF Tick, Flags
<1>4. CASE Call
  BY <1>0, <1>4 DEF Call, Flags
<1>5. ASSUME NEW l \in Lists, Resolved(l)
      PROVE  Flags'
  BY <1>0, <1>5 DEF Resolved, Flags
<1>6. CASE ResolveFails
  BY <1>0, <1>6 DEF ResolveFails, Flags
<1>7. CASE CheckCancel
  BY <1>0, <1>7 DEF CheckCancel, Flags
<1>8. ASSUME NEW es, Fail(es), UNCHANGED <<timeVars, givenVars, tryVars, netVars, wake>>
      PROVE  Flags'
  BY <1>0, <1>8 DEF Fail, Flags
<1>9. CASE OverallExpired
  BY <1>8, <1>9 DEF OverallExpired
<1>10. ASSUME NEW how \in {"pending", "connected"} \cup Errors, StartAttempt(how)
       PROVE  Flags'
  <2>1. pc' \in {"top", "finish"} /\ UNCHANGED <<timeVars, givenVars>>
    BY <1>10 DEF StartAttempt
  <2> QED
    BY <1>0, <2>1 DEF Flags
<1>11. CASE Exhausted
  BY <1>8, <1>11 DEF Exhausted
<1>12. CASE Sleep
  BY <1>0, <1>12 DEF Sleep, Flags
<1>13. CASE Wakes
  BY <1>0, <1>13 DEF Wakes, Flags
<1>14. CASE Poll
  BY <1>0, <1>14 DEF Poll, Flags
<1>15. CASE PollFails
  BY <1>8, <1>15 DEF PollFails
<1>16. CASE PollReturns
  BY <1>0, <1>16 DEF PollReturns, Flags
<1>17. CASE Win
  BY <1>0, <1>17 DEF Win, Flags
<1>18. CASE Drop
  BY <1>0, <1>18 DEF Drop, Flags
<1>19. CASE RestoreFails
  BY <1>0, <1>19 DEF RestoreFails, Flags
<1>20. CASE Attach
  BY <1>0, <1>20 DEF Attach, Flags
<1>21. ASSUME NEW r \in {"stream", "exception"}, Build(r)
       PROVE  Flags'
  BY <1>0, <1>21 DEF Build, Flags
<1>22. CASE Discard
  BY <1>0, <1>22 DEF Discard, Flags
<1>23. CASE Unwinds
  BY <1>0, <1>23 DEF Unwinds, Flags
<1>24. CASE UNCHANGED vars
  BY <1>0, <1>24 DEF vars, Flags
<1> QED
  BY <1>1, <1>2, <1>3, <1>4, <1>5, <1>6, <1>7, <1>9, <1>10, <1>11, <1>12, <1>13,
     <1>14, <1>15, <1>16, <1>17, <1>18, <1>19, <1>20, <1>21, <1>22, <1>23, <1>24
  DEF Next, Environment, Loop

\* While the thread looks at the flag and blocks, what it knows of the clock
\* bounds how late it will look again; where it does not, the clock stands still.
LEMMA CancelStep ==
    ASSUME Inv, [Next]_vars, TypeOK', Times', Flags'
    PROVE  CancelSeenSoon'
<1> USE DEF timeVars, listVars, userVars, givenVars, tryVars, raceVars, netVars,
            socketVars, endVars, Done
<1>0. /\ CancelSeenSoon /\ Times /\ clock \in Nat /\ cancelledAt \in Nat
      /\ PollSlice \in Nat
  BY Numbers DEF Inv
<1>1. CASE pc' \in {"loop", "poll", "sleep"}
  <2> HIDE DEF timeVars, listVars, userVars, givenVars, tryVars, raceVars,
               netVars, socketVars, endVars, Done
  <2>1. /\ clock' \in Nat /\ now' \in Nat /\ wake' \in Nat /\ cancelledAt' \in Nat
        /\ PollSlice \in Nat \ {0}
    BY TcpConnectAssumption DEF TypeOK
  <2> SUFFICES ASSUME requested'
               PROVE  clock' <= cancelledAt' + PollSlice
    BY <1>1 DEF CancelSeenSoon
  <2>2. now' <= cancelledAt'
    BY <1>1 DEF Flags
  <2>3. \/ clock' = now'
        \/ wake' <= now' + PollSlice /\ (clock' <= wake' \/ clock' <= now' + 1)
    <3>1. CASE pc' = "loop"
      BY <3>1 DEF Times
    <3>2. CASE pc' \in {"poll", "sleep"}
      BY <3>2 DEF Times
    <3> QED
      BY <1>1, <3>1, <3>2
  <2>4. ASSUME NEW c \in Nat, NEW n \in Nat, NEW w \in Nat, NEW a \in Nat,
               NEW slice \in Nat \ {0}, n <= a,
               c = n \/ (w <= n + slice /\ (c <= w \/ c <= n + 1))
        PROVE  c <= a + slice
    BY <2>4
  <2> QED
    BY <2>1, <2>2, <2>3, <2>4
<1>2. CASE pc' \in {"process", "finish"}
  <2>1. CASE CancelRequest
    BY <1>0, <2>1 DEF CancelRequest, CancelSeenSoon
  <2>2. ASSUME NEW o \in Places, NEW r \in Errors \cup {"ok"}, Answer(o, r)
        PROVE  CancelSeenSoon'
    BY <1>0, <2>2 DEF Answer, CancelSeenSoon
  <2>3. ASSUME NEW how \in {"pending", "connected"} \cup Errors, StartAttempt(how)
        PROVE  CancelSeenSoon'
    BY <1>0, <2>3 DEF StartAttempt, CancelSeenSoon
  <2>4. CASE PollReturns
    BY <1>0, <2>4 DEF PollReturns, CancelSeenSoon
  <2>5. CASE Win
    BY <1>0, <2>5 DEF Win, CancelSeenSoon
  <2>6. CASE UNCHANGED vars
    BY <1>0, <2>6 DEF vars, CancelSeenSoon
  <2>7. CASE Tick
    BY <1>2, <2>7 DEF Tick
  <2>8. CASE Call \/ (\E l \in Lists : Resolved(l)) \/ ResolveFails \/ CheckCancel
    BY <1>2, <2>8 DEF Call, Resolved, ResolveFails, CheckCancel
  <2>9. CASE OverallExpired \/ Exhausted \/ PollFails \/ Sleep \/ Wakes \/ Poll
    BY <1>2, <2>9 DEF OverallExpired, Exhausted, PollFails, Fail, Sleep, Wakes, Poll
  <2>10. CASE \/ Drop \/ RestoreFails \/ Attach \/ Discard \/ Unwinds
              \/ \E r \in {"stream", "exception"} : Build(r)
    BY <1>2, <2>10 DEF Drop, RestoreFails, Attach, Build, Discard, Unwinds
  <2> QED
    BY <2>1, <2>2, <2>3, <2>4, <2>5, <2>6, <2>7, <2>8, <2>9, <2>10
    DEF Next, Environment, Loop
<1>3. CASE pc' \notin {"loop", "poll", "sleep", "process", "finish"}
  BY <1>3 DEF CancelSeenSoon
<1> QED
  BY <1>1, <1>2, <1>3

\* What is remembered beats whatever the loop has been told of.
LEMMA RememberedStep == ASSUME Inv, [Next]_vars PROVE Remembered'
<1> USE DEF Racing, timeVars, listVars, userVars, givenVars, tryVars, raceVars,
            netVars, socketVars, endVars, Done
<1>0. /\ TypeOK /\ Shape /\ Remembered
      /\ best \in ErrorClasses \cup {"none"} /\ failures \subseteq ErrorClasses
      /\ Errors \subseteq ErrorClasses
      /\ answer \in [Places -> Errors \cup {"none", "ok"}] /\ ready \subseteq Places
  BY TcpConnectAssumption DEF Inv, TypeOK
<1>a. ErrorClasses = {"refused", "timeout", "unreachable", "unavailable", "other"}
  BY DEF ErrorClasses
<1>b. \A e \in ErrorClasses \cup {"none"} : Definiteness(e) \in Int
  BY <1>a DEF Definiteness
<1>c. ASSUME NEW es \in SUBSET ErrorClasses
      PROVE  /\ MostDefinite(best, es) \in ErrorClasses \cup {"none"}
             /\ Definiteness(best) <= Definiteness(MostDefinite(best, es))
             /\ \A e \in es : Definiteness(e) <= Definiteness(MostDefinite(best, es))
             /\ \A e \in failures : Definiteness(e) <= Definiteness(best) =>
                   Definiteness(e) <= Definiteness(MostDefinite(best, es))
  <2> DEFINE kept == MostDefinite(best, es)
  <2>1. kept \in es \cup {best} /\ \A e \in es \cup {best} : Definiteness(e) <= Definiteness(kept)
    BY <1>0, MostDefiniteProperties
  <2> HIDE DEF kept
  <2>2. kept \in ErrorClasses \cup {"none"}
    BY <1>0, <2>1
  <2>3. ASSUME NEW e \in failures, Definiteness(e) <= Definiteness(best)
        PROVE  Definiteness(e) <= Definiteness(kept)
    <3>1. Definiteness(best) <= Definiteness(kept)
      BY <2>1
    <3>2. Definiteness(e) \in Int /\ Definiteness(best) \in Int /\ Definiteness(kept) \in Int
      BY <1>0, <1>b, <2>2
    <3> QED
      BY <2>3, <3>1, <3>2
  <2> QED
    BY <2>1, <2>2, <2>3 DEF kept
<1>d. result = "none" => result \notin ErrorClasses
  BY <1>a
<1>1. CASE CancelRequest
  BY <1>0, <1>1 DEF CancelRequest, Remembered
<1>2. ASSUME NEW o \in Places, NEW r \in Errors \cup {"ok"}, Answer(o, r)
      PROVE  Remembered'
  <2>1. /\ answer' = [answer EXCEPT ![o] = r] /\ answer[o] = "none"
        /\ UNCHANGED <<timeVars, givenVars, raceVars, open, ready, winner, wake,
                       endVars, pc>>
    BY <1>2 DEF Answer
  <2>2. pc = "process" => o \notin ready
    BY <1>0, <2>1 DEF Shape
  <2>3. pc = "process" => \A p \in ready : answer'[p] = answer[p]
    BY <1>0, <2>1, <2>2
  <2> QED
    BY <1>0, <2>1, <2>3 DEF Remembered
<1>3. CASE Tick
  BY <1>0, <1>3 DEF Tick, Remembered
<1>4. CASE Call
  BY <1>0, <1>4 DEF Call, Remembered
<1>5. ASSUME NEW l \in Lists, Resolved(l)
      PROVE  Remembered'
  BY <1>0, <1>5 DEF Resolved, Remembered
<1>6. CASE ResolveFails
  BY <1>0, <1>6, <1>a DEF ResolveFails, Remembered
<1>7. CASE CheckCancel
  BY <1>0, <1>7, <1>a DEF CheckCancel, Remembered
<1>8. ASSUME NEW es \in SUBSET ErrorClasses, Fail(es), pc \in Racing \ {"process"},
             UNCHANGED <<timeVars, givenVars, tryVars, netVars, wake>>,
             failures' \subseteq failures \cup es
      PROVE  Remembered'
  <2>1. /\ best' = MostDefinite(best, es) /\ pc' = "done"
        /\ result' = IF best' = "none" THEN "timeout" ELSE best'
    BY <1>8 DEF Fail
  <2>2. \A e \in failures : Definiteness(e) <= Definiteness(best)
    BY <1>0, <1>8 DEF Remembered
  <2>3. \A e \in failures' : Definiteness(e) <= Definiteness(best')
    BY <1>8, <1>c, <2>1, <2>2
  <2> QED
    BY <2>1, <2>3 DEF Remembered
<1>9. CASE OverallExpired
  BY <1>8, <1>9 DEF OverallExpired, ErrorClasses
<1>10. ASSUME NEW how \in {"pending", "connected"} \cup Errors, StartAttempt(how)
       PROVE  Remembered'
  <2>1. /\ pc = "loop" /\ pc' \in {"top", "finish"}
        /\ UNCHANGED <<timeVars, givenVars, answer, ready, wake, result>>
    BY <1>10 DEF StartAttempt
  <2>2. (\A e \in failures : Definiteness(e) <= Definiteness(best)) /\ result = "none"
    BY <1>0, <2>1 DEF Remembered, Shape
  <2>3. CASE how \in Errors
    <3>1. best' = MostDefinite(best, {how}) /\ failures' = failures \cup {how}
      BY <1>10, <2>3 DEF StartAttempt
    <3>2. \A e \in failures' : Definiteness(e) <= Definiteness(best')
      BY <1>0, <1>c, <2>2, <2>3, <3>1
    <3> QED
      BY <1>d, <2>1, <2>2, <3>2 DEF Remembered
  <2>4. CASE how \notin Errors
    <3>1. UNCHANGED <<best, failures>>
      BY <1>10, <2>4 DEF StartAttempt
    <3> QED
      BY <1>d, <2>1, <2>2, <3>1 DEF Remembered
  <2> QED
    BY <2>3, <2>4
<1>11. CASE Exhausted
  BY <1>8, <1>11 DEF Exhausted
<1>12. CASE Sleep
  BY <1>0, <1>12 DEF Sleep, Remembered
<1>13. CASE Wakes
  BY <1>0, <1>13 DEF Wakes, Remembered
<1>14. CASE Poll
  BY <1>0, <1>14 DEF Poll, Remembered
<1>15. CASE PollFails
  BY <1>8, <1>15 DEF PollFails, ErrorClasses
<1>16. CASE PollReturns
  <2>1. /\ pc = "poll" /\ pc' = "process" /\ ready' = Answered
        /\ failures' = failures \cup ({answer[o] : o \in Answered} \ {"ok"})
        /\ UNCHANGED <<answer, best, result>>
    BY <1>16 DEF PollReturns
  <2>2. \A e \in failures : Definiteness(e) <= Definiteness(best)
    BY <1>0, <2>1 DEF Remembered
  <2> QED
    BY <2>1, <2>2 DEF Remembered
<1>17. CASE Win
  <2>1. result' = "none" /\ pc' = "finish"
    BY <1>0, <1>17 DEF Win, Shape
  <2> QED
    BY <1>a, <2>1 DEF Remembered
<1>18. CASE Drop
  <2> DEFINE told == {answer[o] : o \in ready}
                       \cup (IF Expired = {} THEN {} ELSE {"timeout"})
  <2>1. /\ pc = "process" /\ pc' = "top" /\ best' = MostDefinite(best, told)
        /\ UNCHANGED <<result, failures>>
    BY <1>18 DEF Drop
  <2>2. told \in SUBSET ErrorClasses /\ \A o \in ready : answer[o] \in told
    <3>1. {answer[o] : o \in ready} \subseteq ErrorClasses
      BY <1>0, <1>18 DEF Drop, Shape
    <3> QED
      BY <1>a, <3>1
  <2> HIDE DEF told
  <2>3. ASSUME NEW e \in failures'
        PROVE  Definiteness(e) <= Definiteness(best')
    <3>1. \/ Definiteness(e) <= Definiteness(best)
          \/ \E o \in ready : answer[o] = e
      BY <1>0, <2>1 DEF Remembered
    <3> QED
      BY <1>c, <2>1, <2>2, <3>1
  <2>4. result' = "none"
    BY <1>0, <2>1 DEF Shape
  <2> QED
    BY <1>a, <2>1, <2>3, <2>4 DEF Remembered
<1>19. CASE RestoreFails
  BY <1>a, <1>19 DEF RestoreFails, Remembered
<1>20. CASE Attach
  <2>1. pc' \in {"attached", "discard"} /\ result' \in {"none", "cancelled"}
    BY <1>0, <1>20 DEF Attach, Shape
  <2> QED
    BY <1>a, <2>1 DEF Remembered
<1>21. ASSUME NEW r \in {"stream", "exception"}, Build(r)
       PROVE  Remembered'
  BY <1>a, <1>21 DEF Build, Remembered
<1>22. CASE Discard
  BY <1>0, <1>a, <1>22 DEF Discard, Shape, Remembered
<1>23. CASE Unwinds
  BY <1>a, <1>23 DEF Unwinds, Remembered
<1>24. CASE UNCHANGED vars
  BY <1>0, <1>24 DEF vars, Remembered
<1> QED
  BY <1>1, <1>2, <1>3, <1>4, <1>5, <1>6, <1>7, <1>9, <1>10, <1>11, <1>12, <1>13,
     <1>14, <1>15, <1>16, <1>17, <1>18, <1>19, <1>20, <1>21, <1>22, <1>23, <1>24
  DEF Next, Environment, Loop

-----------------------------------------------------------------------------

\* The conjunction of all of it is inductive.
LEMMA Invariant == Spec => []Inv
<1>1. Init => Inv
  <2> SUFFICES ASSUME Init PROVE Inv
    OBVIOUS
  <2>1. Caps \subseteq Nat /\ cap \in Caps
    BY TcpConnectAssumption DEF Init
  <2>2. /\ \A o \in Places : deadline[o] = 0 /\ answer[o] = "none"
        /\ deadline \in [Places -> Nat]
        /\ answer \in [Places -> Errors \cup {"none", "ok"}]
    BY DEF Init
  <2>3. /\ clock = 0 /\ now = 0 /\ wake = 0 /\ nextStart = 0 /\ next = 0
        /\ cancelledAt = 0 /\ winner = 0 /\ attached = 0 /\ requested = FALSE
        /\ inFlight = {} /\ open = {} /\ ready = {} /\ failures = {}
        /\ best = "none" /\ result = "none" /\ pc = "call"
        /\ listed = <<>> /\ candidates = <<>> /\ Len(candidates) = 0
    BY DEF Init
  <2>4. IsFiniteSet({}) /\ Cardinality({}) = 0
    BY FS_EmptySet
  <2>5. TypeOK
    <3>1. /\ {clock, now, nextStart, wake, cancelledAt, next} \subseteq Nat
          /\ next <= Len(candidates) /\ DOMAIN candidates = DOMAIN listed
      BY <2>3
    <3>2. /\ inFlight \subseteq Places /\ open \subseteq Places /\ ready \subseteq Places
          /\ failures \subseteq ErrorClasses /\ requested \in BOOLEAN
          /\ attached \in {0, winner} /\ winner \in Places \cup {0}
          /\ listed \in Lists \cup {<<>>} /\ best \in ErrorClasses \cup {"none"}
      BY <2>3
    <3> QED
      BY <2>1, <2>2, <2>3, <3>1, <3>2 DEF TypeOK
  <2>6. Shape
    BY <2>3, <2>4 DEF Shape, Racing, Won
  <2>7. SocketsAccounted
    BY <2>1, <2>3, <2>4 DEF SocketsAccounted
  <2>8. Times /\ Flags /\ CancelSeenSoon
    BY <2>3 DEF Times, Flags, CancelSeenSoon
  <2>9. Remembered
    BY <2>3 DEF Remembered, ErrorClasses
  <2> QED
    BY <2>5, <2>6, <2>7, <2>8, <2>9 DEF Inv
<1>2. Inv /\ [Next]_vars => Inv'
  <2> SUFFICES ASSUME Inv, [Next]_vars PROVE Inv'
    OBVIOUS
  <2>1. TypeOK' /\ Shape' /\ SocketsAccounted' /\ Times' /\ Flags' /\ Remembered'
    BY TypeStep, ShapeStep, SocketsStep, TimesStep, FlagsStep, RememberedStep
  <2>2. CancelSeenSoon'
    BY <2>1, CancelStep
  <2> QED
    BY <2>1, <2>2 DEF Inv
<1> QED
  BY <1>1, <1>2, PTL DEF Spec

\* Every variable keeps its type.
THEOREM TypeCorrect == Spec => []TypeOK
BY Invariant, PTL DEF Inv

\* tcp_stream.h:115-116: whichever way connect() ends, the losing and failed
\* attempts are closed, one socket is left exactly when a stream is returned,
\* and max_in_flight bounds the sockets that are open at once.
THEOREM SocketsAreAccounted == Spec => []SocketsAccounted
BY Invariant, PTL DEF Inv

\* tcp_stream.h:118-119: a cancellation is observed within one poll slice of
\* the moment it is requested.
THEOREM CancelIsSeenSoon == Spec => []CancelSeenSoon
BY Invariant, PTL DEF Inv

\* No attempt outlives its deadline inside WSAPoll, nor the call its overall
\* deadline, no stagger is overslept, and a wait of no time at all is entered
\* only while a candidate is due and all slots are taken.
THEOREM WakesInTime == Spec => []WakesOnTime
<1>1. Inv => WakesOnTime
  <2> SUFFICES ASSUME Inv PROVE WakesOnTime
    OBVIOUS
  <2>1. /\ TypeOK /\ Times /\ clock \in Nat /\ now \in Nat /\ wake \in Nat
        /\ nextStart \in Nat /\ OverallDeadline \in Nat
    BY Numbers DEF Inv
  <2>2. \A o \in inFlight : deadline[o] \in Nat
    BY <2>1 DEF TypeOK
  <2>3. ASSUME pc = "poll"
        PROVE  /\ clock <= OverallDeadline
               /\ \A o \in inFlight : clock <= deadline[o]
               /\ CandidatesLeft /\ HasRoom => clock <= nextStart
    <3>1. /\ clock <= wake \/ clock <= now + 1
          /\ now < OverallDeadline /\ wake <= OverallDeadline
          /\ \A o \in inFlight : now < deadline[o] /\ wake <= deadline[o]
          /\ CandidatesLeft /\ HasRoom => now < nextStart /\ wake <= nextStart
      BY <2>1, <2>3 DEF Times
    <3>2. ASSUME NEW t \in Nat, now < t, wake <= t PROVE clock <= t
      BY <2>1, <3>1, <3>2
    <3> QED
      BY <2>1, <2>2, <3>1, <3>2
  <2>4. ASSUME pc \in {"poll", "sleep"}, wake <= now
        PROVE  ~HasRoom /\ CandidatesLeft
    <3>1. CASE pc = "sleep"
      BY <2>1, <3>1 DEF Times
    <3>2. CASE pc = "poll"
      BY <2>1, <2>4, <3>2 DEF Times
    <3> QED
      BY <2>4, <3>1, <3>2
  <2> QED
    BY <2>3, <2>4 DEF WakesOnTime
<1> QED
  BY <1>1, Invariant, PTL

\* remember(): a failed connect reports a failure that none of the failures it
\* met beats.
THEOREM MostDefiniteIsReported == Spec => []MostDefiniteReported
<1>1. Inv => MostDefiniteReported
  <2> SUFFICES ASSUME Inv, pc = "done", result \in ErrorClasses, NEW e \in failures
               PROVE  Definiteness(e) <= Definiteness(result)
    BY DEF MostDefiniteReported
  <2>1. e \in ErrorClasses /\ Definiteness(e) <= Definiteness(best)
    BY DEF Inv, TypeOK, Remembered
  <2>2. result = best \/ best = "none"
    BY DEF Inv, Remembered
  <2>3. best # "none"
    BY <2>1 DEF Definiteness, ErrorClasses
  <2> QED
    BY <2>1, <2>2, <2>3
<1> QED
  BY <1>1, Invariant, PTL

-----------------------------------------------------------------------------
(* The race implements the connect() of module TcpStream.                  *)

\* What TcpStream sees of the call is the same where the race goes on.
LEMMA SeesNothing ==
    ASSUME requested' = requested, attached' = attached, Call_pc' = Call_pc,
           Call_outcome' = Call_outcome, Call_socket' = Call_socket,
           pc = "call" <=> pc' = "call"
    PROVE  UNCHANGED Stream!vars
BY DEF Stream!vars, Call_fresh

\* A race that ends without a stream and without a socket is a connect that
\* fails, cancelled only when that was asked.
LEMMA SeesFailure ==
    ASSUME pc \in Racing \ {"call"}, pc' = "done", result = "none",
           result' \notin {"none", "stream"}, result' = "cancelled" => requested,
           Call_socket = "none", Call_socket' = "none",
           requested' = requested, attached' = attached
    PROVE  Stream!Next
<1> DEFINE r == IF result' = "cancelled" THEN "cancelled" ELSE "error"
<1>1. /\ Call_pc = "connecting" /\ Call_pc' = "idle"
      /\ Call_outcome = "none" /\ Call_outcome' = r
  BY DEF Call_pc, Call_outcome, Racing
<1>2. Call_fresh = [socket |-> "none", cancel |-> "handle"]
  BY <1>1 DEF Call_fresh
<1>3. Call_fresh' = [socket |-> "none", cancel |-> "none"]
  BY <1>1 DEF Call_fresh
<1>4. r = "cancelled" => requested
  OBVIOUS
<1>5. pc # "call" /\ pc' # "call"
  BY DEF Racing
<1> HIDE DEF r
<1>6. Stream!ConnectFails("caller", r)
  BY <1>1, <1>2, <1>3, <1>4, <1>5
  DEF Stream!ConnectFails, Stream!CancelRequested, Stream!Return, Stream!Empty,
      Stream!stateVars, Stream!kernelVars, Stream!cancelVars
<1>7. r \in {"cancelled", "error"}
  BY DEF r
<1> QED
  BY <1>6, <1>7 DEF Stream!Next, Stream!ConnectStep

\* A race that has a winner is a connect that wins a descriptor.
LEMMA SeesWin ==
    ASSUME pc \in Racing \ {"call"}, pc' = "finish", result = "none", result' = "none",
           Call_socket = "none", Call_socket' = "socket",
           requested' = requested, attached' = attached
    PROVE  Stream!Next
<1>1. /\ Call_pc = "connecting" /\ Call_pc' = "won"
      /\ Call_outcome = "none" /\ Call_outcome' = "none"
  BY DEF Call_pc, Call_outcome, Racing
<1>2. /\ Call_fresh = [socket |-> "none", cancel |-> "handle"]
      /\ Call_fresh' = [socket |-> "socket", cancel |-> "handle"]
  BY <1>1 DEF Call_fresh
<1>3. pc # "call" /\ pc' # "call"
  BY DEF Racing
<1>4. Stream!ConnectWins("caller", "socket")
  BY <1>1, <1>2, <1>3
  DEF Stream!ConnectWins, Stream!Goto, Stream!stateVars, Stream!cancelVars
<1> QED
  BY <1>4 DEF Stream!Next, Stream!ConnectStep

\* The winner that did not become a stream is given up before it is discarded.
LEMMA SeesGivingUp ==
    ASSUME pc \in {"finish", "attached"}, pc' = "discard", result = "none",
           result' \in {"restore_failed", "exception"},
           result' = "restore_failed" <=> pc = "finish",
           Call_socket = "socket", Call_socket' = "socket",
           requested' = requested, attached' = attached
    PROVE  Stream!Next
<1>1. /\ Call_pc' = "discard" /\ Call_outcome = "none" /\ Call_outcome' = "error"
  BY DEF Call_pc, Call_outcome
<1>2. pc = "finish" => Call_pc = "won"
  BY DEF Call_pc
<1>3. pc = "attached" => Call_pc = "attached"
  BY DEF Call_pc
<1>4. Call_fresh' = Call_fresh
  BY <1>1, <1>2, <1>3 DEF Call_fresh
<1>5. pc # "call" /\ pc' # "call"
  OBVIOUS
<1>6. CASE pc = "finish"
  <2>1. Stream!RestoreFails("caller")
    BY <1>1, <1>2, <1>4, <1>5, <1>6
    DEF Stream!RestoreFails, Stream!Goto, Stream!stateVars, Stream!kernelVars,
        Stream!cancelVars
  <2> QED
    BY <2>1 DEF Stream!Next, Stream!ConnectStep
<1>7. CASE pc = "attached"
  <2>1. Stream!BuildThrows("caller")
    BY <1>1, <1>3, <1>4, <1>5, <1>7
    DEF Stream!BuildThrows, Stream!Goto, Stream!stateVars, Stream!kernelVars,
        Stream!cancelVars
  <2> QED
    BY <2>1 DEF Stream!Next, Stream!ConnectStep
<1> QED
  BY <1>6, <1>7

\* Every step of the race is a step of connect() or none at all.
LEMMA StepIsImplemented ==
    ASSUME Inv, Inv', [Next]_vars
    PROVE  [Stream!Next]_(Stream!vars)
<1> USE DEF timeVars, listVars, userVars, givenVars, tryVars, raceVars, netVars,
            socketVars, endVars, Done
<1>0. /\ Shape /\ Shape' /\ 0 \notin Places
      /\ open \subseteq Places /\ open' \subseteq Places
  BY Numbers DEF Inv, TypeOK
<1>a. /\ pc \in Racing => Call_socket = "none" /\ result = "none"
      /\ pc' \in Racing => Call_socket' = "none" /\ result' = "none"
      /\ pc \in Won => Call_socket = "socket"
      /\ pc' \in Won => Call_socket' = "socket"
  BY <1>0 DEF Shape, Racing, Won, Call_socket
<1>b. ASSUME pc \in Racing \ {"call"}, pc' \in Racing \ {"call"},
             requested' = requested, attached' = attached
      PROVE  UNCHANGED Stream!vars
  <2>1. Call_pc' = Call_pc /\ Call_outcome' = Call_outcome
    BY <1>a, <1>b DEF Racing, Call_pc, Call_outcome
  <2> QED
    BY <1>a, <1>b, <2>1, SeesNothing
<1>c. ASSUME pc \in Racing \ {"call"}, pc' = "done", open' = {},
             result' \notin {"none", "stream"}, result' = "cancelled" => requested,
             requested' = requested, attached' = attached
      PROVE  Stream!Next
  <2>1. Call_socket' = "none"
    BY <1>c DEF Call_socket
  <2> QED
    BY <1>a, <1>c, <2>1, SeesFailure
<1>d. ASSUME NEW es \in SUBSET ErrorClasses, Fail(es), pc \in Racing \ {"call"},
             UNCHANGED <<timeVars, givenVars, tryVars, netVars, wake>>
      PROVE  Stream!Next
  <2>1. MostDefinite(best, es) \in ErrorClasses \cup {"none"}
    BY MostDefiniteProperties DEF Inv, TypeOK
  <2>2. result' \in ErrorClasses
    BY <1>d, <2>1 DEF Fail, ErrorClasses
  <2> QED
    BY <1>c, <1>d, <2>2 DEF Fail, ErrorClasses
<1> USE DEF Racing, Won
<1>1. CASE CancelRequest
  <2>1. /\ requested = FALSE /\ requested' = TRUE
        /\ UNCHANGED <<attached, open, winner, result, pc>>
    BY <1>1 DEF CancelRequest, Inv, TypeOK
  <2>2. UNCHANGED <<Call_pc, Call_outcome, Call_socket, Call_fresh>>
    BY <2>1 DEF Call_pc, Call_outcome, Call_socket, Call_fresh
  <2>3. Stream!Cancel("canceller", "handle")
    BY <2>1, <2>2 DEF Stream!Cancel, Stream!kernelVars
  <2> QED
    BY <2>3 DEF Stream!Next, Stream!CancelStep
<1>2. ASSUME NEW o \in Places, NEW r \in Errors \cup {"ok"}, Answer(o, r)
      PROVE  UNCHANGED Stream!vars
  <2>1. UNCHANGED <<requested, attached, open, winner, result, pc>>
    BY <1>2 DEF Answer
  <2> QED
    BY <2>1, SeesNothing DEF Call_pc, Call_outcome, Call_socket
<1>3. CASE Tick
  <2>1. UNCHANGED <<requested, attached, open, winner, result, pc>>
    BY <1>3 DEF Tick
  <2> QED
    BY <2>1, SeesNothing DEF Call_pc, Call_outcome, Call_socket
<1>4. CASE Call
  <2>1. /\ pc = "call" /\ pc' = "resolve"
        /\ UNCHANGED <<requested, attached, open, winner, result>>
    BY <1>4 DEF Call
  <2>2. /\ Call_pc = "idle" /\ Call_pc' = "connecting"
        /\ Call_socket = "none" /\ Call_socket' = "none"
        /\ UNCHANGED Call_outcome
    BY <1>a, <2>1 DEF Call_pc, Call_outcome
  <2>3. /\ Call_fresh = [socket |-> "none", cancel |-> "none"]
        /\ Call_fresh' = [socket |-> "none", cancel |-> "handle"]
    BY <2>2 DEF Call_fresh
  <2>4. Stream!Connect("caller", "handle")
    BY <2>1, <2>2, <2>3
    DEF Stream!Connect, Stream!Goto, Stream!stateVars, Stream!kernelVars,
        Stream!cancelVars
  <2> QED
    BY <2>4 DEF Stream!Next, Stream!ConnectStep
<1>5. ASSUME NEW l \in Lists, Resolved(l)
      PROVE  UNCHANGED Stream!vars
  BY <1>5, <1>b DEF Resolved
<1>6. CASE ResolveFails
  <2>1. open' = {}
    BY <1>0, <1>6 DEF ResolveFails, Shape, Inv, SocketsAccounted
  <2> QED
    BY <1>6, <1>c, <2>1 DEF ResolveFails
<1>7. CASE CheckCancel
  BY <1>7, <1>b, <1>c DEF CheckCancel
<1>8. CASE OverallExpired
  BY <1>8, <1>d DEF OverallExpired, ErrorClasses
<1>9. ASSUME NEW how \in {"pending", "connected"} \cup Errors, StartAttempt(how)
      PROVE  [Stream!Next]_(Stream!vars)
  <2>1. /\ pc = "loop" /\ pc' \in {"top", "finish"}
        /\ UNCHANGED <<requested, attached, result>>
    BY <1>9 DEF StartAttempt
  <2>2. CASE pc' = "top"
    BY <1>b, <2>1, <2>2
  <2>3. CASE pc' = "finish"
    BY <1>a, <2>1, <2>3, SeesWin
  <2> QED
    BY <2>1, <2>2, <2>3
<1>10. CASE Exhausted
  BY <1>10, <1>d DEF Exhausted
<1>11. CASE Sleep
  BY <1>11, <1>b DEF Sleep
<1>12. CASE Wakes
  BY <1>12, <1>b DEF Wakes
<1>13. CASE Poll
  BY <1>13, <1>b DEF Poll
<1>14. CASE PollFails
  BY <1>14, <1>d DEF PollFails, ErrorClasses
<1>15. CASE PollReturns
  BY <1>15, <1>b DEF PollReturns
<1>16. CASE Win
  <2>1. /\ pc = "process" /\ pc' = "finish"
        /\ UNCHANGED <<requested, attached, result>>
    BY <1>16 DEF Win
  <2> QED
    BY <1>a, <2>1, SeesWin
<1>17. CASE Drop
  BY <1>17, <1>b DEF Drop
<1>18. CASE RestoreFails
  BY <1>0, <1>18, <1>a, SeesGivingUp DEF RestoreFails, Shape
<1>19. CASE Attach
  <2>1. /\ pc = "finish" /\ pc' \in {"attached", "discard"} /\ result = "none"
        /\ Call_socket = "socket" /\ Call_socket' = "socket" /\ winner # 0
        /\ UNCHANGED requested
    BY <1>0, <1>19, <1>a DEF Attach, Shape
  <2>2. /\ Call_pc = "won" /\ Call_pc' = pc'
        /\ Call_outcome = "none"
        /\ UNCHANGED Call_fresh
    BY <2>1 DEF Call_pc, Call_outcome, Call_fresh
  <2>3. Call_fresh = [socket |-> "socket", cancel |-> "handle"]
    BY <2>1, <2>2 DEF Call_fresh
  <2>4. Stream!Attach("caller")
    <3>1. CASE requested
      <4>1. Call_outcome' = "cancelled" /\ pc' = "discard" /\ UNCHANGED attached
        BY <1>19, <3>1 DEF Attach, Refused, Call_outcome
      <4> QED
        BY <2>1, <2>2, <2>3, <3>1, <4>1
        DEF Stream!Attach, Stream!Goto, Stream!kernelVars, Stream!cancelVars
    <3>2. CASE ~requested
      <4>1. /\ attached' # 0 /\ pc' = "attached" /\ UNCHANGED Call_outcome
        BY <1>19, <2>1, <3>2 DEF Attach, Refused, Call_outcome
      <4> QED
        BY <2>1, <2>2, <2>3, <3>2, <4>1
        DEF Stream!Attach, Stream!Goto, Stream!kernelVars, Stream!cancelVars
    <3> QED
      BY <3>1, <3>2
  <2> QED
    BY <2>4 DEF Stream!Next, Stream!ConnectStep
<1>20. ASSUME Build("exception")
       PROVE  Stream!Next
  BY <1>0, <1>20, <1>a, SeesGivingUp DEF Build, Shape
<1>21. ASSUME Build("stream")
       PROVE  Stream!Next
  <2>1. /\ pc = "attached" /\ pc' = "done" /\ result = "none" /\ result' = "stream"
        /\ UNCHANGED <<requested, attached, open, winner>>
    BY <1>0, <1>21 DEF Build, Shape
  <2>2. /\ Call_pc = "attached" /\ Call_pc' = "built"
        /\ Call_outcome = "none" /\ Call_outcome' = "connected"
        /\ UNCHANGED Call_socket
    BY <2>1 DEF Call_pc, Call_outcome, Call_socket
  <2>3. UNCHANGED Call_fresh
    BY <2>2 DEF Call_fresh
  <2>4. Stream!Build("caller")
    BY <2>1, <2>2, <2>3
    DEF Stream!Build, Stream!Goto, Stream!stateVars, Stream!kernelVars,
        Stream!cancelVars
  <2> QED
    BY <2>4 DEF Stream!Next, Stream!ConnectStep
<1>22. CASE Discard
  <2>1. /\ pc = "discard" /\ pc' = "done" /\ Call_socket = "socket"
        /\ result \in {"restore_failed", "cancelled", "exception"}
        /\ UNCHANGED <<requested, attached, result>>
        /\ winner' \notin open'
    BY <1>0, <1>22, <1>a DEF Discard, Shape
  <2>2. /\ Call_pc = "discard" /\ Call_pc' = "idle" /\ Call_socket' = "none"
        /\ UNCHANGED Call_outcome
    BY <2>1 DEF Call_pc, Call_outcome, Call_socket
  <2>3. /\ Call_fresh = [socket |-> "socket", cancel |-> "handle"]
        /\ Call_fresh' = [socket |-> "none", cancel |-> "none"]
    BY <2>1, <2>2 DEF Call_fresh
  <2>4. Stream!Discard("caller")
    BY <2>1, <2>2, <2>3
    DEF Stream!Discard, Stream!CloseSocket, Stream!Goto, Stream!Empty,
        Stream!stateVars, Stream!cancelVars
  <2> QED
    BY <2>4 DEF Stream!Next, Stream!ConnectStep
<1>23. CASE Unwinds
  BY <1>23, <1>c DEF Unwinds
<1>24. CASE UNCHANGED vars
  <2>1. UNCHANGED <<requested, attached, open, winner, result, pc>>
    BY <1>24 DEF vars
  <2> QED
    BY <2>1, SeesNothing DEF Call_pc, Call_outcome, Call_socket
<1> QED
  BY <1>1, <1>2, <1>3, <1>4, <1>5, <1>6, <1>7, <1>8, <1>9, <1>10, <1>11, <1>12, <1>13,
     <1>14, <1>15, <1>16, <1>17, <1>18, <1>19, <1>20, <1>21, <1>22, <1>23, <1>24
  DEF Next, Environment, Loop

\* Whatever TcpStream promises of connect() holds of the race: it wins at most
\* one socket, attaches it only when no cancellation was requested, reports a
\* cancellation only then, and keeps or closes the socket as TcpStream says.
THEOREM ConnectIsImplemented == Spec => ImplementsConnect
<1>1. Init => Stream!Init
  BY DEF Init, Stream!Init, Stream!Empty, Call_pc, Call_outcome, Call_socket, Call_fresh
<1>2. Inv /\ Inv' /\ [Next]_vars => [Stream!Next]_(Stream!vars)
  BY StepIsImplemented
<1> QED
  BY <1>1, <1>2, Invariant, PTL DEF Spec, ImplementsConnect, Stream!Spec
-----------------------------------------------------------------------------
(* The order of the candidates.                                            *)

\* f gives, for each place, the places up to it that PlacesOf is to collect.
Collects(f, l, first) ==
    /\ DOMAIN f = 0..Len(l)
    /\ f[0] = <<>>
    /\ \A i \in 1..Len(l) : f[i] = IF (l[i] = l[1]) = first THEN Append(f[i - 1], i)
                                                            ELSE f[i - 1]

\* The recursion of PlacesOf has a solution.
LEMMA PlacesAreCollected ==
    ASSUME NEW l \in Lists, NEW first \in BOOLEAN
    PROVE  \E f : Collects(f, l, first) /\ PlacesOf(l, first) = f[Len(l)]
<1> DEFINE n == Len(l)
           Step(s, i) == IF (l[i] = l[1]) = first THEN Append(s, i) ELSE s
           Upto(f, k) == /\ DOMAIN f = 0..k /\ f[0] = <<>>
                         /\ \A i \in 1..k : f[i] = Step(f[i - 1], i)
           S == {k \in Nat : \E f : Upto(f, k)}
<1>1. n \in Nat \ {0}
  BY TcpConnectAssumption
<1> HIDE DEF n, Step
<1>2. 0 \in S
  <2> DEFINE f == [i \in 0..0 |-> <<>>]
  <2>1. Upto(f, 0)
    OBVIOUS
  <2> QED
    BY <2>1
<1>3. ASSUME NEW k \in S PROVE k + 1 \in S
  <2>1. k \in Nat
    OBVIOUS
  <2>2. PICK f : Upto(f, k)
    OBVIOUS
  <2> DEFINE g == [i \in 0..(k + 1) |-> IF i = k + 1 THEN Step(f[k], k + 1) ELSE f[i]]
  <2>3. g[0] = <<>>
    BY <2>1, <2>2
  <2>4. ASSUME NEW i \in 1..(k + 1) PROVE g[i] = Step(g[i - 1], i)
    <3>1. i \in 0..(k + 1) /\ i - 1 \in 0..(k + 1) /\ i - 1 # k + 1
      BY <2>1
    <3>2. g[i - 1] = f[i - 1]
      BY <3>1
    <3>3. CASE i = k + 1
      <4>1. i - 1 = k /\ g[i] = Step(f[k], k + 1)
        BY <2>1, <3>1, <3>3
      <4> QED
        BY <3>2, <3>3, <4>1
    <3>4. CASE i # k + 1
      <4>1. i \in 1..k /\ g[i] = f[i]
        BY <2>1, <3>1, <3>4
      <4> HIDE DEF g
      <4> QED
        BY <2>2, <3>2, <4>1
    <3> QED
      BY <3>3, <3>4
  <2>5. DOMAIN g = 0..(k + 1)
    OBVIOUS
  <2> HIDE DEF g
  <2>6. Upto(g, k + 1)
    BY <2>3, <2>4, <2>5
  <2> HIDE DEF Upto
  <2> QED
    BY <2>1, <2>6
<1>4. S = Nat
  <2>1. S \in SUBSET Nat
    OBVIOUS
  <2> HIDE DEF S
  <2> QED
    BY <1>2, <1>3, <2>1, SetInduction
<1>5. PICK g : Upto(g, n)
  <2>1. n \in S
    BY <1>1, <1>4
  <2> HIDE DEF Upto
  <2> QED
    BY <2>1
<1> DEFINE Is(f) == f = [i \in 0..n |-> IF i = 0 THEN <<>>
                                        ELSE IF (l[i] = l[1]) = first THEN Append(f[i - 1], i)
                                        ELSE f[i - 1]]
           h == [i \in 0..n |-> g[i]]
<1>6. Is(h)
  <2>1. ASSUME NEW i \in 0..n
        PROVE  h[i] = IF i = 0 THEN <<>>
                      ELSE IF (l[i] = l[1]) = first THEN Append(h[i - 1], i)
                      ELSE h[i - 1]
    <3>1. CASE i = 0
      BY <1>5, <3>1
    <3>2. CASE i # 0
      <4>1. i \in 1..n /\ i - 1 \in 0..n
        BY <1>1, <3>2
      <4>2. h[i] = g[i] /\ h[i - 1] = g[i - 1]
        BY <4>1
      <4>3. g[i] = Step(g[i - 1], i)
        BY <1>5, <4>1
      <4> HIDE DEF h
      <4> QED
        BY <3>2, <4>2, <4>3 DEF Step
    <3> QED
      BY <3>1, <3>2
  <2> QED
    BY <2>1
<1> DEFINE F == CHOOSE f : Is(f)
<1>7. Is(F)
  <2> HIDE DEF Is, h
  <2> QED
    BY <1>6
<1>8. PlacesOf(l, first) = F[n]
  BY DEF PlacesOf, n
<1> HIDE DEF F
<1>9. Collects(F, l, first)
  <2>1. DOMAIN F = 0..n /\ F[0] = <<>>
    BY <1>1, <1>7
  <2>2. ASSUME NEW i \in 1..n
        PROVE  F[i] = IF (l[i] = l[1]) = first THEN Append(F[i - 1], i) ELSE F[i - 1]
    <3>1. i \in 0..n /\ i # 0
      BY <1>1
    <3> QED
      BY <1>7, <3>1
  <2> QED
    BY <2>1, <2>2 DEF Collects, n
<1> QED
  BY <1>8, <1>9 DEF n

\* s holds the places up to k that PlacesOf(l, first) is to collect, in order.
Holds(s, l, first, k) ==
    /\ s \in Seq(Nat)
    /\ \A a \in 1..Len(s) : s[a] \in 1..k /\ ((l[s[a]] = l[1]) = first)
    /\ \A a, b \in 1..Len(s) : a < b => s[a] < s[b]
    /\ \A i \in 1..k : (l[i] = l[1]) = first => \E a \in 1..Len(s) : s[a] = i

LEMMA HoldsMore ==
    ASSUME NEW l, NEW first \in BOOLEAN, NEW k \in Nat, NEW s, Holds(s, l, first, k),
           (l[k + 1] = l[1]) = first
    PROVE  /\ Holds(Append(s, k + 1), l, first, k + 1)
           /\ Len(Append(s, k + 1)) = Len(s) + 1
<1> DEFINE t == Append(s, k + 1)
           n == Len(s)
<1>1. s \in Seq(Nat) /\ n \in Nat /\ k + 1 \in Nat
  BY DEF Holds
<1>2. /\ t \in Seq(Nat) /\ Len(t) = n + 1
      /\ \A a \in 1..n : t[a] = s[a]
      /\ t[n + 1] = k + 1
  BY <1>1
<1> HIDE DEF t, n
<1>3. /\ \A a \in 1..n : s[a] \in 1..k /\ ((l[s[a]] = l[1]) = first)
      /\ \A a, b \in 1..n : a < b => s[a] < s[b]
      /\ \A i \in 1..k : (l[i] = l[1]) = first => \E a \in 1..n : s[a] = i
  BY DEF Holds, n
<1>4. ASSUME NEW a \in 1..(n + 1)
      PROVE  t[a] \in 1..(k + 1) /\ ((l[t[a]] = l[1]) = first)
  <2>1. CASE a = n + 1
    <3>1. t[a] = k + 1 /\ k + 1 \in 1..(k + 1)
      BY <1>2, <2>1
    <3> QED
      BY <3>1
  <2>2. CASE a # n + 1
    <3>1. a \in 1..n /\ t[a] = s[a]
      BY <1>1, <1>2, <2>2
    <3>2. s[a] \in 1..k /\ ((l[s[a]] = l[1]) = first)
      BY <1>3, <3>1
    <3>3. s[a] \in 1..(k + 1)
      BY <3>2
    <3> QED
      BY <3>1, <3>2, <3>3
  <2> QED
    BY <2>1, <2>2
<1>5. ASSUME NEW a \in 1..(n + 1), NEW b \in 1..(n + 1), a < b
      PROVE  t[a] < t[b]
  <2>1. a \in 1..n /\ t[a] = s[a] /\ s[a] \in 1..k
    BY <1>1, <1>2, <1>3, <1>5
  <2>2. CASE b = n + 1
    BY <1>2, <2>1, <2>2
  <2>3. CASE b # n + 1
    <3>1. b \in 1..n /\ t[b] = s[b]
      BY <1>1, <1>2, <2>3
    <3> QED
      BY <1>3, <1>5, <2>1, <3>1
  <2> QED
    BY <2>2, <2>3
<1>6. ASSUME NEW i \in 1..(k + 1), (l[i] = l[1]) = first
      PROVE  \E a \in 1..(n + 1) : t[a] = i
  <2>1. CASE i = k + 1
    <3>1. n + 1 \in 1..(n + 1)
      BY <1>1
    <3> QED
      BY <1>2, <2>1, <3>1
  <2>2. CASE i # k + 1
    <3>1. i \in 1..k
      BY <2>2
    <3>2. PICK a \in 1..n : s[a] = i
      BY <1>3, <1>6, <3>1
    <3>3. a \in 1..(n + 1) /\ t[a] = i
      BY <1>1, <1>2, <3>2
    <3> QED
      BY <3>3
  <2> QED
    BY <2>1, <2>2
<1> QED
  BY <1>2, <1>4, <1>5, <1>6 DEF Holds, t, n

LEMMA HoldsStill ==
    ASSUME NEW l, NEW first \in BOOLEAN, NEW k \in Nat, NEW s, Holds(s, l, first, k),
           (l[k + 1] = l[1]) # first
    PROVE  Holds(s, l, first, k + 1)
<1>1. ASSUME NEW a \in 1..Len(s)
      PROVE  s[a] \in 1..(k + 1) /\ ((l[s[a]] = l[1]) = first)
  <2>1. s[a] \in 1..k /\ ((l[s[a]] = l[1]) = first)
    BY DEF Holds
  <2>2. s[a] \in 1..(k + 1)
    BY <2>1
  <2> QED
    BY <2>1, <2>2
<1>2. ASSUME NEW i \in 1..(k + 1), (l[i] = l[1]) = first
      PROVE  \E a \in 1..Len(s) : s[a] = i
  <2>1. i # k + 1
    BY <1>2
  <2>2. i \in 1..k
    BY <2>1
  <2> QED
    BY <1>2, <2>2 DEF Holds
<1> QED
  BY <1>1, <1>2 DEF Holds

\* The two lists together hold each place once.
LEMMA PlacesProperties ==
    ASSUME NEW l \in Lists
    PROVE  /\ Holds(PlacesOf(l, TRUE), l, TRUE, Len(l))
           /\ Holds(PlacesOf(l, FALSE), l, FALSE, Len(l))
           /\ Len(PlacesOf(l, TRUE)) + Len(PlacesOf(l, FALSE)) = Len(l)
<1> DEFINE n == Len(l)
<1>1. n \in Nat \ {0}
  BY TcpConnectAssumption
<1>2. PICK p : Collects(p, l, TRUE) /\ PlacesOf(l, TRUE) = p[n]
  BY PlacesAreCollected
<1>3. PICK q : Collects(q, l, FALSE) /\ PlacesOf(l, FALSE) = q[n]
  BY PlacesAreCollected
<1> DEFINE Both(k) == /\ Holds(p[k], l, TRUE, k) /\ Holds(q[k], l, FALSE, k)
                      /\ Len(p[k]) + Len(q[k]) = k
           S == {k \in Nat : k <= n => Both(k)}
<1> HIDE DEF n
<1>4. 0 \in S
  <2>1. p[0] = <<>> /\ q[0] = <<>>
    BY <1>2, <1>3 DEF Collects
  <2>2. Holds(<<>>, l, TRUE, 0) /\ Holds(<<>>, l, FALSE, 0) /\ Len(<<>>) = 0
    BY DEF Holds
  <2>3. Len(<<>>) + Len(<<>>) = 0
    OBVIOUS
  <2>4. Both(0)
    BY Zenon, <2>1, <2>2, <2>3
  <2> HIDE DEF Both
  <2> QED
    BY <2>4
<1>5. ASSUME NEW k \in S PROVE k + 1 \in S
  <2> SUFFICES ASSUME k + 1 <= n PROVE Both(k + 1)
    <3> HIDE DEF Both
    <3> QED
      OBVIOUS
  <2>1. k \in Nat /\ k <= n /\ k + 1 \in 1..n /\ k + 1 - 1 = k
    BY <1>1
  <2>2. Both(k)
    BY <2>1
  <2>3. /\ p[k + 1] = IF l[k + 1] = l[1] THEN Append(p[k], k + 1) ELSE p[k]
        /\ q[k + 1] = IF l[k + 1] # l[1] THEN Append(q[k], k + 1) ELSE q[k]
    BY <1>2, <1>3, <2>1 DEF Collects, n
  <2>4. Len(p[k]) \in Nat /\ Len(q[k]) \in Nat
    BY <2>2 DEF Holds
  <2>5. CASE l[k + 1] = l[1]
    <3>1. (l[k + 1] = l[1]) = TRUE /\ (l[k + 1] = l[1]) # FALSE
      BY <2>5
    <3>2. p[k + 1] = Append(p[k], k + 1) /\ q[k + 1] = q[k]
      BY <2>3, <2>5
    <3>3. Holds(p[k + 1], l, TRUE, k + 1) /\ Len(p[k + 1]) = Len(p[k]) + 1
      BY <2>1, <2>2, <3>1, <3>2, HoldsMore
    <3>4. Holds(q[k + 1], l, FALSE, k + 1)
      BY <2>1, <2>2, <3>1, <3>2, HoldsStill
    <3>5. Len(p[k + 1]) + Len(q[k + 1]) = k + 1
      <4> DEFINE x == Len(p[k])
                 y == Len(q[k])
                 x1 == Len(p[k + 1])
                 y1 == Len(q[k + 1])
      <4>1. x \in Nat /\ y \in Nat /\ x + y = k
        BY Zenon, <2>2, <2>4
      <4>2. x1 = x + 1 /\ y1 = y
        BY Zenon, <3>2, <3>3
      <4> HIDE DEF x, y, x1, y1
      <4>3. x1 + y1 = k + 1
        BY <2>1, <4>1, <4>2
      <4> QED
        BY Zenon, <4>3 DEF x1, y1
    <3> QED
      BY <3>3, <3>4, <3>5
  <2>6. CASE l[k + 1] # l[1]
    <3>1. (l[k + 1] = l[1]) = FALSE /\ (l[k + 1] = l[1]) # TRUE
      BY <2>6
    <3>2. q[k + 1] = Append(q[k], k + 1) /\ p[k + 1] = p[k]
      BY <2>3, <2>6
    <3>3. Holds(q[k + 1], l, FALSE, k + 1) /\ Len(q[k + 1]) = Len(q[k]) + 1
      BY <2>1, <2>2, <3>1, <3>2, HoldsMore
    <3>4. Holds(p[k + 1], l, TRUE, k + 1)
      BY <2>1, <2>2, <3>1, <3>2, HoldsStill
    <3>5. Len(p[k + 1]) + Len(q[k + 1]) = k + 1
      <4> DEFINE x == Len(p[k])
                 y == Len(q[k])
                 x1 == Len(p[k + 1])
                 y1 == Len(q[k + 1])
      <4>1. x \in Nat /\ y \in Nat /\ x + y = k
        BY Zenon, <2>2, <2>4
      <4>2. x1 = x /\ y1 = y + 1
        BY Zenon, <3>2, <3>3
      <4> HIDE DEF x, y, x1, y1
      <4>3. x1 + y1 = k + 1
        BY <2>1, <4>1, <4>2
      <4> QED
        BY Zenon, <4>3 DEF x1, y1
    <3> QED
      BY <3>3, <3>4, <3>5
  <2> QED
    BY <2>5, <2>6
<1>6. S = Nat
  <2>1. S \in SUBSET Nat
    OBVIOUS
  <2> HIDE DEF S
  <2> QED
    BY <1>4, <1>5, <2>1, SetInduction
<1>7. Both(n)
  <2>1. n \in S
    BY <1>1, <1>6
  <2> HIDE DEF Both
  <2> QED
    BY <1>1, <2>1
<1> QED
  BY <1>2, <1>3, <1>7 DEF n

\* An index of the interleaved list takes its place from the first family or
\* from the others, and it takes it by rank.
FromFirst(i, m, a) == IF i > 2 * m THEN a > m ELSE i % 2 = 1
Rank(i, m) == IF i > 2 * m THEN i - m
              ELSE IF i % 2 = 1 THEN (i + 1) \div 2 ELSE i \div 2

LEMMA Halves ==
    ASSUME NEW i \in Nat
    PROVE  \E h \in Nat :
              \/ i = 2 * h /\ i % 2 = 0 /\ i \div 2 = h
              \/ i = 2 * h + 1 /\ i % 2 = 1 /\ (i + 1) \div 2 = h + 1
<1> DEFINE h == i \div 2
<1>1. h \in Nat /\ (i = 2 * h \/ i = 2 * h + 1)
  OBVIOUS
<1>2. i = 2 * h => i % 2 = 0
  BY <1>1
<1>3. i = 2 * h + 1 => i % 2 = 1 /\ (i + 1) \div 2 = h + 1
  BY <1>1
<1> QED
  BY <1>1, <1>2, <1>3

LEMMA RankProperties ==
    ASSUME NEW a \in Nat, NEW b \in Nat, NEW m \in Nat, m = IF a <= b THEN a ELSE b,
           NEW i \in 1..(a + b)
    PROVE  /\ FromFirst(i, m, a) => Rank(i, m) \in 1..a
           /\ ~FromFirst(i, m, a) => Rank(i, m) \in 1..b
           /\ \A j \in 1..(a + b) :
                 i < j /\ (FromFirst(i, m, a) <=> FromFirst(j, m, a)) => Rank(i, m) < Rank(j, m)
           /\ i > 1 /\ (FromFirst(i, m, a) <=> FromFirst(i - 1, m, a)) =>
                 \A j \in 1..(a + b) : j > i => FromFirst(j, m, a) <=> FromFirst(i, m, a)
<1>1. PICK h \in Nat : \/ i = 2 * h /\ i % 2 = 0 /\ i \div 2 = h
                       \/ i = 2 * h + 1 /\ i % 2 = 1 /\ (i + 1) \div 2 = h + 1
  BY Halves
<1>2. FromFirst(i, m, a) => Rank(i, m) \in 1..a
  BY <1>1 DEF FromFirst, Rank
<1>3. ~FromFirst(i, m, a) => Rank(i, m) \in 1..b
  BY <1>1 DEF FromFirst, Rank
<1>4. ASSUME NEW j \in 1..(a + b), i < j, FromFirst(i, m, a) <=> FromFirst(j, m, a)
      PROVE  Rank(i, m) < Rank(j, m)
  <2>1. PICK g \in Nat : \/ j = 2 * g /\ j % 2 = 0 /\ j \div 2 = g
                         \/ j = 2 * g + 1 /\ j % 2 = 1 /\ (j + 1) \div 2 = g + 1
    BY Halves
  <2> QED
    BY <1>1, <1>4, <2>1 DEF FromFirst, Rank
<1>5. ASSUME i > 1, (FromFirst(i, m, a) <=> FromFirst(i - 1, m, a)),
             NEW j \in 1..(a + b), j > i
      PROVE  FromFirst(j, m, a) <=> FromFirst(i, m, a)
  <2>1. PICK g \in Nat : \/ i - 1 = 2 * g /\ (i - 1) % 2 = 0
                         \/ i - 1 = 2 * g + 1 /\ (i - 1) % 2 = 1
    BY <1>5, i - 1 \in Nat, Halves
  <2>2. i > 2 * m
    BY <1>1, <1>5, <2>1 DEF FromFirst
  <2> QED
    BY <1>5, <2>2 DEF FromFirst
<1> QED
  BY <1>2, <1>3, <1>4, <1>5

LEMMA EveryRank ==
    ASSUME NEW a \in Nat, NEW b \in Nat, NEW m \in Nat, m = IF a <= b THEN a ELSE b
    PROVE  /\ \A r \in 1..a : \E i \in 1..(a + b) : FromFirst(i, m, a) /\ Rank(i, m) = r
           /\ \A r \in 1..b : \E i \in 1..(a + b) : ~FromFirst(i, m, a) /\ Rank(i, m) = r
<1>1. ASSUME NEW r \in 1..a
      PROVE  \E i \in 1..(a + b) : FromFirst(i, m, a) /\ Rank(i, m) = r
  <2>1. CASE r <= m
    <3> DEFINE i == 2 * r - 1
    <3>1. i \in 1..(a + b) /\ ~(i > 2 * m) /\ i % 2 = 1 /\ (i + 1) \div 2 = r
      BY <2>1
    <3> QED
      BY <3>1 DEF FromFirst, Rank
  <2>2. CASE r > m
    <3> DEFINE i == r + m
    <3>1. i \in 1..(a + b) /\ i > 2 * m /\ i - m = r /\ a > m
      BY <2>2
    <3> QED
      BY <3>1 DEF FromFirst, Rank
  <2> QED
    BY <2>1, <2>2
<1>2. ASSUME NEW r \in 1..b
      PROVE  \E i \in 1..(a + b) : ~FromFirst(i, m, a) /\ Rank(i, m) = r
  <2>1. CASE r <= m
    <3> DEFINE i == 2 * r
    <3>1. i \in 1..(a + b) /\ ~(i > 2 * m) /\ i % 2 # 1 /\ i \div 2 = r
      BY <2>1
    <3> QED
      BY <3>1 DEF FromFirst, Rank
  <2>2. CASE r > m
    <3> DEFINE i == r + m
    <3>1. i \in 1..(a + b) /\ i > 2 * m /\ i - m = r /\ ~(a > m)
      BY <2>2
    <3> QED
      BY <3>1 DEF FromFirst, Rank
  <2> QED
    BY <2>1, <2>2
<1> QED
  BY <1>1, <1>2

\* The candidates of l in the order of c are interleaved as InterleaveIsFair
\* demands.
Fair(l, c) ==
    LET F(i) == l[c[i]]
        First(i) == F(i) = l[1]
    IN  /\ c[1] = 1
        /\ {c[i] : i \in DOMAIN c} = DOMAIN l
        /\ \A i, j \in DOMAIN c : i < j /\ F(i) = F(j) => c[i] < c[j]
        /\ \A i \in DOMAIN c :
              i > 1 /\ First(i) = First(i - 1) =>
                  \A j \in DOMAIN c : j > i => First(j) = First(i)

LEMMA InterleavingIsFair ==
    ASSUME NEW l \in Lists
    PROVE  Fair(l, Interleave(l))
<1> DEFINE p == PlacesOf(l, TRUE)
           q == PlacesOf(l, FALSE)
           a == Len(p)
           b == Len(q)
           m == Min({a, b})
           c == Interleave(l)
           n == Len(l)
<1>1. n \in Nat \ {0} /\ DOMAIN l = 1..n
  BY TcpConnectAssumption
<1>2. Holds(p, l, TRUE, n) /\ Holds(q, l, FALSE, n) /\ a + b = n
  BY PlacesProperties
<1>3. a \in Nat /\ b \in Nat
  <2>1. p \in Seq(Nat) /\ q \in Seq(Nat)
    BY <1>2 DEF Holds
  <2> HIDE DEF p, q
  <2> QED
    BY <2>1
<1>4. m = IF a <= b THEN a ELSE b
  <2> HIDE DEF a, b
  <2> QED
    BY <1>3, MinOfTwo
<1>5. c = [i \in 1..n |-> IF FromFirst(i, m, a) THEN p[Rank(i, m)] ELSE q[Rank(i, m)]]
  <2>1. ASSUME NEW i \in 1..n
        PROVE  c[i] = IF FromFirst(i, m, a) THEN p[Rank(i, m)] ELSE q[Rank(i, m)]
    <3>1. c[i] = IF i > 2 * m
                   THEN IF a > m THEN p[i - m] ELSE q[i - m]
                   ELSE IF i % 2 = 1 THEN p[(i + 1) \div 2] ELSE q[i \div 2]
      BY <1>1 DEF Interleave
    <3> HIDE DEF c, p, q, a, m
    <3> QED
      BY <3>1 DEF FromFirst, Rank
  <2>2. c = [i \in 1..n |-> c[i]]
    BY <1>1 DEF Interleave
  <2> HIDE DEF c, p, q, a, b, m
  <2> QED
    BY <2>1, <2>2
<1> HIDE DEF p, q, a, b, m, c, n
<1>6. m \in Nat
  BY <1>3, <1>4
<1>7. ASSUME NEW i \in 1..n
      PROVE  /\ c[i] \in 1..n
             /\ (l[c[i]] = l[1]) <=> FromFirst(i, m, a)
             /\ FromFirst(i, m, a) => Rank(i, m) \in 1..a /\ c[i] = p[Rank(i, m)]
             /\ ~FromFirst(i, m, a) => Rank(i, m) \in 1..b /\ c[i] = q[Rank(i, m)]
  <2>1. i \in 1..(a + b)
    BY <1>2
  <2>2. /\ FromFirst(i, m, a) => Rank(i, m) \in 1..a
        /\ ~FromFirst(i, m, a) => Rank(i, m) \in 1..b
    BY <1>3, <1>4, <1>6, <2>1, RankProperties
  <2>3. CASE FromFirst(i, m, a)
    <3>1. c[i] = p[Rank(i, m)]
      BY <1>5, <2>3
    <3>2. p[Rank(i, m)] \in 1..n /\ ((l[p[Rank(i, m)]] = l[1]) = TRUE)
      BY <1>2, <2>2, <2>3 DEF Holds, a
    <3> QED
      BY <2>2, <2>3, <3>1, <3>2 DEF FromFirst
  <2>4. CASE ~FromFirst(i, m, a)
    <3>1. c[i] = q[Rank(i, m)]
      BY <1>5, <2>4
    <3>2. q[Rank(i, m)] \in 1..n /\ ((l[q[Rank(i, m)]] = l[1]) = FALSE)
      BY <1>2, <2>2, <2>4 DEF Holds, b
    <3> QED
      BY <2>2, <2>4, <3>1, <3>2 DEF FromFirst
  <2> QED
    BY <2>3, <2>4
<1>8. c[1] = 1
  <2>1. 1 \in 1..n
    BY <1>1
  <2>2. PICK k \in 1..a : p[k] = 1
    BY <1>2, <2>1 DEF Holds, a
  <2>3. 1 \in 1..a /\ p[1] \in 1..n
    BY <1>2, <1>3, <2>2 DEF Holds, a
  <2>4. p[1] = 1
    <3>1. 1 < k => p[1] < p[k]
      BY <1>2, <2>2, <2>3 DEF Holds, a
    <3> QED
      BY <2>2, <2>3, <3>1
  <2>5. FromFirst(1, m, a) /\ Rank(1, m) = 1
    BY <1>3, <1>4, <1>6, <2>3 DEF FromFirst, Rank
  <2> QED
    BY <1>7, <2>1, <2>4, <2>5
<1>9. DOMAIN c = 1..n /\ DOMAIN l = 1..n
  BY <1>1, <1>5 DEF n
<1>10. {c[i] : i \in 1..n} = 1..n
  <2>0. /\ \A r \in 1..a : \E i \in 1..(a + b) : FromFirst(i, m, a) /\ Rank(i, m) = r
        /\ \A r \in 1..b : \E i \in 1..(a + b) : ~FromFirst(i, m, a) /\ Rank(i, m) = r
    BY <1>3, <1>4, <1>6, EveryRank
  <2>1. ASSUME NEW x \in 1..n PROVE \E i \in 1..n : c[i] = x
    <3>1. CASE l[x] = l[1]
      <4>0. \A y \in 1..n : (l[y] = l[1]) = TRUE => \E r \in 1..a : p[r] = y
        BY <1>2 DEF Holds, a
      <4>1. PICK r \in 1..a : p[r] = x
        BY <2>1, <3>1, <4>0
      <4>2. PICK i \in 1..(a + b) : FromFirst(i, m, a) /\ Rank(i, m) = r
        BY <2>0
      <4>3. i \in 1..n
        BY <1>2
      <4> QED
        BY <1>7, <4>1, <4>2, <4>3
    <3>2. CASE l[x] # l[1]
      <4>0. \A y \in 1..n : (l[y] = l[1]) = FALSE => \E r \in 1..b : q[r] = y
        BY <1>2 DEF Holds, b
      <4>1. PICK r \in 1..b : q[r] = x
        BY <2>1, <3>2, <4>0
      <4>2. PICK i \in 1..(a + b) : ~FromFirst(i, m, a) /\ Rank(i, m) = r
        BY <2>0
      <4>3. i \in 1..n
        BY <1>2
      <4> QED
        BY <1>7, <4>1, <4>2, <4>3
    <3> QED
      BY <3>1, <3>2
  <2>2. \A i \in 1..n : c[i] \in 1..n
    BY <1>7
  <2> QED
    BY <2>1, <2>2
<1>11. ASSUME NEW i \in 1..n, NEW j \in 1..n, i < j, l[c[i]] = l[c[j]]
       PROVE  c[i] < c[j]
  <2>1. i \in 1..(a + b) /\ j \in 1..(a + b)
    BY <1>2
  <2>2. FromFirst(i, m, a) <=> FromFirst(j, m, a)
    BY <1>7, <1>11
  <2>3. Rank(i, m) < Rank(j, m)
    BY <1>3, <1>4, <1>6, <1>11, <2>1, <2>2, RankProperties
  <2>4. CASE FromFirst(i, m, a)
    <3>1. /\ Rank(i, m) \in 1..a /\ c[i] = p[Rank(i, m)]
          /\ Rank(j, m) \in 1..a /\ c[j] = p[Rank(j, m)]
      BY <1>7, <2>2, <2>4
    <3> QED
      BY <1>2, <2>3, <3>1 DEF Holds, a
  <2>5. CASE ~FromFirst(i, m, a)
    <3>1. /\ Rank(i, m) \in 1..b /\ c[i] = q[Rank(i, m)]
          /\ Rank(j, m) \in 1..b /\ c[j] = q[Rank(j, m)]
      BY <1>7, <2>2, <2>5
    <3> QED
      BY <1>2, <2>3, <3>1 DEF Holds, b
  <2> QED
    BY <2>4, <2>5
<1>12. ASSUME NEW i \in 1..n, i > 1, (l[c[i]] = l[1]) = (l[c[i - 1]] = l[1]),
              NEW j \in 1..n, j > i
       PROVE  (l[c[j]] = l[1]) = (l[c[i]] = l[1])
  <2>0. i > 1 /\ j > i
    BY <1>12
  <2>1. i \in 1..(a + b) /\ j \in 1..(a + b) /\ i - 1 \in 1..n
    BY <1>1, <1>2, <2>0
  <2>2. FromFirst(i, m, a) <=> FromFirst(i - 1, m, a)
    BY <1>7, <1>12, <2>1
  <2>3. FromFirst(j, m, a) <=> FromFirst(i, m, a)
    BY <1>3, <1>4, <1>6, <2>0, <2>1, <2>2, RankProperties
  <2> QED
    BY <1>7, <2>3
<1> QED
  BY <1>8, <1>9, <1>10, <1>11, <1>12 DEF Fair, c

\* However many candidates the resolver returns and of whatever families, none
\* is lost or tried twice, its first choice and each family's order are kept, and
\* the first one's family alternates with the others while both last.
THEOREM InterleavingStaysFair == Spec => []InterleaveIsFair
<1> DEFINE Listed == \/ listed = <<>>
                     \/ listed \in Lists /\ candidates = Interleave(listed)
<1>1. Init => Listed
  BY DEF Init
<1>2. Listed /\ [Next]_vars => Listed'
  <2> SUFFICES ASSUME Listed, [Next]_vars PROVE Listed'
    OBVIOUS
  <2>1. CASE \E l \in Lists : Resolved(l)
    BY <2>1 DEF Resolved
  <2>2. CASE UNCHANGED listVars
    BY <2>2 DEF listVars
  <2>3. (\E l \in Lists : Resolved(l)) \/ UNCHANGED listVars
    BY DEF Next, Environment, Loop, vars, listVars, givenVars, timeVars, userVars, tryVars,
           raceVars, netVars, socketVars, endVars, Done, ClosesLosers,
           CancelRequest, Answer, Tick, Call, ResolveFails, CheckCancel, OverallExpired,
           StartAttempt, Exhausted, Sleep, Wakes, Poll, PollFails, PollReturns, Win, Drop,
           RestoreFails, Attach, Build, Discard, Unwinds
  <2> QED
    BY <2>1, <2>2, <2>3
<1>3. Listed => InterleaveIsFair
  <2>1. Listed /\ listed # <<>> => Fair(listed, candidates)
    BY InterleavingIsFair
  <2>2. Fair(listed, candidates) => InterleaveIsFair
    BY DEF InterleaveIsFair, Fair
  <2>3. listed = <<>> => InterleaveIsFair
    BY DEF InterleaveIsFair
  <2> QED
    BY <2>1, <2>2, <2>3
<1> QED
  BY <1>1, <1>2, <1>3, PTL DEF Spec
=============================================================================
