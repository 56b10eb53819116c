-------------------------- MODULE TcpStream_proofs --------------------------
(***************************************************************************)
(* Theorems about TcpStream, for every number of threads, handles and      *)
(* descriptors.                                                            *)
(***************************************************************************)
EXTENDS TcpStream, TLAPS

\* Where the winner of a connect() exists, and where it is bound to its handle.
FreshPCs == {"won", "attached", "built", "discard", "assign_reset", "adopt"}
BoundPCs == {"attached", "built", "assign_reset", "adopt"}
ClosingPCs == {"reset", "assign_reset"}
CallPCs == {"enter_recv", "recv", "enter_send", "send"}

\* A canceller that is inside cancel() has a handle.
CancellerHasHandle ==
    \A c \in Cancellers : cpc[c] # "idle" => cancelling[c] \in Handles

TypeInv == TypeOK /\ CancellerHasHandle

\* What each point of the worker's program says of its two sockets.
Shape ==
    \A w \in Workers :
        /\ fresh[w].socket # NoSocket <=> pc[w] \in FreshPCs
        /\ pc[w] \in FreshPCs \cup {"connecting"} => fresh[w].cancel # NoHandle
        /\ stream[w].socket # NoSocket => stream[w].cancel # NoHandle
        /\ pc[w] = "adopt" => stream[w].socket = NoSocket
        /\ pc[w] \in CallPCs => stream[w].socket # NoSocket

\* A handle's descriptor is that of an open connection bound to this handle,
\* which is not about to close it.
AttachedIsHeld ==
    \A h \in Handles : attached[h] # NoSocket =>
        \E w \in Workers :
            \/ /\ stream[w] = [socket |-> attached[h], cancel |-> h]
               /\ pc[w] \notin ClosingPCs
            \/ /\ fresh[w] = [socket |-> attached[h], cancel |-> h]
               /\ pc[w] \in BoundPCs

\* While a canceller holds the mutex its target stays the attached descriptor.
MutexProtects ==
    \A c \in Cancellers :
        cpc[c] = "locked" => /\ mutex[cancelling[c]] = c
                             /\ target[c] # NoSocket
                             /\ target[c] = attached[cancelling[c]]

DescriptorInv == TypeInv /\ Shape /\ DescriptorsAccounted

SafetyInv == DescriptorInv /\ AttachedIsHeld /\ MutexProtects

\* Only a worker inside recv or send has a call pending on its descriptor.
IoIsOwned ==
    \A d \in Descriptors : io[d] # "none" =>
        \E w \in Workers : stream[w].socket = d /\ pc[w] \in {"recv", "send"}

\* What was aborted was cancelled.
AbortedIsRequested ==
    /\ \A c \in Cancellers : cpc[c] # "idle" => requested[cancelling[c]]
    /\ \A w \in Workers :
          stream[w].socket # NoSocket /\ io[stream[w].socket] = "aborted" =>
              requested[stream[w].cancel]

AbortInv == SafetyInv /\ IoIsOwned /\ AbortedIsRequested

\* A handle that was given to one connect only: it is the handle of one stream
\* or of one connect in progress.
Exclusive ==
    \A v, w \in Workers :
        /\ stream[w].cancel \in used \cup {NoHandle}
        /\ fresh[w].cancel \in used \cup {NoHandle}
        /\ fresh[v].cancel # NoHandle => stream[w].cancel # fresh[v].cancel
        /\ v # w /\ stream[v].cancel # NoHandle => stream[w].cancel # stream[v].cancel
        /\ v # w /\ fresh[v].cancel # NoHandle => fresh[w].cancel # fresh[v].cancel

\* The winner of a connect is attached until it has become the stream.
WinnerIsAttached ==
    \A w \in Workers :
        pc[w] \in BoundPCs => attached[fresh[w].cancel] = fresh[w].socket

\* A call that slipped past the flag was the last one to do so.
LateIsLast ==
    \A h \in Handles : late[h] # 0 =>
        /\ requested[h]
        /\ \A w \in Workers :
              pc[w] \in {"enter_recv", "enter_send"} => stream[w].cancel # h

HandleInv == DescriptorInv /\ Exclusive /\ WinnerIsAttached /\ Interruptible

-----------------------------------------------------------------------------

\* Every variable keeps its type, with what the proof of that needs.
LEMMA Types == Spec => []TypeInv
<1> USE TcpStreamAssumption
<1>1. Init => TypeInv
  BY DEF MostLate, Init, TypeInv, CancellerHasHandle, TypeOK, Stream, Empty, Results, PCs
<1>2. TypeInv /\ [Next]_vars => TypeInv'
  <2> SUFFICES ASSUME TypeInv, [Next]_vars
               PROVE  TypeInv'
    OBVIOUS
  <2> USE DEF TypeInv, CancellerHasHandle, TypeOK, Stream, Empty, Results, PCs,
              stateVars, kernelVars, cancelVars
  <2>0. ASSUME NEW w \in Workers, NEW call \in {"enter_recv", "enter_send"},
               CallChecks(w, call)
        PROVE  TypeInv'
    <3>1. pc' \in [Workers -> PCs]
      <4>1. \E l \in {"idle", "enter_recv", "enter_send"} : pc' = [pc EXCEPT ![w] = l]
        BY <2>0 DEF CallChecks, Return, Goto
      <4> QED
        BY <4>1
    <3>2. outcome' \in [Workers -> Results]
      BY <2>0 DEF CallChecks, Return
    <3> QED
      BY <2>0, <3>1, <3>2 DEF CallChecks
  <2>1. ASSUME NEW w \in Workers, NEW h \in Handles, Connect(w, h)
        PROVE  TypeInv'
    BY <2>1 DEF Connect, Goto
  <2>2. ASSUME NEW w \in Workers, NEW r \in {"cancelled", "error"}, ConnectFails(w, r)
        PROVE  TypeInv'
    BY <2>2 DEF ConnectFails, Return
  <2>3. ASSUME NEW w \in Workers, NEW d \in Descriptors, ConnectWins(w, d)
        PROVE  TypeInv'
    <3>1. fresh' \in [Workers -> Stream]
      <4>1. [fresh[w] EXCEPT !.socket = d] \in Stream
        OBVIOUS
      <4> QED
        BY <2>3, <4>1 DEF ConnectWins
    <3>2. /\ owner' \in [Descriptors -> Workers \cup {NoThread}]
          /\ pc' \in [Workers -> PCs]
      BY <2>3 DEF ConnectWins, Goto
    <3> QED
      BY <2>3, <3>1, <3>2 DEF ConnectWins
  <2>4. ASSUME NEW w \in Workers, RestoreFails(w)
        PROVE  TypeInv'
    BY <2>4 DEF RestoreFails, Goto
  <2>5. ASSUME NEW w \in Workers, Attach(w)
        PROVE  TypeInv'
    <3> fresh[w].socket \in Descriptors \cup {NoSocket}
      OBVIOUS
    <3>1. CASE requested[fresh[w].cancel]
      BY ZenonT(60), <2>5, <3>1 DEF Attach, Goto
    <3>2. CASE ~requested[fresh[w].cancel]
      BY <2>5, <3>2 DEF Attach, Goto
    <3> QED
      BY <3>1, <3>2
  <2>6. ASSUME NEW w \in Workers, Build(w)
        PROVE  TypeInv'
    BY <2>6 DEF Build, Goto
  <2>7. ASSUME NEW w \in Workers, BuildThrows(w)
        PROVE  TypeInv'
    BY <2>7 DEF BuildThrows, Goto
  <2>8. ASSUME NEW w \in Workers, Discard(w)
        PROVE  TypeInv'
    BY <2>8 DEF Discard, CloseSocket, Goto
  <2>9. ASSUME NEW w \in Workers, Take(w)
        PROVE  TypeInv'
    <3>1. CASE stream[w].cancel = NoHandle
      BY <2>9, <3>1 DEF Take, Goto
    <3>2. CASE stream[w].cancel # NoHandle
      BY <2>9, <3>2 DEF Take, Goto
    <3> QED
      BY <3>1, <3>2
  <2>10. ASSUME NEW w \in Workers, Reset(w)
        PROVE  TypeInv'
    <3>1. stream' \in [Workers -> Stream]
      <4>1. [stream[w] EXCEPT !.socket = NoSocket] \in Stream
        OBVIOUS
      <4> QED
        BY <2>10, <4>1 DEF Reset
    <3>2. /\ owner' \in [Descriptors -> Workers \cup {NoThread}]
          /\ io' \in [Descriptors -> {"none", "pending", "aborted"}]
      BY <2>10 DEF Reset, CloseSocket
    <3> QED
      BY <2>10, <3>1, <3>2 DEF Reset, Goto
  <2>11. ASSUME NEW w \in Workers, Adopt(w)
        PROVE  TypeInv'
    BY <2>11 DEF Adopt, Goto
  <2>12. ASSUME NEW w \in Workers, ReadChecks(w)
        PROVE  TypeInv'
    BY <2>12, <2>0 DEF ReadChecks
  <2>13. ASSUME NEW w \in Workers, WriteChecks(w)
        PROVE  TypeInv'
    BY <2>13, <2>0 DEF WriteChecks
  <2>14. ASSUME NEW w \in Workers, Enter(w)
        PROVE  TypeInv'
    <3>1. late' \in [Handles -> 0..MostLate]
      <4> DEFINE h == stream[w].cancel
      <4>1. late' = [late EXCEPT ![h] = IF requested[h] /\ @ < MostLate
                                          THEN @ + 1 ELSE @]
        BY <2>14 DEF Enter
      <4>2. \A k \in Handles : late[k] < MostLate => late[k] + 1 \in 0..MostLate
        BY DEF MostLate
      <4>3. late \in [Handles -> 0..MostLate]
        OBVIOUS
      <4>4. CASE requested[h] /\ late[h] < MostLate
        <5>1. late' = [late EXCEPT ![h] = @ + 1]
          BY <4>1, <4>4
        <5> HIDE DEF h, TypeInv, TypeOK
        <5> QED
          BY <4>2, <4>3, <4>4, <5>1
      <4>5. CASE ~(requested[h] /\ late[h] < MostLate)
        BY <4>1, <4>3, <4>5
      <4> QED
        BY <4>4, <4>5
    <3>2. io' \in [Descriptors -> {"none", "pending", "aborted"}]
      BY <2>14 DEF Enter
    <3>3. pc' \in [Workers -> PCs]
      BY <2>14 DEF Enter, Goto
    <3> QED
      BY <2>14, <3>1, <3>2, <3>3 DEF Enter
  <2>15. ASSUME NEW w \in Workers, NEW r \in {"data", "eof", "error"}, RecvReturns(w, r)
        PROVE  TypeInv'
    BY <2>15 DEF RecvReturns, Complete, Return, Classify
  <2>16. ASSUME NEW w \in Workers, RecvTimesOut(w)
        PROVE  TypeInv'
    BY <2>16 DEF RecvTimesOut, Complete, Return, Classify
  <2>17. ASSUME NEW w \in Workers, NEW r \in {"sent", "error"}, SendReturns(w, r)
        PROVE  TypeInv'
    BY <2>17 DEF SendReturns, Complete, Return, Classify
  <2>18. ASSUME NEW w \in Workers, Aborted(w)
        PROVE  TypeInv'
    BY <2>18 DEF Aborted, Complete, Return, Classify
  <2>19. ASSUME NEW w \in Workers, NEW r \in {"ok", "error"}, ShutdownSend(w, r)
        PROVE  TypeInv'
    BY <2>19 DEF ShutdownSend, Return
  <2>20. ASSUME NEW c \in Cancellers, NEW h \in Handles, Cancel(c, h)
        PROVE  TypeInv'
    BY <2>20 DEF Cancel
  <2>21. ASSUME NEW c \in Cancellers, CancelLock(c)
        PROVE  TypeInv'
    <3>1. CASE attached[cancelling[c]] # NoSocket
      <4>1. cancelling[c] \in Handles /\ attached[cancelling[c]] \in Descriptors
        BY <2>21, <3>1 DEF CancelLock
      <4>2. mutex' \in [Handles -> Cancellers \cup {NoThread}]
        BY <2>21, <3>1, <4>1 DEF CancelLock
      <4>3. target' \in [Cancellers -> Descriptors \cup {NoSocket}]
        BY <2>21, <3>1, <4>1 DEF CancelLock
      <4>4. cpc' \in [Cancellers -> {"idle", "flagged", "locked"}]
        BY <2>21, <3>1 DEF CancelLock
      <4> QED
        BY <2>21, <3>1, <4>2, <4>3, <4>4 DEF CancelLock
    <3>2. CASE attached[cancelling[c]] = NoSocket
      BY <2>21, <3>2 DEF CancelLock
    <3> QED
      BY <3>1, <3>2
  <2>22. ASSUME NEW c \in Cancellers, CancelIo(c)
        PROVE  TypeInv'
    BY <2>22 DEF CancelIo
  <2>23. CASE UNCHANGED vars
    BY <2>23 DEF vars
  <2> QED
    BY SMTT(30), <2>1, <2>2, <2>3, <2>4, <2>5, <2>6, <2>7, <2>8, <2>9, <2>10, <2>11, <2>12, <2>13,
       <2>14, <2>15, <2>16, <2>17, <2>18, <2>19, <2>20, <2>21, <2>22, <2>23
    DEF Next, ConnectStep, CloseStep, IoStep, CancelStep
<1>3. QED
  BY <1>1, <1>2, PTL DEF Spec

\* Every variable keeps its type.
THEOREM TypeCorrect == Spec => []TypeOK
BY Types, PTL DEF TypeInv

\* On every path through connect(), close() and operator=, out of memory
\* included and handles shared or not, each open descriptor is held in exactly
\* one place and each place that is to close one holds its own.
LEMMA Descriptor == Spec => []DescriptorInv
<1> USE TcpStreamAssumption
<1>1. Init => Shape /\ DescriptorsAccounted
  BY DEF Init, Shape, DescriptorsAccounted, Empty, FreshPCs, CallPCs
<1>2. DescriptorInv /\ [Next]_vars => (Shape /\ DescriptorsAccounted)'
  <2> SUFFICES ASSUME DescriptorInv, [Next]_vars
               PROVE  (Shape /\ DescriptorsAccounted)'
    OBVIOUS
  <2> USE DEF DescriptorInv, TypeInv, TypeOK, Stream, Empty, Shape,
              DescriptorsAccounted, FreshPCs, CallPCs,
              stateVars, kernelVars, cancelVars
  <2>1. ASSUME NEW w \in Workers, NEW h \in Handles, Connect(w, h)
        PROVE  (Shape /\ DescriptorsAccounted)'
    BY <2>1 DEF Connect, Goto
  <2>2. ASSUME NEW w \in Workers, NEW r \in {"cancelled", "error"}, ConnectFails(w, r)
        PROVE  (Shape /\ DescriptorsAccounted)'
    BY SMTT(30), <2>2 DEF ConnectFails, Return
  <2>3. ASSUME NEW w \in Workers, NEW d \in Descriptors, ConnectWins(w, d)
        PROVE  (Shape /\ DescriptorsAccounted)'
    <3>1. /\ owner[d] = NoThread /\ owner' = [owner EXCEPT ![d] = w]
          /\ fresh' = [fresh EXCEPT ![w].socket = d] /\ stream' = stream
          /\ pc[w] = "connecting" /\ pc' = [pc EXCEPT ![w] = "won"]
      BY <2>3 DEF ConnectWins, Goto
    <3>2. \A v \in Workers : stream[v].socket # d /\ fresh[v].socket # d
      BY <3>1
    <3>3. Shape'
      BY <3>1
    <3>4. DescriptorsAccounted'
      <4>1. \A v \in Workers : fresh'[v].socket = IF v = w THEN d ELSE fresh[v].socket
        BY <3>1
      <4>2. \A e \in Descriptors : owner'[e] = IF e = d THEN w ELSE owner[e]
        BY <3>1
      <4>3. stream[w].socket # d /\ fresh[w].socket = NoSocket
        BY <3>1, <3>2
      <4> QED
        BY <3>1, <3>2, <4>1, <4>2, <4>3
    <3> QED
      BY <3>3, <3>4
  <2>4. ASSUME NEW w \in Workers, RestoreFails(w)
        PROVE  (Shape /\ DescriptorsAccounted)'
    BY <2>4 DEF RestoreFails, Goto
  <2>5. ASSUME NEW w \in Workers, Attach(w)
        PROVE  (Shape /\ DescriptorsAccounted)'
    BY <2>5 DEF Attach, Goto
  <2>6. ASSUME NEW w \in Workers, Build(w)
        PROVE  (Shape /\ DescriptorsAccounted)'
    BY <2>6 DEF Build, Goto
  <2>7. ASSUME NEW w \in Workers, BuildThrows(w)
        PROVE  (Shape /\ DescriptorsAccounted)'
    BY <2>7 DEF BuildThrows, Goto
  <2>8. ASSUME NEW w \in Workers, Discard(w)
        PROVE  (Shape /\ DescriptorsAccounted)'
    BY <2>8 DEF Discard, CloseSocket, Goto
  <2>9. ASSUME NEW w \in Workers, Take(w)
        PROVE  (Shape /\ DescriptorsAccounted)'
    BY <2>9 DEF Take, Goto
  <2>10. ASSUME NEW w \in Workers, Reset(w)
        PROVE  (Shape /\ DescriptorsAccounted)'
    <3>1. stream' = [stream EXCEPT ![w].socket = NoSocket]
          /\ fresh' = fresh /\ pc[w] \in {"reset", "assign_reset"}
          /\ pc' = [pc EXCEPT ![w] = IF pc[w] = "reset" THEN "idle" ELSE "adopt"]
      BY <2>10 DEF Reset, Goto
    <3>2. Shape'
      BY <3>1
    <3>3. CASE stream[w].socket = NoSocket
      <4>1. owner' = owner /\ stream'[w].socket = stream[w].socket
        BY <2>10, <3>1, <3>3 DEF Reset
      <4> QED
        BY <3>1, <3>2, <4>1
    <3>4. CASE stream[w].socket # NoSocket
      <4>1. owner' = [owner EXCEPT ![stream[w].socket] = NoThread]
        BY <2>10, <3>4 DEF Reset, CloseSocket
      <4> QED
        BY <3>1, <3>2, <3>4, <4>1
    <3> QED
      BY <3>3, <3>4
  <2>11. ASSUME NEW w \in Workers, Adopt(w)
        PROVE  (Shape /\ DescriptorsAccounted)'
    BY <2>11 DEF Adopt, Goto
  <2>12. ASSUME NEW w \in Workers, ReadChecks(w)
        PROVE  (Shape /\ DescriptorsAccounted)'
    BY <2>12 DEF ReadChecks, CallChecks, Return, Goto
  <2>13. ASSUME NEW w \in Workers, WriteChecks(w)
        PROVE  (Shape /\ DescriptorsAccounted)'
    BY <2>13 DEF WriteChecks, CallChecks, Return, Goto
  <2>14. ASSUME NEW w \in Workers, Enter(w)
        PROVE  (Shape /\ DescriptorsAccounted)'
    BY <2>14 DEF Enter, Goto
  <2>15. ASSUME NEW w \in Workers, NEW r \in {"data", "eof", "error"}, RecvReturns(w, r)
        PROVE  (Shape /\ DescriptorsAccounted)'
    BY <2>15 DEF RecvReturns, Complete, Return
  <2>16. ASSUME NEW w \in Workers, RecvTimesOut(w)
        PROVE  (Shape /\ DescriptorsAccounted)'
    BY <2>16 DEF RecvTimesOut, Complete, Return
  <2>17. ASSUME NEW w \in Workers, NEW r \in {"sent", "error"}, SendReturns(w, r)
        PROVE  (Shape /\ DescriptorsAccounted)'
    BY <2>17 DEF SendReturns, Complete, Return
  <2>18. ASSUME NEW w \in Workers, Aborted(w)
        PROVE  (Shape /\ DescriptorsAccounted)'
    BY <2>18 DEF Aborted, Complete, Return
  <2>19. ASSUME NEW w \in Workers, NEW r \in {"ok", "error"}, ShutdownSend(w, r)
        PROVE  (Shape /\ DescriptorsAccounted)'
    BY <2>19 DEF ShutdownSend, Return
  <2>20. ASSUME NEW c \in Cancellers, CancelStep(c)
        PROVE  (Shape /\ DescriptorsAccounted)'
    BY <2>20 DEF CancelStep, Cancel, CancelLock, CancelIo
  <2>21. CASE UNCHANGED vars
    BY <2>21 DEF vars
  <2> QED
    BY <2>1, <2>2, <2>3, <2>4, <2>5, <2>6, <2>7, <2>8, <2>9, <2>10, <2>11, <2>12, <2>13,
       <2>14, <2>15, <2>16, <2>17, <2>18, <2>19, <2>20, <2>21
    DEF Next, ConnectStep, CloseStep, IoStep
<1>3. QED
  BY <1>1, <1>2, Types, PTL DEF Spec, DescriptorInv

-----------------------------------------------------------------------------

\* The mutex argument of cancel.cpp, for a build of the stream that cannot
\* fail after the attach: what a handle has attached is held by a live stream
\* of this handle, and while cancel() holds the mutex it stays so.
LEMMA Safety == ASSUME ~BuildMayThrow PROVE Spec => []SafetyInv
<1> USE TcpStreamAssumption
<1>1. Init => AttachedIsHeld /\ MutexProtects
  BY DEF Init, AttachedIsHeld, MutexProtects
<1>2. SafetyInv /\ [Next]_vars => AttachedIsHeld'
  <2> SUFFICES ASSUME SafetyInv, [Next]_vars
               PROVE  AttachedIsHeld'
    OBVIOUS
  <2> USE DEF SafetyInv, DescriptorInv, TypeInv, TypeOK, Stream, Empty, Shape,
              AttachedIsHeld, FreshPCs, BoundPCs, ClosingPCs, CallPCs,
              stateVars, kernelVars, cancelVars
  <2>1. ASSUME NEW w \in Workers, NEW h \in Handles, Connect(w, h)
        PROVE  AttachedIsHeld'
    BY <2>1 DEF Connect, Goto
  <2>2. ASSUME NEW w \in Workers, NEW r \in {"cancelled", "error"}, ConnectFails(w, r)
        PROVE  AttachedIsHeld'
    BY <2>2 DEF ConnectFails, Return
  <2>3. ASSUME NEW w \in Workers, NEW d \in Descriptors, ConnectWins(w, d)
        PROVE  AttachedIsHeld'
    BY <2>3 DEF ConnectWins, Goto
  <2>4. ASSUME NEW w \in Workers, RestoreFails(w)
        PROVE  AttachedIsHeld'
    BY <2>4 DEF RestoreFails, Goto
  <2>5. ASSUME NEW w \in Workers, Attach(w)
        PROVE  AttachedIsHeld'
    BY <2>5 DEF Attach, Goto
  <2>6. ASSUME NEW w \in Workers, Build(w)
        PROVE  AttachedIsHeld'
    BY <2>6 DEF Build, Goto
  <2>7. ASSUME NEW w \in Workers, BuildThrows(w)
        PROVE  AttachedIsHeld'
    BY <2>7 DEF BuildThrows, Goto
  <2>8. ASSUME NEW w \in Workers, Discard(w)
        PROVE  AttachedIsHeld'
    BY <2>8 DEF Discard, CloseSocket, Goto
  <2>9. ASSUME NEW w \in Workers, Take(w)
        PROVE  AttachedIsHeld'
    BY SMTT(30), <2>9 DEF Take, Goto
  <2>10. ASSUME NEW w \in Workers, Reset(w)
        PROVE  AttachedIsHeld'
    BY <2>10 DEF Reset, CloseSocket, Goto
  <2>11. ASSUME NEW w \in Workers, Adopt(w)
        PROVE  AttachedIsHeld'
    BY <2>11 DEF Adopt, Goto
  <2>12. ASSUME NEW w \in Workers, ReadChecks(w)
        PROVE  AttachedIsHeld'
    BY <2>12 DEF ReadChecks, CallChecks, Return, Goto
  <2>13. ASSUME NEW w \in Workers, WriteChecks(w)
        PROVE  AttachedIsHeld'
    BY <2>13 DEF WriteChecks, CallChecks, Return, Goto
  <2>14. ASSUME NEW w \in Workers, Enter(w)
        PROVE  AttachedIsHeld'
    BY <2>14 DEF Enter, Goto
  <2>15. ASSUME NEW w \in Workers, NEW r \in {"data", "eof", "error"}, RecvReturns(w, r)
        PROVE  AttachedIsHeld'
    BY <2>15 DEF RecvReturns, Complete, Return
  <2>16. ASSUME NEW w \in Workers, RecvTimesOut(w)
        PROVE  AttachedIsHeld'
    BY <2>16 DEF RecvTimesOut, Complete, Return
  <2>17. ASSUME NEW w \in Workers, NEW r \in {"sent", "error"}, SendReturns(w, r)
        PROVE  AttachedIsHeld'
    BY <2>17 DEF SendReturns, Complete, Return
  <2>18. ASSUME NEW w \in Workers, Aborted(w)
        PROVE  AttachedIsHeld'
    BY <2>18 DEF Aborted, Complete, Return
  <2>19. ASSUME NEW w \in Workers, NEW r \in {"ok", "error"}, ShutdownSend(w, r)
        PROVE  AttachedIsHeld'
    BY <2>19 DEF ShutdownSend, Return
  <2>20. ASSUME NEW c \in Cancellers, CancelStep(c)
        PROVE  AttachedIsHeld'
    BY <2>20 DEF CancelStep, Cancel, CancelLock, CancelIo
  <2>21. CASE UNCHANGED vars
    BY <2>21 DEF vars
  <2> HIDE DEF SafetyInv, AttachedIsHeld
  <2> QED
    BY <2>1, <2>2, <2>3, <2>4, <2>5, <2>6, <2>7, <2>8, <2>9, <2>10, <2>11, <2>12, <2>13,
       <2>14, <2>15, <2>16, <2>17, <2>18, <2>19, <2>20, <2>21
    DEF Next, ConnectStep, CloseStep, IoStep
<1>3. SafetyInv /\ [Next]_vars => MutexProtects'
  <2> SUFFICES ASSUME SafetyInv, [Next]_vars
               PROVE  MutexProtects'
    OBVIOUS
  <2> USE DEF SafetyInv, DescriptorInv, TypeInv, CancellerHasHandle, TypeOK, Stream,
              MutexProtects, stateVars, kernelVars, cancelVars
  <2>1. ASSUME NEW w \in Workers, NEW h \in Handles, Connect(w, h)
        PROVE  MutexProtects'
    BY <2>1 DEF Connect, Goto
  <2>2. ASSUME NEW w \in Workers, NEW r \in {"cancelled", "error"}, ConnectFails(w, r)
        PROVE  MutexProtects'
    BY <2>2 DEF ConnectFails, Return
  <2>3. ASSUME NEW w \in Workers, NEW d \in Descriptors, ConnectWins(w, d)
        PROVE  MutexProtects'
    BY <2>3 DEF ConnectWins, Goto
  <2>4. ASSUME NEW w \in Workers, RestoreFails(w)
        PROVE  MutexProtects'
    BY <2>4 DEF RestoreFails, Goto
  <2>5. ASSUME NEW w \in Workers, Attach(w)
        PROVE  MutexProtects'
    BY <2>5 DEF Attach, Goto
  <2>6. ASSUME NEW w \in Workers, Build(w)
        PROVE  MutexProtects'
    BY <2>6 DEF Build, Goto
  <2>7. ASSUME NEW w \in Workers, BuildThrows(w)
        PROVE  MutexProtects'
    BY <2>7 DEF BuildThrows, Goto
  <2>8. ASSUME NEW w \in Workers, Discard(w)
        PROVE  MutexProtects'
    BY <2>8 DEF Discard, CloseSocket, Goto
  <2>9. ASSUME NEW w \in Workers, Take(w)
        PROVE  MutexProtects'
    BY <2>9 DEF Take, Goto
  <2>10. ASSUME NEW w \in Workers, Reset(w)
        PROVE  MutexProtects'
    BY <2>10 DEF Reset, CloseSocket, Goto
  <2>11. ASSUME NEW w \in Workers, Adopt(w)
        PROVE  MutexProtects'
    BY <2>11 DEF Adopt, Goto
  <2>12. ASSUME NEW w \in Workers, ReadChecks(w)
        PROVE  MutexProtects'
    BY <2>12 DEF ReadChecks, CallChecks, Return, Goto
  <2>13. ASSUME NEW w \in Workers, WriteChecks(w)
        PROVE  MutexProtects'
    BY <2>13 DEF WriteChecks, CallChecks, Return, Goto
  <2>14. ASSUME NEW w \in Workers, Enter(w)
        PROVE  MutexProtects'
    BY <2>14 DEF Enter, Goto
  <2>15. ASSUME NEW w \in Workers, NEW r \in {"data", "eof", "error"}, RecvReturns(w, r)
        PROVE  MutexProtects'
    BY <2>15 DEF RecvReturns, Complete, Return
  <2>16. ASSUME NEW w \in Workers, RecvTimesOut(w)
        PROVE  MutexProtects'
    BY <2>16 DEF RecvTimesOut, Complete, Return
  <2>17. ASSUME NEW w \in Workers, NEW r \in {"sent", "error"}, SendReturns(w, r)
        PROVE  MutexProtects'
    BY <2>17 DEF SendReturns, Complete, Return
  <2>18. ASSUME NEW w \in Workers, Aborted(w)
        PROVE  MutexProtects'
    BY <2>18 DEF Aborted, Complete, Return
  <2>19. ASSUME NEW w \in Workers, NEW r \in {"ok", "error"}, ShutdownSend(w, r)
        PROVE  MutexProtects'
    BY <2>19 DEF ShutdownSend, Return
  <2>20. ASSUME NEW c \in Cancellers, NEW h \in Handles, Cancel(c, h)
        PROVE  MutexProtects'
    BY <2>20 DEF Cancel
  <2>21. ASSUME NEW c \in Cancellers, CancelLock(c)
        PROVE  MutexProtects'
    BY <2>21 DEF CancelLock
  <2>22. ASSUME NEW c \in Cancellers, CancelIo(c)
        PROVE  MutexProtects'
    BY <2>22 DEF CancelIo
  <2>23. CASE UNCHANGED vars
    BY <2>23 DEF vars
  <2> QED
    BY <2>1, <2>2, <2>3, <2>4, <2>5, <2>6, <2>7, <2>8, <2>9, <2>10, <2>11, <2>12, <2>13,
       <2>14, <2>15, <2>16, <2>17, <2>18, <2>19, <2>20, <2>21, <2>22, <2>23
    DEF Next, ConnectStep, CloseStep, IoStep, CancelStep
<1>4. QED
  BY <1>1, <1>2, <1>3, Descriptor, PTL DEF Spec, SafetyInv

\* cancel() never issues CancelIoEx on a descriptor that the owner has closed
\* or that meanwhile belongs to another connection.
THEOREM CancelIsSafe ==
    ASSUME ~BuildMayThrow PROVE Spec => []CancelReachesOwnSocket
<1> USE TcpStreamAssumption
<1>1. SafetyInv => CancelReachesOwnSocket
  <2> SUFFICES ASSUME SafetyInv, NEW c \in Cancellers, cpc[c] = "locked"
               PROVE  \E w \in Workers : /\ owner[target[c]] = w
                                         /\ Holds(w, target[c], cancelling[c])
    BY DEF CancelReachesOwnSocket
  <2> DEFINE h == cancelling[c]
             d == target[c]
  <2>1. h \in Handles /\ d \in Descriptors /\ d = attached[h]
    BY DEF SafetyInv, DescriptorInv, TypeInv, TypeOK, CancellerHasHandle,
           MutexProtects
  <2>2. PICK w \in Workers : \/ stream[w] = [socket |-> d, cancel |-> h]
                             \/ fresh[w] = [socket |-> d, cancel |-> h]
    BY <2>1 DEF SafetyInv, AttachedIsHeld, MutexProtects
  <2>3. owner[d] = w
    BY <2>1, <2>2 DEF SafetyInv, DescriptorInv, DescriptorsAccounted
  <2> QED
    BY <2>2, <2>3 DEF Holds
<1>2. QED
  BY <1>1, Safety, PTL

\* No leak and no double close, whatever fails and whichever handles are shared.
THEOREM DescriptorsAreAccounted == Spec => []DescriptorsAccounted
BY Descriptor, PTL DEF DescriptorInv

LEMMA Aborts == ASSUME ~BuildMayThrow PROVE Spec => []AbortInv
<1> USE TcpStreamAssumption
<1>1. Init => IoIsOwned /\ AbortedIsRequested
  BY DEF Init, IoIsOwned, AbortedIsRequested, Empty
<1>2. AbortInv /\ [Next]_vars => IoIsOwned'
  <2> SUFFICES ASSUME AbortInv, [Next]_vars
               PROVE  IoIsOwned'
    OBVIOUS
  <2> USE DEF AbortInv, SafetyInv, DescriptorInv, TypeInv, CancellerHasHandle, TypeOK,
              Stream, Empty,
              Shape, IoIsOwned, FreshPCs, CallPCs, DescriptorsAccounted,
              stateVars, kernelVars, cancelVars
  <2>1. ASSUME NEW w \in Workers, NEW h \in Handles, Connect(w, h)
        PROVE  IoIsOwned'
    BY <2>1 DEF Connect, Goto
  <2>2. ASSUME NEW w \in Workers, NEW r \in {"cancelled", "error"}, ConnectFails(w, r)
        PROVE  IoIsOwned'
    BY <2>2 DEF ConnectFails, Return
  <2>3. ASSUME NEW w \in Workers, NEW d \in Descriptors, ConnectWins(w, d)
        PROVE  IoIsOwned'
    BY <2>3 DEF ConnectWins, Goto
  <2>4. ASSUME NEW w \in Workers, RestoreFails(w)
        PROVE  IoIsOwned'
    BY <2>4 DEF RestoreFails, Goto
  <2>5. ASSUME NEW w \in Workers, Attach(w)
        PROVE  IoIsOwned'
    BY <2>5 DEF Attach, Goto
  <2>6. ASSUME NEW w \in Workers, Build(w)
        PROVE  IoIsOwned'
    BY <2>6 DEF Build, Goto
  <2>7. ASSUME NEW w \in Workers, BuildThrows(w)
        PROVE  IoIsOwned'
    BY <2>7 DEF BuildThrows, Goto
  <2>8. ASSUME NEW w \in Workers, Discard(w)
        PROVE  IoIsOwned'
    BY <2>8 DEF Discard, CloseSocket, Goto
  <2>9. ASSUME NEW w \in Workers, Take(w)
        PROVE  IoIsOwned'
    BY <2>9 DEF Take, Goto
  <2>10. ASSUME NEW w \in Workers, Reset(w)
        PROVE  IoIsOwned'
    BY <2>10 DEF Reset, CloseSocket, Goto
  <2>11. ASSUME NEW w \in Workers, Adopt(w)
        PROVE  IoIsOwned'
    BY <2>11 DEF Adopt, Goto
  <2>12. ASSUME NEW w \in Workers, ReadChecks(w)
        PROVE  IoIsOwned'
    BY <2>12 DEF ReadChecks, CallChecks, Return, Goto
  <2>13. ASSUME NEW w \in Workers, WriteChecks(w)
        PROVE  IoIsOwned'
    BY <2>13 DEF WriteChecks, CallChecks, Return, Goto
  <2>14. ASSUME NEW w \in Workers, Enter(w)
        PROVE  IoIsOwned'
    BY <2>14 DEF Enter, Goto
  <2>15. ASSUME NEW w \in Workers, NEW r \in {"data", "eof", "error"}, RecvReturns(w, r)
        PROVE  IoIsOwned'
    BY <2>15 DEF RecvReturns, Complete, Return
  <2>16. ASSUME NEW w \in Workers, RecvTimesOut(w)
        PROVE  IoIsOwned'
    BY <2>16 DEF RecvTimesOut, Complete, Return
  <2>17. ASSUME NEW w \in Workers, NEW r \in {"sent", "error"}, SendReturns(w, r)
        PROVE  IoIsOwned'
    BY <2>17 DEF SendReturns, Complete, Return
  <2>18. ASSUME NEW w \in Workers, Aborted(w)
        PROVE  IoIsOwned'
    BY <2>18 DEF Aborted, Complete, Return
  <2>19. ASSUME NEW w \in Workers, NEW r \in {"ok", "error"}, ShutdownSend(w, r)
        PROVE  IoIsOwned'
    BY <2>19 DEF ShutdownSend, Return
  <2>20. ASSUME NEW c \in Cancellers, NEW h \in Handles, Cancel(c, h)
        PROVE  IoIsOwned'
    BY <2>20 DEF Cancel
  <2>21. ASSUME NEW c \in Cancellers, CancelLock(c)
        PROVE  IoIsOwned'
    BY <2>21 DEF CancelLock
  <2>22. ASSUME NEW c \in Cancellers, CancelIo(c)
        PROVE  IoIsOwned'
    BY <2>22 DEF CancelIo
  <2>23. CASE UNCHANGED vars
    BY <2>23 DEF vars
  <2> QED
    BY <2>1, <2>2, <2>3, <2>4, <2>5, <2>6, <2>7, <2>8, <2>9, <2>10, <2>11, <2>12, <2>13,
       <2>14, <2>15, <2>16, <2>17, <2>18, <2>19, <2>20, <2>21, <2>22, <2>23
    DEF Next, ConnectStep, CloseStep, IoStep, CancelStep
<1>3. AbortInv /\ [Next]_vars => AbortedIsRequested'
  <2> SUFFICES ASSUME AbortInv, [Next]_vars
               PROVE  AbortedIsRequested'
    OBVIOUS
  <2> USE DEF AbortInv, SafetyInv, DescriptorInv, TypeInv, CancellerHasHandle,
              TypeOK, Stream, Empty, Shape, IoIsOwned, AbortedIsRequested,
              FreshPCs, CallPCs, DescriptorsAccounted,
              stateVars, kernelVars, cancelVars
  <2>1. ASSUME NEW w \in Workers, NEW h \in Handles, Connect(w, h)
        PROVE  AbortedIsRequested'
    BY <2>1 DEF Connect, Goto
  <2>2. ASSUME NEW w \in Workers, NEW r \in {"cancelled", "error"}, ConnectFails(w, r)
        PROVE  AbortedIsRequested'
    BY <2>2 DEF ConnectFails, Return
  <2>3. ASSUME NEW w \in Workers, NEW d \in Descriptors, ConnectWins(w, d)
        PROVE  AbortedIsRequested'
    BY <2>3 DEF ConnectWins, Goto
  <2>4. ASSUME NEW w \in Workers, RestoreFails(w)
        PROVE  AbortedIsRequested'
    BY <2>4 DEF RestoreFails, Goto
  <2>5. ASSUME NEW w \in Workers, Attach(w)
        PROVE  AbortedIsRequested'
    BY <2>5 DEF Attach, Goto
  <2>6. ASSUME NEW w \in Workers, Build(w)
        PROVE  AbortedIsRequested'
    BY <2>6 DEF Build, Goto
  <2>7. ASSUME NEW w \in Workers, BuildThrows(w)
        PROVE  AbortedIsRequested'
    BY <2>7 DEF BuildThrows, Goto
  <2>8. ASSUME NEW w \in Workers, Discard(w)
        PROVE  AbortedIsRequested'
    BY <2>8 DEF Discard, CloseSocket, Goto
  <2>9. ASSUME NEW w \in Workers, Take(w)
        PROVE  AbortedIsRequested'
    BY <2>9 DEF Take, Goto
  <2>10. ASSUME NEW w \in Workers, Reset(w)
        PROVE  AbortedIsRequested'
    BY <2>10 DEF Reset, CloseSocket, Goto
  <2>11. ASSUME NEW w \in Workers, Adopt(w)
        PROVE  AbortedIsRequested'
    BY <2>11 DEF Adopt, Goto
  <2>12. ASSUME NEW w \in Workers, ReadChecks(w)
        PROVE  AbortedIsRequested'
    BY <2>12 DEF ReadChecks, CallChecks, Return, Goto
  <2>13. ASSUME NEW w \in Workers, WriteChecks(w)
        PROVE  AbortedIsRequested'
    BY <2>13 DEF WriteChecks, CallChecks, Return, Goto
  <2>14. ASSUME NEW w \in Workers, Enter(w)
        PROVE  AbortedIsRequested'
    BY <2>14 DEF Enter, Goto
  <2>15. ASSUME NEW w \in Workers, NEW r \in {"data", "eof", "error"}, RecvReturns(w, r)
        PROVE  AbortedIsRequested'
    BY <2>15 DEF RecvReturns, Complete, Return
  <2>16. ASSUME NEW w \in Workers, RecvTimesOut(w)
        PROVE  AbortedIsRequested'
    BY <2>16 DEF RecvTimesOut, Complete, Return
  <2>17. ASSUME NEW w \in Workers, NEW r \in {"sent", "error"}, SendReturns(w, r)
        PROVE  AbortedIsRequested'
    BY <2>17 DEF SendReturns, Complete, Return
  <2>18. ASSUME NEW w \in Workers, Aborted(w)
        PROVE  AbortedIsRequested'
    BY <2>18 DEF Aborted, Complete, Return
  <2>19. ASSUME NEW w \in Workers, NEW r \in {"ok", "error"}, ShutdownSend(w, r)
        PROVE  AbortedIsRequested'
    BY <2>19 DEF ShutdownSend, Return
  <2>20. ASSUME NEW c \in Cancellers, NEW h \in Handles, Cancel(c, h)
        PROVE  AbortedIsRequested'
    BY <2>20 DEF Cancel
  <2>21. ASSUME NEW c \in Cancellers, CancelLock(c)
        PROVE  AbortedIsRequested'
    BY <2>21 DEF CancelLock
  <2>22. ASSUME NEW c \in Cancellers, CancelIo(c)
        PROVE  AbortedIsRequested'
    <3> DEFINE h == cancelling[c]
               d == target[c]
    <3>1. /\ h \in Handles /\ d \in Descriptors /\ d = attached[h] /\ requested[h]
          /\ io' = [io EXCEPT ![d] = IF @ = "pending" THEN "aborted" ELSE @]
          /\ UNCHANGED <<requested, stream>>
      BY <2>22 DEF CancelIo, MutexProtects
    <3>2. PICK v \in Workers : \/ stream[v] = [socket |-> d, cancel |-> h]
                               \/ fresh[v] = [socket |-> d, cancel |-> h]
      BY <3>1 DEF AttachedIsHeld
    <3>3. \A w \in Workers : stream[w].socket = d => stream[w].cancel = h
      <4>1. \A w \in Workers : stream[w].socket = d => w = v
        BY <3>1, <3>2
      <4>2. fresh[v].socket = d => stream[v].socket # d
        BY <3>1
      <4> QED
        BY <3>2, <4>1, <4>2
    <3>4. \A w \in Workers :
             stream'[w].socket # NoSocket /\ io'[stream'[w].socket] = "aborted" =>
                 requested'[stream'[w].cancel]
      BY <3>1, <3>3
    <3>5. \A b \in Cancellers : cpc'[b] # "idle" => requested'[cancelling'[b]]
      BY <2>22 DEF CancelIo
    <3> QED
      BY <3>4, <3>5
  <2>23. CASE UNCHANGED vars
    BY <2>23 DEF vars
  <2> QED
    BY <2>1, <2>2, <2>3, <2>4, <2>5, <2>6, <2>7, <2>8, <2>9, <2>10, <2>11, <2>12, <2>13,
       <2>14, <2>15, <2>16, <2>17, <2>18, <2>19, <2>20, <2>21, <2>22, <2>23
    DEF Next, ConnectStep, CloseStep, IoStep, CancelStep
<1>4. QED
  BY <1>1, <1>2, <1>3, Safety, PTL DEF Spec, AbortInv

\* A read or a write reports a cancellation only if its own handle was
\* cancelled: a recycled descriptor never carries one stream's cancellation to
\* another stream.
THEOREM CancellationIsNotSpurious ==
    ASSUME ~BuildMayThrow PROVE Spec => NoSpuriousCancel
<1> USE TcpStreamAssumption
<1>1. AbortInv /\ [Next]_vars =>
        [\A w \in Workers :
            (pc[w] \in {"recv", "send"} /\ pc'[w] = "idle"
               /\ outcome'[w] = "cancelled") => requested[stream[w].cancel]]_vars
  <2> SUFFICES ASSUME AbortInv, Next, NEW w \in Workers,
                      pc[w] \in {"recv", "send"}, pc'[w] = "idle",
                      outcome'[w] = "cancelled"
               PROVE  requested[stream[w].cancel]
    OBVIOUS
  <2> USE DEF AbortInv, SafetyInv, DescriptorInv, TypeInv, TypeOK, Stream, Shape, CallPCs
  <2>1. \A v \in Workers : ConnectStep(v) => v # w
    BY DEF ConnectStep, Connect, ConnectFails, ConnectWins, RestoreFails, Attach,
           Build, BuildThrows, Discard
  <2>2. \A v \in Workers : CloseStep(v) => v # w
    BY DEF CloseStep, Take, Reset, Adopt
  <2>3. \A v \in Workers : v # w => ~ConnectStep(v) /\ ~CloseStep(v) /\ ~IoStep(v)
    BY DEF ConnectStep, Connect, ConnectFails, ConnectWins, RestoreFails, Attach,
           Build, BuildThrows, Discard, CloseStep, Take, Reset, Adopt, IoStep,
           ReadChecks, WriteChecks, CallChecks, Enter, RecvReturns, RecvTimesOut,
           SendReturns, Aborted, ShutdownSend, Complete, Return, Goto
  <2>4. \A c \in Cancellers : ~CancelStep(c)
    BY DEF CancelStep, Cancel, CancelLock, CancelIo
  <2>5. IoStep(w)
    BY <2>1, <2>2, <2>3, <2>4 DEF Next
  <2>6. CASE \E r \in {"data", "eof", "error"} : RecvReturns(w, r)
    BY <2>6 DEF RecvReturns, Complete, Return, Classify, CancelRequested
  <2>7. CASE RecvTimesOut(w)
    BY <2>7 DEF RecvTimesOut, Complete, Return, Classify, CancelRequested
  <2>8. CASE \E r \in {"sent", "error"} : SendReturns(w, r)
    BY <2>8 DEF SendReturns, Complete, Return, Classify, CancelRequested
  <2>9. CASE Aborted(w)
    BY <2>9 DEF Aborted, AbortedIsRequested
  <2> QED
    BY <2>5, <2>6, <2>7, <2>8, <2>9
    DEF IoStep, ReadChecks, WriteChecks, CallChecks, Enter, ShutdownSend
<1>2. QED
  BY <1>1, Aborts, PTL DEF Spec, NoSpuriousCancel

-----------------------------------------------------------------------------

\* What follows is about callers that give each handle to one connect (cancel.h:66,
\* "interrupting one connection"). Such a handle is that of one stream or of one
\* connect in progress.
LEMMA Ownership == ASSUME ~ReuseHandles PROVE Spec => [](DescriptorInv /\ Exclusive)
<1> USE TcpStreamAssumption
<1>1. Init => Exclusive
  <2> SUFFICES ASSUME Init PROVE Exclusive
    OBVIOUS
  <2>1. \A w \in Workers : stream[w].cancel = NoHandle /\ fresh[w].cancel = NoHandle
    BY DEF Init, Empty
  <2> QED
    BY <2>1 DEF Exclusive
<1>2. DescriptorInv /\ Exclusive /\ [Next]_vars => Exclusive'
  <2> SUFFICES ASSUME DescriptorInv, Exclusive, [Next]_vars
               PROVE  Exclusive'
    OBVIOUS
  <2> USE DEF DescriptorInv, TypeInv, TypeOK, Stream, Empty, Exclusive
  <2>1. ASSUME NEW w \in Workers, NEW h \in Handles, Connect(w, h)
        PROVE  Exclusive'
    BY <2>1 DEF Connect
  <2>2. ASSUME NEW w \in Workers, NEW r \in {"cancelled", "error"}, ConnectFails(w, r)
        PROVE  Exclusive'
    BY <2>2 DEF ConnectFails
  <2>3. ASSUME NEW w \in Workers, NEW d \in Descriptors, ConnectWins(w, d)
        PROVE  Exclusive'
    BY <2>3 DEF ConnectWins
  <2>4. ASSUME NEW w \in Workers, Discard(w)
        PROVE  Exclusive'
    BY <2>4 DEF Discard
  <2>5. ASSUME NEW w \in Workers, Reset(w)
        PROVE  Exclusive'
    BY <2>5 DEF Reset
  <2>6. ASSUME NEW w \in Workers, Adopt(w)
        PROVE  Exclusive'
    BY <2>6 DEF Adopt
  <2>7. ASSUME UNCHANGED <<stream, fresh, used>>
        PROVE  Exclusive'
    BY <2>7
  <2>8. ASSUME NEW w \in Workers,
               RestoreFails(w) \/ Attach(w) \/ Build(w) \/ BuildThrows(w) \/ Take(w)
                  \/ IoStep(w)
        PROVE  UNCHANGED <<stream, fresh, used>>
    BY <2>8 DEF RestoreFails, Attach, Build, BuildThrows, Take, IoStep, ReadChecks,
                WriteChecks, CallChecks, Enter, RecvReturns, RecvTimesOut,
                SendReturns, Aborted, ShutdownSend, Complete
  <2>9. ASSUME NEW c \in Cancellers, CancelStep(c)
        PROVE  UNCHANGED <<stream, fresh, used>>
    BY <2>9 DEF CancelStep, Cancel, CancelLock, CancelIo
  <2>10. CASE UNCHANGED vars
    BY <2>7, <2>10 DEF vars
  <2> QED
    BY <2>1, <2>2, <2>3, <2>4, <2>5, <2>6, <2>7, <2>8, <2>9, <2>10
    DEF Next, ConnectStep, CloseStep
<1>3. QED
  BY <1>1, <1>2, Descriptor, PTL DEF Spec

\* From the attach to the close nothing but its own worker touches what the
\* handle has attached.
LEMMA Attachment == ASSUME ~ReuseHandles PROVE Spec => []HandleInv
<1> USE TcpStreamAssumption
<1>1. Init => WinnerIsAttached /\ Interruptible
  BY DEF Init, WinnerIsAttached, Interruptible, Empty, BoundPCs
<1>2. HandleInv /\ [Next]_vars => (WinnerIsAttached /\ Interruptible)'
  <2> SUFFICES ASSUME HandleInv, [Next]_vars
               PROVE  (WinnerIsAttached /\ Interruptible)'
    OBVIOUS
  <2> USE DEF HandleInv, DescriptorInv, TypeInv, TypeOK, Stream, Empty, Shape,
              WinnerIsAttached, Interruptible, FreshPCs, BoundPCs,
              CallPCs, stateVars
  <2>1. ASSUME NEW w \in Workers, NEW h \in Handles, Connect(w, h)
        PROVE  (WinnerIsAttached /\ Interruptible)'
    BY <2>1 DEF Connect, Goto
  <2>2. ASSUME NEW w \in Workers, NEW r \in {"cancelled", "error"}, ConnectFails(w, r)
        PROVE  (WinnerIsAttached /\ Interruptible)'
    BY <2>2 DEF ConnectFails, Return
  <2>3. ASSUME NEW w \in Workers, NEW d \in Descriptors, ConnectWins(w, d)
        PROVE  (WinnerIsAttached /\ Interruptible)'
    BY <2>3 DEF ConnectWins, Goto
  <2>4. ASSUME NEW w \in Workers, RestoreFails(w)
        PROVE  (WinnerIsAttached /\ Interruptible)'
    BY <2>4 DEF RestoreFails, Goto
  <2>5. ASSUME NEW w \in Workers, Attach(w)
        PROVE  (WinnerIsAttached /\ Interruptible)'
    <3> DEFINE h == fresh[w].cancel
    <3>1. h \in Handles /\ pc[w] = "won" /\ UNCHANGED <<stream, fresh>>
      BY <2>5 DEF Attach
    <3>2. CASE requested[h]
      BY <2>5, <3>1, <3>2 DEF Attach, Goto
    <3>3. CASE ~requested[h]
      <4>1. /\ attached' = [attached EXCEPT ![h] = fresh[w].socket]
            /\ pc' = [pc EXCEPT ![w] = "attached"]
        BY <2>5, <3>3 DEF Attach, Goto
      <4>2. \A v \in Workers : stream[v].cancel # h /\ (v # w => fresh[v].cancel # h)
        BY <3>1 DEF Exclusive
      <4>3. WinnerIsAttached'
        BY <3>1, <4>1, <4>2
      <4>4. Interruptible'
        BY <3>1, <4>1, <4>2
      <4> QED
        BY <4>3, <4>4
    <3> QED
      BY <3>2, <3>3
  <2>6. ASSUME NEW w \in Workers, Build(w)
        PROVE  (WinnerIsAttached /\ Interruptible)'
    BY <2>6 DEF Build, Goto
  <2>7. ASSUME NEW w \in Workers, BuildThrows(w)
        PROVE  (WinnerIsAttached /\ Interruptible)'
    BY <2>7 DEF BuildThrows, Goto
  <2>8. ASSUME NEW w \in Workers, Discard(w)
        PROVE  (WinnerIsAttached /\ Interruptible)'
    BY <2>8 DEF Discard, Goto
  <2>9. ASSUME NEW w \in Workers, Take(w)
        PROVE  (WinnerIsAttached /\ Interruptible)'
    <3> DEFINE h == stream[w].cancel
    <3>1. /\ pc[w] \in {"idle", "built"} /\ UNCHANGED <<stream, fresh>>
          /\ pc' = [pc EXCEPT ![w] = IF pc[w] = "built" THEN "assign_reset" ELSE "reset"]
      BY <2>9 DEF Take, Goto
    <3>2. CASE h = NoHandle
      BY <2>9, <3>1, <3>2 DEF Take
    <3>3. CASE h # NoHandle
      <4>1. h \in Handles /\ attached' = [attached EXCEPT ![h] = NoSocket]
        BY <2>9, <3>3 DEF Take
      <4>2. \A v \in Workers : fresh[v].cancel # h /\ (v # w => stream[v].cancel # h)
        BY <3>3 DEF Exclusive
      <4>3. WinnerIsAttached'
        BY <3>1, <4>1, <4>2
      <4>4. Interruptible'
        BY <3>1, <4>1, <4>2
      <4> QED
        BY <4>3, <4>4
    <3> QED
      BY <3>2, <3>3
  <2>10. ASSUME NEW w \in Workers, Reset(w)
        PROVE  (WinnerIsAttached /\ Interruptible)'
    BY <2>10 DEF Reset, Goto
  <2>11. ASSUME NEW w \in Workers, Adopt(w)
        PROVE  (WinnerIsAttached /\ Interruptible)'
    BY <2>11 DEF Adopt, Goto
  <2>12. ASSUME NEW w \in Workers, IoStep(w)
        PROVE  (WinnerIsAttached /\ Interruptible)'
    <3>1. UNCHANGED <<attached, stream, fresh>>
      BY <2>12 DEF IoStep, ReadChecks, WriteChecks, CallChecks, Enter, RecvReturns,
                   RecvTimesOut, SendReturns, Aborted, ShutdownSend, Complete
    <3>2. /\ pc[w] \notin BoundPCs \cup ClosingPCs
          /\ \E l \in CallPCs \cup {"idle"} : pc' = [pc EXCEPT ![w] = l]
      <4>1. CASE ReadChecks(w) \/ WriteChecks(w)
        <5>1. PICK call \in {"enter_recv", "enter_send"} : CallChecks(w, call)
          BY <4>1 DEF ReadChecks, WriteChecks
        <5>2. pc[w] = "idle" /\ \/ pc' = [pc EXCEPT ![w] = "idle"]
                                \/ pc' = [pc EXCEPT ![w] = call]
          BY <5>1 DEF CallChecks, Return, Goto
        <5> QED
          BY <5>2 DEF ClosingPCs
      <4>2. CASE Enter(w)
        BY <4>2 DEF Enter, Goto, ClosingPCs
      <4>3. CASE ~(ReadChecks(w) \/ WriteChecks(w) \/ Enter(w))
        BY <2>12, <4>3 DEF IoStep, RecvReturns, RecvTimesOut, SendReturns, Aborted,
                           ShutdownSend, Complete, Return, ClosingPCs
      <4> QED
        BY <4>1, <4>2, <4>3
    <3> QED
      BY <3>1, <3>2 DEF ClosingPCs
  <2>13. ASSUME NEW c \in Cancellers, CancelStep(c)
        PROVE  (WinnerIsAttached /\ Interruptible)'
    BY <2>13 DEF CancelStep, Cancel, CancelLock, CancelIo
  <2>14. CASE UNCHANGED vars
    BY <2>14 DEF vars
  <2> QED
    BY <2>1, <2>2, <2>3, <2>4, <2>5, <2>6, <2>7, <2>8, <2>9, <2>10, <2>11, <2>12, <2>13,
       <2>14
    DEF Next, ConnectStep, CloseStep
<1>3. QED
  BY <1>1, <1>2, Ownership, PTL DEF Spec, HandleInv

\* A stream that is open and not being closed can always be reached through
\* its handle: no order of connects, closes and assignments, out of memory
\* included, leaves it where cancel() would find nothing to abort.
THEOREM StreamIsInterruptible ==
    ASSUME ~ReuseHandles PROVE Spec => []Interruptible
BY Attachment, PTL DEF HandleInv

\* Once the flag is set, one blocking call at most is still entered on the
\* connection: the one whose thread had already looked at the flag.
THEOREM AtMostOneCallIsLate ==
    ASSUME ~ReuseHandles PROVE Spec => []AtMostOneLateCall
<1> USE TcpStreamAssumption
<1>1. Init => LateIsLast /\ AtMostOneLateCall
  BY DEF Init, LateIsLast, AtMostOneLateCall
<1>2. /\ DescriptorInv /\ Exclusive /\ LateIsLast /\ AtMostOneLateCall
      /\ [Next]_vars
      => (LateIsLast /\ AtMostOneLateCall)'
  <2> SUFFICES ASSUME DescriptorInv, Exclusive, LateIsLast, AtMostOneLateCall,
                      [Next]_vars
               PROVE  (LateIsLast /\ AtMostOneLateCall)'
    OBVIOUS
  <2> USE DEF DescriptorInv, TypeInv, TypeOK, Stream, Empty, Shape, CallPCs,
              LateIsLast, AtMostOneLateCall, stateVars
  <2>1. ASSUME NEW w \in Workers, ConnectStep(w) \/ Take(w)
        PROVE  (LateIsLast /\ AtMostOneLateCall)'
    <3>1. UNCHANGED <<requested, stream, late>>
      BY <2>1 DEF ConnectStep, Connect, ConnectFails, ConnectWins, RestoreFails,
                  Attach, Build, BuildThrows, Discard, Take
    <3>2. \A v \in Workers :
             pc'[v] \in {"enter_recv", "enter_send"} => pc'[v] = pc[v]
      BY <2>1 DEF ConnectStep, Connect, ConnectFails, ConnectWins, RestoreFails,
                  Attach, Build, BuildThrows, Discard, Take, Goto, Return
    <3> QED
      BY <3>1, <3>2
  <2>2. ASSUME NEW w \in Workers, Reset(w)
        PROVE  (LateIsLast /\ AtMostOneLateCall)'
    BY <2>2 DEF Reset, Goto
  <2>3. ASSUME NEW w \in Workers, Adopt(w)
        PROVE  (LateIsLast /\ AtMostOneLateCall)'
    BY <2>3 DEF Adopt, Goto
  <2>4. ASSUME NEW w \in Workers, ReadChecks(w) \/ WriteChecks(w)
        PROVE  (LateIsLast /\ AtMostOneLateCall)'
    BY <2>4 DEF ReadChecks, WriteChecks, CallChecks, CancelRequested, Goto, Return
  <2>5. ASSUME NEW w \in Workers, Enter(w)
        PROVE  (LateIsLast /\ AtMostOneLateCall)'
    <3> DEFINE h == stream[w].cancel
    <3>1. /\ pc[w] \in {"enter_recv", "enter_send"}
          /\ h \in Handles /\ UNCHANGED <<requested, stream>>
          /\ pc' = [pc EXCEPT ![w] = IF pc[w] = "enter_recv" THEN "recv" ELSE "send"]
      BY <2>5 DEF Enter, Goto
    <3>2. late[h] = 0
      BY <3>1
    <3>3. late' = [late EXCEPT ![h] = IF requested[h] THEN 1 ELSE 0]
      BY <2>5, <3>2 DEF Enter, MostLate
    <3>4. \A v \in Workers : v # w => stream[v].cancel # h
      BY <3>1 DEF Exclusive
    <3> QED
      BY <3>1, <3>3, <3>4
  <2>6. ASSUME NEW w \in Workers,
               \/ \E r \in {"data", "eof", "error"} : RecvReturns(w, r)
               \/ RecvTimesOut(w)
               \/ \E r \in {"sent", "error"} : SendReturns(w, r)
               \/ Aborted(w)
               \/ \E r \in {"ok", "error"} : ShutdownSend(w, r)
        PROVE  (LateIsLast /\ AtMostOneLateCall)'
    BY <2>6 DEF RecvReturns, RecvTimesOut, SendReturns, Aborted, ShutdownSend,
                Complete, Return
  <2>7. ASSUME NEW c \in Cancellers, CancelStep(c)
        PROVE  (LateIsLast /\ AtMostOneLateCall)'
    BY <2>7 DEF CancelStep, Cancel, CancelLock, CancelIo
  <2>8. CASE UNCHANGED vars
    BY <2>8 DEF vars
  <2> QED
    BY <2>1, <2>2, <2>3, <2>4, <2>5, <2>6, <2>7, <2>8
    DEF Next, CloseStep, IoStep
<1>3. QED
  BY <1>1, <1>2, Ownership, PTL DEF Spec

=============================================================================
