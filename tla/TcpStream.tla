----------------------------- MODULE TcpStream -----------------------------
(***************************************************************************)
(* The blocking life of a connection: class TcpStream (tcp_stream.cpp)     *)
(* together with the token that interrupts it, class CancelHandle over a   *)
(* shared CancelState (cancel.cpp), on top of the process's table of       *)
(* socket descriptors, which Windows recycles as soon as one is closed.    *)
(*                                                                         *)
(* A worker is a thread that owns one TcpStream object and replaces it by  *)
(* reconnecting (stream = TcpStream::connect(...)). A canceller is any     *)
(* other thread that calls CancelHandle::cancel().                         *)
(*                                                                         *)
(* How a candidate address wins inside connect() is module TcpConnect;     *)
(* here connect() starts, then fails, is cancelled or has a winner.        *)
(***************************************************************************)
EXTENDS Naturals

CONSTANTS
    Workers,       \* threads that own a stream
    Cancellers,    \* threads that call cancel()
    Handles,       \* CancelHandles, one shared CancelState each
    Descriptors,   \* SOCKET values the system can hand out
    NoThread, NoHandle, NoSocket,   \* nullptr and INVALID_SOCKET
    ReadTimeout,   \* TRUE when options.read_timeout > 0 (SO_RCVTIMEO is set)
    ReuseHandles,  \* TRUE when a caller may pass one handle to several connects
    BuildMayThrow  \* TRUE when building the stream may run out of memory

ASSUME TcpStreamAssumption ==
    /\ NoThread \notin Workers \cup Cancellers
    /\ Workers \cap Cancellers = {}
    /\ NoHandle \notin Handles
    /\ NoSocket \notin Descriptors
    /\ {ReadTimeout, ReuseHandles, BuildMayThrow} \subseteq BOOLEAN

VARIABLES
    requested,   \* CancelState::requested
    attached,    \* CancelState::socket
    mutex,       \* the canceller that holds CancelState::mutex across CancelIoEx
    owner,       \* the worker whose socket a descriptor currently is
    io,          \* the blocking call the kernel has pending on a descriptor
    stream,      \* the worker's TcpStream: its socket_ and cancel_
    fresh,       \* the socket and handle of the connect() in progress
    pc,          \* where each worker is
    outcome,     \* what the worker's last call returned
    cpc,         \* where each canceller is
    cancelling,  \* the handle a canceller is cancelling
    target,      \* the descriptor a canceller is about to pass to CancelIoEx
    used,        \* handles that were already passed to a connect
    late         \* blocking calls entered on a handle after it was cancelled

vars == <<requested, attached, mutex, owner, io, stream, fresh, pc, outcome,
          cpc, cancelling, target, used, late>>

kernelVars == <<owner, io>>
stateVars  == <<requested, attached, mutex>>
cancelVars == <<cpc, cancelling, target>>

Stream == [socket : Descriptors \cup {NoSocket}, cancel : Handles \cup {NoHandle}]

Empty == [socket |-> NoSocket, cancel |-> NoHandle]

Results == {"none", "connected", "data", "eof", "sent", "ok", "timeout",
            "error", "logic", "cancelled"}

\* The bound of `late`, which only has to tell one from more than one.
MostLate == 2

\* cancel_requested(): false on an inert handle.
CancelRequested(h) == h # NoHandle /\ requested[h]

Return(w, r) ==
    /\ pc' = [pc EXCEPT ![w] = "idle"]
    /\ outcome' = [outcome EXCEPT ![w] = r]

Goto(w, l) == pc' = [pc EXCEPT ![w] = l]

Init ==
    /\ requested = [h \in Handles |-> FALSE]
    /\ attached = [h \in Handles |-> NoSocket]
    /\ mutex = [h \in Handles |-> NoThread]
    /\ owner = [d \in Descriptors |-> NoThread]
    /\ io = [d \in Descriptors |-> "none"]
    /\ stream = [w \in Workers |-> Empty]
    /\ fresh = [w \in Workers |-> Empty]
    /\ pc = [w \in Workers |-> "idle"]
    /\ outcome = [w \in Workers |-> "none"]
    /\ cpc = [c \in Cancellers |-> "idle"]
    /\ cancelling = [c \in Cancellers |-> NoHandle]
    /\ target = [c \in Cancellers |-> NoSocket]
    /\ used = {}
    /\ late = [h \in Handles |-> 0]

-----------------------------------------------------------------------------
(* CancelHandle::cancel(), on any thread.                                  *)

\* The flag is published before the mutex is asked for.
Cancel(c, h) ==
    /\ cpc[c] = "idle"
    /\ requested' = [requested EXCEPT ![h] = TRUE]
    /\ cancelling' = [cancelling EXCEPT ![c] = h]
    /\ cpc' = [cpc EXCEPT ![c] = "flagged"]
    /\ UNCHANGED <<attached, mutex, kernelVars, stream, fresh, pc, outcome,
                   target, used, late>>

\* lock_guard, then the test of state_->socket; without a socket the guard is
\* released at once.
CancelLock(c) ==
    LET h == cancelling[c] IN
    /\ cpc[c] = "flagged"
    /\ mutex[h] = NoThread
    /\ IF attached[h] # NoSocket
         THEN /\ mutex' = [mutex EXCEPT ![h] = c]
              /\ target' = [target EXCEPT ![c] = attached[h]]
              /\ cpc' = [cpc EXCEPT ![c] = "locked"]
              /\ UNCHANGED cancelling
         ELSE /\ cpc' = [cpc EXCEPT ![c] = "idle"]
              /\ cancelling' = [cancelling EXCEPT ![c] = NoHandle]
              /\ UNCHANGED <<mutex, target>>
    /\ UNCHANGED <<requested, attached, kernelVars, stream, fresh, pc, outcome,
                   used, late>>

\* CancelIoEx aborts what is pending on the descriptor, whoever owns it by
\* now, and reports ERROR_NOT_FOUND when nothing is.
CancelIo(c) ==
    /\ cpc[c] = "locked"
    /\ io' = [io EXCEPT ![target[c]] = IF @ = "pending" THEN "aborted" ELSE @]
    /\ mutex' = [mutex EXCEPT ![cancelling[c]] = NoThread]
    /\ cpc' = [cpc EXCEPT ![c] = "idle"]
    /\ cancelling' = [cancelling EXCEPT ![c] = NoHandle]
    /\ target' = [target EXCEPT ![c] = NoSocket]
    /\ UNCHANGED <<requested, attached, owner, stream, fresh, pc, outcome,
                   used, late>>

-----------------------------------------------------------------------------
(* TcpStream::connect().                                                   *)

Connect(w, h) ==
    /\ pc[w] = "idle"
    /\ ReuseHandles \/ h \notin used
    /\ fresh' = [fresh EXCEPT ![w] = [socket |-> NoSocket, cancel |-> h]]
    /\ used' = used \cup {h}
    /\ Goto(w, "connecting")
    /\ UNCHANGED <<stateVars, kernelVars, stream, outcome, cancelVars, late>>

\* The loop sees the flag, or no candidate answers.
ConnectFails(w, r) ==
    /\ pc[w] = "connecting"
    /\ r = "cancelled" => CancelRequested(fresh[w].cancel)
    /\ fresh' = [fresh EXCEPT ![w] = Empty]
    /\ Return(w, r)
    /\ UNCHANGED <<stateVars, kernelVars, stream, cancelVars, used, late>>

\* A candidate's socket wins; the system may hand out any free descriptor.
ConnectWins(w, d) ==
    /\ pc[w] = "connecting"
    /\ owner[d] = NoThread
    /\ owner' = [owner EXCEPT ![d] = w]
    /\ fresh' = [fresh EXCEPT ![w].socket = d]
    /\ Goto(w, "won")
    /\ UNCHANGED <<stateVars, io, stream, outcome, cancelVars, used, late>>

\* restore_blocking failed: the Attempt is dropped without having been attached.
RestoreFails(w) ==
    /\ pc[w] = "won"
    /\ outcome' = [outcome EXCEPT ![w] = "error"]
    /\ Goto(w, "discard")
    /\ UNCHANGED <<stateVars, kernelVars, stream, fresh, cancelVars, used, late>>

\* attach_cancel_socket, under the mutex: refused once cancellation is asked.
Attach(w) ==
    LET h == fresh[w].cancel IN
    /\ pc[w] = "won"
    /\ mutex[h] = NoThread
    /\ IF requested[h]
         THEN /\ outcome' = [outcome EXCEPT ![w] = "cancelled"]
              /\ Goto(w, "discard")
              /\ UNCHANGED attached
         ELSE /\ attached' = [attached EXCEPT ![h] = fresh[w].socket]
              /\ Goto(w, "attached")
              /\ UNCHANGED outcome
    /\ UNCHANGED <<requested, mutex, kernelVars, stream, fresh, cancelVars,
                   used, late>>

\* TcpStream{std::move(winner.socket), handle, ...} is returned.
Build(w) ==
    /\ pc[w] = "attached"
    /\ outcome' = [outcome EXCEPT ![w] = "connected"]
    /\ Goto(w, "built")
    /\ UNCHANGED <<stateVars, kernelVars, stream, fresh, cancelVars, used, late>>

\* Describing the address or formatting the log fields runs out of memory
\* between the attach and the construction of the stream: the unwinding
\* destroys the Attempt, and nothing takes the descriptor back.
BuildThrows(w) ==
    /\ BuildMayThrow
    /\ pc[w] = "attached"
    /\ outcome' = [outcome EXCEPT ![w] = "error"]
    /\ Goto(w, "discard")
    /\ UNCHANGED <<stateVars, kernelVars, stream, fresh, cancelVars, used, late>>

CloseSocket(d) ==
    /\ owner' = [owner EXCEPT ![d] = NoThread]
    /\ io' = [io EXCEPT ![d] = "none"]

\* ~Attempt: SocketHandle closes the socket that did not become a stream.
Discard(w) ==
    /\ pc[w] = "discard"
    /\ CloseSocket(fresh[w].socket)
    /\ fresh' = [fresh EXCEPT ![w] = Empty]
    /\ Goto(w, "idle")
    /\ UNCHANGED <<stateVars, stream, outcome, cancelVars, used, late>>

-----------------------------------------------------------------------------
(* TcpStream::close() and operator=(TcpStream&&), which closes first.      *)

\* Mutant: the descriptor is taken without waiting for the mutex.
Take_Unlocked(w) ==
    LET h == stream[w].cancel IN
    /\ pc[w] \in {"idle", "built"}
    /\ attached' = IF h = NoHandle THEN attached
                                   ELSE [attached EXCEPT ![h] = NoSocket]
    /\ Goto(w, IF pc[w] = "built" THEN "assign_reset" ELSE "reset")
    /\ UNCHANGED <<requested, mutex, kernelVars, stream, fresh, outcome,
                   cancelVars, used, late>>

\* Mutant: close() goes straight to closesocket.
Take_Skipped(w) ==
    /\ pc[w] \in {"idle", "built"}
    /\ Goto(w, IF pc[w] = "built" THEN "assign_reset" ELSE "reset")
    /\ UNCHANGED <<stateVars, kernelVars, stream, fresh, outcome, cancelVars,
                   used, late>>

\* Mutant: operator= moves the handle before it closes, so that close() takes
\* the new connection's descriptor.
Take_AfterMove(w) ==
    LET h == IF pc[w] = "built" THEN fresh[w].cancel ELSE stream[w].cancel IN
    /\ pc[w] \in {"idle", "built"}
    /\ IF h = NoHandle
         THEN UNCHANGED attached
         ELSE /\ mutex[h] = NoThread
              /\ attached' = [attached EXCEPT ![h] = NoSocket]
    /\ Goto(w, IF pc[w] = "built" THEN "assign_reset" ELSE "reset")
    /\ UNCHANGED <<requested, mutex, kernelVars, stream, fresh, outcome,
                   cancelVars, used, late>>

\* take_cancel_socket, under the mutex. It clears whatever socket the handle
\* has, which is not compared with the stream's own.
Take(w) ==
    LET h == stream[w].cancel IN
    /\ pc[w] \in {"idle", "built"}
    /\ IF h = NoHandle
         THEN UNCHANGED attached
         ELSE /\ mutex[h] = NoThread
              /\ attached' = [attached EXCEPT ![h] = NoSocket]
    /\ Goto(w, IF pc[w] = "built" THEN "assign_reset" ELSE "reset")
    /\ UNCHANGED <<requested, mutex, kernelVars, stream, fresh, outcome,
                   cancelVars, used, late>>

\* Mutant: the socket is released instead of closed.
Reset_NoClose(w) ==
    /\ pc[w] \in {"reset", "assign_reset"}
    /\ stream' = [stream EXCEPT ![w].socket = NoSocket]
    /\ Goto(w, IF pc[w] = "reset" THEN "idle" ELSE "adopt")
    /\ UNCHANGED <<stateVars, kernelVars, fresh, outcome, cancelVars, used, late>>

\* socket_.reset(); cancel_ keeps its handle.
Reset(w) ==
    LET d == stream[w].socket IN
    /\ pc[w] \in {"reset", "assign_reset"}
    /\ IF d = NoSocket THEN UNCHANGED kernelVars ELSE CloseSocket(d)
    /\ stream' = [stream EXCEPT ![w].socket = NoSocket]
    /\ Goto(w, IF pc[w] = "reset" THEN "idle" ELSE "adopt")
    /\ UNCHANGED <<stateVars, fresh, outcome, cancelVars, used, late>>

\* The members move over and the source is left without socket and handle.
Adopt(w) ==
    /\ pc[w] = "adopt"
    /\ stream' = [stream EXCEPT ![w] = fresh[w]]
    /\ fresh' = [fresh EXCEPT ![w] = Empty]
    /\ Goto(w, "idle")
    /\ UNCHANGED <<stateVars, kernelVars, outcome, cancelVars, used, late>>

-----------------------------------------------------------------------------
(* read(), write_some() and shutdown_send().                               *)

\* Mutant: the flag is not looked at before the call.
CallChecks_NoFlag(w, call) ==
    /\ pc[w] = "idle"
    /\ IF stream[w].socket = NoSocket THEN Return(w, "logic")
                                      ELSE Goto(w, call) /\ UNCHANGED outcome
    /\ UNCHANGED <<stateVars, kernelVars, stream, fresh, cancelVars, used, late>>

\* The checks ahead of recv or send, up to and including the flag.
CallChecks(w, call) ==
    /\ pc[w] = "idle"
    /\ IF stream[w].socket = NoSocket THEN Return(w, "logic")
       ELSE IF CancelRequested(stream[w].cancel) THEN Return(w, "cancelled")
       ELSE Goto(w, call) /\ UNCHANGED outcome
    /\ UNCHANGED <<stateVars, kernelVars, stream, fresh, cancelVars, used, late>>

ReadChecks(w)  == CallChecks(w, "enter_recv")
WriteChecks(w) == CallChecks(w, "enter_send")

\* The thread enters the blocking call.
Enter(w) ==
    LET h == stream[w].cancel IN
    /\ pc[w] \in {"enter_recv", "enter_send"}
    /\ io' = [io EXCEPT ![stream[w].socket] = "pending"]
    /\ Goto(w, IF pc[w] = "enter_recv" THEN "recv" ELSE "send")
    /\ late' = [late EXCEPT ![h] = IF requested[h] /\ @ < MostLate THEN @ + 1
                                   ELSE @]
    /\ UNCHANGED <<stateVars, owner, stream, fresh, outcome, cancelVars, used>>

\* Mutant: the code of the failed call is reported as it is.
Classify_Raw(w, r) == r

\* An error is reported as a cancellation when one was requested, and when
\* its code says that the call was aborted.
Classify(w, r) ==
    IF CancelRequested(stream[w].cancel) \/ r = "aborted" THEN "cancelled" ELSE r

Complete(w, r) ==
    /\ io' = [io EXCEPT ![stream[w].socket] = "none"]
    /\ Return(w, r)
    /\ UNCHANGED <<stateVars, owner, stream, fresh, cancelVars, used, late>>

\* The peer sends, closes or resets the connection.
RecvReturns(w, r) ==
    /\ pc[w] = "recv"
    /\ io[stream[w].socket] = "pending"
    /\ Complete(w, IF r = "error" THEN Classify(w, r) ELSE r)

\* SO_RCVTIMEO expires.
RecvTimesOut(w) ==
    /\ ReadTimeout
    /\ pc[w] = "recv"
    /\ io[stream[w].socket] = "pending"
    /\ Complete(w, Classify(w, "timeout"))

\* The peer makes room or resets the connection. No timeout bounds a send.
SendReturns(w, r) ==
    /\ pc[w] = "send"
    /\ io[stream[w].socket] = "pending"
    /\ Complete(w, IF r = "error" THEN Classify(w, r) ELSE r)

\* A call that CancelIoEx aborted fails with WSAEINTR or WSA_OPERATION_ABORTED.
Aborted(w) ==
    /\ pc[w] \in {"recv", "send"}
    /\ io[stream[w].socket] = "aborted"
    /\ Complete(w, Classify(w, "aborted"))

\* Does not block. WSAENOTCONN, a peer that closed first, counts as success.
ShutdownSend(w, r) ==
    /\ pc[w] = "idle"
    /\ Return(w, IF stream[w].socket = NoSocket THEN "logic" ELSE r)
    /\ UNCHANGED <<stateVars, kernelVars, stream, fresh, cancelVars, used, late>>

-----------------------------------------------------------------------------

ConnectStep(w) ==
    \/ \E h \in Handles : Connect(w, h)
    \/ \E r \in {"cancelled", "error"} : ConnectFails(w, r)
    \/ \E d \in Descriptors : ConnectWins(w, d)
    \/ RestoreFails(w)
    \/ Attach(w)
    \/ Build(w)
    \/ BuildThrows(w)
    \/ Discard(w)

CloseStep(w) == Take(w) \/ Reset(w) \/ Adopt(w)

IoStep(w) ==
    \/ ReadChecks(w)
    \/ WriteChecks(w)
    \/ Enter(w)
    \/ \E r \in {"data", "eof", "error"} : RecvReturns(w, r)
    \/ RecvTimesOut(w)
    \/ \E r \in {"sent", "error"} : SendReturns(w, r)
    \/ Aborted(w)
    \/ \E r \in {"ok", "error"} : ShutdownSend(w, r)

CancelStep(c) ==
    \/ \E h \in Handles : Cancel(c, h)
    \/ CancelLock(c)
    \/ CancelIo(c)

Next ==
    \/ \E w \in Workers : ConnectStep(w) \/ CloseStep(w) \/ IoStep(w)
    \/ \E c \in Cancellers : CancelStep(c)

Spec == Init /\ [][Next]_vars

\* A thread that is inside a call keeps running, the kernel completes what was
\* aborted, and SO_RCVTIMEO expires when it is set. Nothing is assumed of the
\* peer, nor of how often anybody calls anything.
Fairness ==
    /\ \A w \in Workers :
          /\ WF_vars(Enter(w))
          /\ WF_vars(Aborted(w))
          /\ WF_vars(RecvTimesOut(w))
    /\ \A c \in Cancellers : WF_vars(CancelLock(c)) /\ WF_vars(CancelIo(c))

FairSpec == Spec /\ Fairness
-----------------------------------------------------------------------------
(* What the mutex, the flag and the ownership of descriptors promise.      *)

PCs == {"idle", "connecting", "won", "attached", "built", "discard", "reset",
        "assign_reset", "adopt", "enter_recv", "recv", "enter_send", "send"}

\* Every variable has its type.
TypeOK ==
    /\ requested \in [Handles -> BOOLEAN]
    /\ attached \in [Handles -> Descriptors \cup {NoSocket}]
    /\ mutex \in [Handles -> Cancellers \cup {NoThread}]
    /\ owner \in [Descriptors -> Workers \cup {NoThread}]
    /\ io \in [Descriptors -> {"none", "pending", "aborted"}]
    /\ stream \in [Workers -> Stream]
    /\ fresh \in [Workers -> Stream]
    /\ pc \in [Workers -> PCs]
    /\ outcome \in [Workers -> Results]
    /\ cpc \in [Cancellers -> {"idle", "flagged", "locked"}]
    /\ cancelling \in [Cancellers -> Handles \cup {NoHandle}]
    /\ target \in [Cancellers -> Descriptors \cup {NoSocket}]
    /\ used \subseteq Handles
    /\ late \in [Handles -> 0..MostLate]

\* Worker w holds descriptor d through a stream or a winner bound to handle h.
Holds(w, d, h) ==
    \/ stream[w] = [socket |-> d, cancel |-> h]
    \/ fresh[w] = [socket |-> d, cancel |-> h]

\* CancelIoEx is only ever about to be issued on an open descriptor of the
\* connection that is being cancelled: never on one its owner closed, nor on
\* one the system has meanwhile handed to another stream (cancel.h:39-43).
CancelReachesOwnSocket ==
    \A c \in Cancellers : cpc[c] = "locked" =>
        \E w \in Workers : /\ owner[target[c]] = w
                           /\ Holds(w, target[c], cancelling[c])

\* A blocking call reports a cancellation only when its own handle was
\* cancelled: no stream is hit by the cancellation of another one.
NoSpuriousCancel ==
    [][\A w \in Workers :
          (pc[w] \in {"recv", "send"} /\ pc'[w] = "idle"
             /\ outcome'[w] = "cancelled") => requested[stream[w].cancel]]_vars

\* Each open descriptor has exactly one place that will close it, and each
\* place that would close a descriptor holds one that is open and its own: no
\* leak and no double close, on any path out of connect() or operator=.
DescriptorsAccounted ==
    /\ \A d \in Descriptors, w \in Workers :
          owner[d] = w <=> d \in {stream[w].socket, fresh[w].socket}
    /\ \A w \in Workers : stream[w].socket = fresh[w].socket =>
                             stream[w].socket = NoSocket

\* An open stream that is not being closed can be reached through its handle.
Interruptible ==
    \A w \in Workers :
        stream[w].socket # NoSocket /\ pc[w] \notin {"reset", "assign_reset"} =>
            attached[stream[w].cancel] = stream[w].socket

\* The known race of cancel.h:48-54 costs at most one call: after the flag is
\* set, no more than one blocking call is entered on the connection.
AtMostOneLateCall == \A h \in Handles : late[h] <= 1

\* Once a handle is cancelled its worker sooner or later stops being inside a
\* read for good: the call that slipped past the flag ends, and no later one
\* begins.
CancelEndsReading ==
    \A w \in Workers, h \in Handles :
        requested[h] ~> [](pc[w] = "recv" => stream[w].cancel # h)

\* cancel.h:75-79 and tcp_stream.h:31-33 say the same of a blocked write: a
\* cancel wakes it, and no thread blocks for ever when a cancel is missed.
CancelEndsWriting ==
    \A w \in Workers, h \in Handles :
        requested[h] ~> [](pc[w] = "send" => stream[w].cancel # h)
=============================================================================
