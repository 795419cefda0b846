----------------------------- MODULE Connection -----------------------------
(***************************************************************************)
(* One connection of a daemon, from connect() to its release:              *)
(* net/connection_impl.cc, net/connection.cc, net/event_loop_linux.cc and  *)
(* the handlers of the daemons; its peer is the client (client/clang.cc).  *)
(*                                                                         *)
(* The I/O workers share one epoll in which the connection is armed for    *)
(* one event at a time (EPOLLONESHOT).  An event is taken by one worker,   *)
(* looked at later, and may have become stale by then.  A connection lives *)
(* as long as somebody refers to it: a callback bound to it, a task, or a  *)
(* worker that has begun to handle its event; then its destructor closes   *)
(* it, so the peer reads the end of the stream.  Messages are sent and     *)
(* read whole: a part of one stands for a peer that left while sending.    *)
(***************************************************************************)
EXTENDS Naturals, Sequences

CONSTANTS Worker,      \* "Network IO Worker" threads
          Handlers,    \* what HandleNewMessage() may do, see Handle
          Commands     \* how many commands the client sends

ASSUME ConnectionAssumption ==
  /\ Handlers \subseteq {"queue", "async", "sync", "reject", "overload"}
  /\ Commands \in Nat \ {0}

VARIABLES
  armed,      \* the event the epoll waits for; "accept" before there is a connection
  closed,     \* is_closed_
  callbacks,  \* read_callback_ and send_callback_: null, set or empty
  message,    \* message_
  io,         \* where every worker is, and the event it took
  task,       \* the daemon has a task with this connection
  toServer,   \* the two directions of the stream
  toClient,
  shut,       \* shutdown() was called
  peer,       \* the client
  excused     \* why the client may be told nothing

vars == <<armed, closed, callbacks, message, io, task, toServer, toClient,
          shut, peer, excused>>

object == <<armed, closed, callbacks, message>>
stream == <<toServer, toClient, shut>>

Holds(w) == io[w].pc \in {"read", "handle", "send", "close", "shutdown"}

\* Somebody refers to the connection; the backlog of the listening socket does so
\* until it is accepted.
Referenced ==
  \/ armed = "accept"
  \/ "set" \in {callbacks.read, callbacks.send}
  \/ task
  \/ \E w \in Worker : Holds(w)

\* The peer reads the end of the stream after what was sent.
Down == shut \/ ~Referenced

Init ==
  /\ armed = "none" /\ closed = FALSE
  /\ callbacks = [read |-> "null", send |-> "null"] /\ message = "none"
  /\ io = [w \in Worker |-> [pc |-> "wait", flags |-> {}, result |-> FALSE]]
  /\ task = FALSE
  /\ toServer = <<>> /\ toClient = <<>> /\ shut = FALSE
  /\ peer = [pc |-> "connect", done |-> 0, open |-> TRUE]
  /\ excused = {}

-----------------------------------------------------------------------------
(* The client: DoMain() connects, sends a command, reads the answer, and   *)
(* goes on.                                                                *)

PeerLeaves(pc) == [peer EXCEPT !.pc = pc, !.open = FALSE]

\* Connect(): the connection waits in the backlog of the daemon.
PeerConnects ==
  /\ peer.pc = "connect"
  /\ peer' = [peer EXCEPT !.pc = "send"]
  /\ armed' = "accept"
  /\ UNCHANGED <<closed, callbacks, message, io, task, stream, excused>>

\* StartConnecting() fails: the daemon never gets to know.
PeerConnectFails ==
  /\ peer.pc = "connect"
  /\ peer' = PeerLeaves("failed")
  /\ excused' = excused \cup {"left"}
  /\ UNCHANGED <<object, io, task, stream>>

\* WaitForConnection() gives up: the daemon may still accept the connection.
PeerConnectTimesOut ==
  /\ peer.pc = "connect"
  /\ peer' = PeerLeaves("failed")
  /\ armed' \in {"none", "accept"}
  /\ excused' = excused \cup {"left"}
  /\ UNCHANGED <<closed, callbacks, message, io, task, stream>>

PeerSends ==
  /\ peer.pc = "send"
  /\ \/ /\ ~Down
        /\ toServer' = Append(toServer, "request")
        /\ peer' = [peer EXCEPT !.pc = "read"]
     \/ /\ Down
        /\ peer' = PeerLeaves("failed")
        /\ UNCHANGED toServer
  /\ UNCHANGED <<object, io, task, toClient, shut, excused>>

\* It is interrupted before it sent anything, or within the message.
PeerInterrupted ==
  /\ peer.pc = "send" /\ ~Down
  /\ \E part \in {<<>>, <<"part">>} : toServer' = toServer \o part
  /\ peer' = PeerLeaves("failed")
  /\ excused' = excused \cup {"left"}
  /\ UNCHANGED <<object, io, task, toClient, shut>>

PeerReads ==
  /\ peer.pc = "read" /\ toClient # <<>>
  /\ toClient' = Tail(toClient)
  /\ peer' = CASE Head(toClient) = "status" -> PeerLeaves("refused")
               [] peer.done + 1 = Commands  -> [PeerLeaves("done") EXCEPT !.done = @ + 1]
               [] OTHER -> [peer EXCEPT !.pc = "send", !.done = @ + 1]
  /\ UNCHANGED <<object, io, task, toServer, shut, excused>>

PeerReadsEnd ==
  /\ peer.pc = "read" /\ toClient = <<>> /\ Down
  /\ peer' = PeerLeaves("failed")
  /\ UNCHANGED <<object, io, task, stream, excused>>

PeerTimesOut ==
  /\ peer.pc = "read" /\ toClient = <<>>
  /\ peer' = PeerLeaves("failed")
  /\ excused' = excused \cup {"left"}
  /\ UNCHANGED <<object, io, task, stream>>

-----------------------------------------------------------------------------
(* ConnectionImpl.                                                         *)

\* ReadyFor(): arms the only event of the connection, whatever it was.
ReadyFor(events) == armed' = events

\* A plausible mistake: the event is not armed.
SendAsyncUnarmed(msg) ==
  /\ message' = msg
  /\ callbacks' = [callbacks EXCEPT !.send = "set"]
  /\ UNCHANGED <<armed, closed>>

\* SendAsyncImpl() after SendAsync() or ReportStatus() set the message.
SendAsync(msg) ==
  /\ message' = msg
  /\ callbacks' = [callbacks EXCEPT !.send = "set"]
  /\ ReadyFor("out")
  /\ UNCHANGED closed

\* ReadAsync(): the callback is bound before the event is armed.
ReadAsync ==
  /\ callbacks' = [callbacks EXCEPT !.read = "set"]
  /\ ReadyFor("in")

\* HandleNewConnection() of the service and of the daemon: a connection whose
\* timeouts can't be set is dropped.
HandleNewConnection ==
  \/ ReadAsync /\ UNCHANGED excused
  \/ /\ armed' = "none"
     /\ excused' = excused \cup {"broken"}
     /\ UNCHANGED callbacks

\* DoListenWork(), the thread that listens.
Accept ==
  /\ armed = "accept"
  /\ HandleNewConnection
  /\ UNCHANGED <<closed, message, io, task, stream, peer>>

Goto(w, pc) == io' = [io EXCEPT ![w].pc = pc]

\* epoll_wait(): hang-ups and errors are always reported.  A peer that left is a
\* hang-up on a UNIX socket, and may be only the end of the stream on others.
Take(w) ==
  /\ io[w].pc = "wait"
  /\ armed \in {"in", "out"} /\ Referenced
  /\ \E hup \in {{}, {"HUP"}}, err \in {{}, {"ERR"}} :
       LET flags == (IF armed = "in" /\ (toServer # <<>> \/ ~peer.open) THEN {"IN"} ELSE {})
                      \cup (IF armed = "out" THEN {"OUT"} ELSE {}) \cup hup \cup err
       IN  /\ peer.open /\ ~shut => hup = {} /\ err = {}
           /\ shut => hup # {}
           /\ flags # {}
           /\ io' = [io EXCEPT ![w].pc = "event", ![w].flags = flags]
  /\ armed' = "none"
  /\ UNCHANGED <<closed, callbacks, message, task, stream, peer, excused>>

\* DoIOWork(): the worker begins to refer to the connection, and the socket is
\* asked again how much there is to read.  A connection that was released since
\* the event was taken is undefined behaviour: here it is seen as it was left.
Dispatch(w) ==
  /\ io[w].pc = "event"
  /\ LET flags == io[w].flags
     IN  Goto(w, CASE "ERR" \in flags \/ ("HUP" \in flags /\ toServer = <<>>) -> "close"
                   [] "IN" \in flags -> "read"
                   [] OTHER -> "send")
  /\ UNCHANGED <<object, task, stream, peer, excused>>

\* ReadSync(): a message is there and is whole.
ReadSync == ~closed /\ toServer # <<>> /\ Head(toServer) = "request"

\* SendSync(): nothing is sent once the connection is closed.
SendSync(msg) ==
  toClient' = IF closed \/ shut THEN toClient ELSE Append(toClient, msg)

\* DoRead() up to the call of the callback.
DoRead(w) ==
  /\ io[w].pc = "read"
  /\ io' = [io EXCEPT ![w].pc = "handle", ![w].result = ReadSync]
  /\ toServer' = IF closed \/ toServer = <<>> THEN toServer ELSE Tail(toServer)
  /\ excused' = IF ReadSync THEN excused ELSE excused \cup {"broken"}
  /\ callbacks' = [callbacks EXCEPT !.read = "null"]
  /\ message' = "none"
  /\ UNCHANGED <<armed, closed, task, toClient, shut, peer>>

\* The callback got a status: it is reported, and the connection is closed.
HandleFailure(w) ==
  /\ io[w].pc = "handle" /\ ~io[w].result
  /\ SendAsync("status")
  /\ Goto(w, "close")
  /\ UNCHANGED <<task, stream, peer, excused>>

\* The compilation daemons put a task into a queue.
HandleQueue(w) ==
  /\ io[w].pc = "handle" /\ io[w].result /\ "queue" \in Handlers
  /\ task' = TRUE
  /\ Goto(w, "wait")
  /\ UNCHANGED <<object, stream, peer, excused>>

\* A plausible mistake: the handler of the coordinator returns false.
HandleAsyncCloses(w) ==
  /\ io[w].pc = "handle" /\ io[w].result /\ "async" \in Handlers
  /\ SendAsync("answer")
  /\ Goto(w, "close")
  /\ UNCHANGED <<task, stream, peer, excused>>

\* The coordinator answers itself.
HandleAsync(w) ==
  /\ io[w].pc = "handle" /\ io[w].result /\ "async" \in Handlers
  /\ SendAsync("answer")
  /\ Goto(w, "wait")
  /\ UNCHANGED <<task, stream, peer, excused>>

\* So does the collector, with SendSync().
HandleSync(w) ==
  /\ io[w].pc = "handle" /\ io[w].result /\ "sync" \in Handlers
  /\ SendSync("answer")
  /\ message' = "answer"
  /\ Goto(w, "wait")
  /\ UNCHANGED <<armed, closed, callbacks, task, toServer, shut, peer, excused>>

\* A queue is closed: Push() returns false.
HandleReject(w) ==
  /\ io[w].pc = "handle" /\ io[w].result /\ "reject" \in Handlers
  /\ excused' = excused \cup {"stopping"}
  /\ Goto(w, "close")
  /\ UNCHANGED <<object, task, stream, peer>>

\* The queue of the absorber is full: ReportStatus(overload); return false.  The
\* status is sent by whoever takes the event, unless this worker closes first.
HandleOverload(w) ==
  /\ io[w].pc = "handle" /\ io[w].result /\ "overload" \in Handlers
  /\ SendAsync("status")
  /\ excused' = excused \cup {"overload"}
  /\ Goto(w, "close")
  /\ UNCHANGED <<task, stream, peer>>

\* A worker of the daemon pops the task: IsClosed() is checked, then it answers.
Answer ==
  /\ task
  /\ task' = FALSE
  /\ IF closed THEN UNCHANGED object
               ELSE \E msg \in {"answer", "status"} : SendAsync(msg)
  /\ UNCHANGED <<io, stream, peer, excused>>

\* DoSend(): the message, and the callback CloseAfterSend(), which returns false.
DoSend(w) ==
  /\ io[w].pc = "send"
  /\ SendSync(message)
  /\ callbacks' = [callbacks EXCEPT !.send = "empty"]
  /\ message' = "none"
  /\ Goto(w, "close")
  /\ UNCHANGED <<armed, closed, task, toServer, shut, peer, excused>>

\* It times out, as the peer doesn't read, or a peer that left resets the stream.
DoSendFails(w) ==
  /\ io[w].pc = "send" /\ ~peer.open
  /\ callbacks' = [callbacks EXCEPT !.send = "empty"]
  /\ message' = "none"
  /\ Goto(w, "close")
  /\ UNCHANGED <<armed, closed, task, stream, peer, excused>>

\* A plausible mistake: Close() leaves the callbacks alone.
CloseKeepsCallbacks(w) ==
  /\ io[w].pc = "close"
  /\ closed' = TRUE
  /\ Goto(w, IF closed THEN "wait" ELSE "shutdown")
  /\ UNCHANGED <<armed, callbacks, message, task, stream, peer, excused>>

\* Close(): the first caller resets the callbacks, and shuts the socket down.
Close(w) ==
  /\ io[w].pc = "close"
  /\ IF closed
     THEN Goto(w, "wait") /\ UNCHANGED <<closed, callbacks>>
     ELSE /\ closed' = TRUE
          /\ callbacks' = [read |-> "empty", send |-> "empty"]
          /\ Goto(w, "shutdown")
  /\ UNCHANGED <<armed, message, task, stream, peer, excused>>

Shutdown(w) ==
  /\ io[w].pc = "shutdown"
  /\ shut' = TRUE /\ toServer' = <<>>
  /\ Goto(w, "wait")
  /\ UNCHANGED <<object, task, toClient, peer, excused>>

-----------------------------------------------------------------------------
Peer == PeerConnects \/ PeerSends \/ PeerReads \/ PeerReadsEnd

Work(w) ==
  \/ Take(w) \/ Dispatch(w) \/ DoRead(w)
  \/ HandleFailure(w) \/ HandleQueue(w) \/ HandleAsync(w) \/ HandleSync(w)
  \/ HandleReject(w) \/ HandleOverload(w)
  \/ DoSend(w) \/ DoSendFails(w) \/ Close(w) \/ Shutdown(w)

Next == Accept \/ Peer \/ PeerConnectFails \/ PeerConnectTimesOut
        \/ PeerInterrupted \/ PeerTimesOut \/ Answer \/ \E w \in Worker : Work(w)

\* Threads run on; the daemon answers its tasks (see Emitter and Absorber).
Fairness ==
  /\ WF_vars(Accept) /\ WF_vars(Peer) /\ WF_vars(Answer)
  /\ WF_vars(\E w \in Worker : Take(w))
  /\ \A w \in Worker : WF_vars(Work(w) /\ io[w].pc # "wait")

Spec == Init /\ [][Next]_vars /\ Fairness

-----------------------------------------------------------------------------
(* Properties.                                                             *)

\* The types of the connection, its streams and the threads.
TypeOK ==
  /\ armed \in {"none", "accept", "in", "out"} /\ closed \in BOOLEAN /\ shut \in BOOLEAN
  /\ callbacks \in [{"read", "send"} -> {"null", "set", "empty"}]
  /\ message \in {"none", "answer", "status"}
  /\ peer.pc \in {"connect", "send", "read", "done", "refused", "failed"}

\* A client that is told nothing about its first command has left by itself, has
\* sent a broken message, or was turned away by a daemon that stops or is full:
\* closing a connection never overtakes the answer that was given to SendAsync().
AnswerDelivered ==
  peer.pc = "failed" /\ peer.done = 0 => excused # {}

\* The client is never left waiting, however its commands and the end of the
\* connection meet.
ClientReturns == <>(peer.pc \in {"done", "refused", "failed"})

\* Every connection is released in the end, whatever its peer does: neither a
\* callback that nobody will call nor a lost event keeps its descriptor.
ConnectionReleased == <>[]~Referenced
=============================================================================
