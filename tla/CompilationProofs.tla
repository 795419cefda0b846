-------------------------- MODULE CompilationProofs -------------------------
(***************************************************************************)
(* What a compilation goes through: the connection of its client, the      *)
(* caches, and the compiler as a child process.                            *)
(*                                                                         *)
(* Closing a connection never overtakes the answer to the first command,   *)
(* for any number of I/O workers, commands and handlers.  The argument is  *)
(* a chain: as long as there is no excuse and no answer, exactly one thing *)
(* is to come next, a single thread does it, and the connection is open    *)
(* and referred to (Chain).  At its end the answer is in the stream before *)
(* anybody closes the connection (Told).                                   *)
(*                                                                         *)
(* Run() loses nothing of what a child writes, and closes its input when   *)
(* it is sent, for every output and size of a pipe.  What is in a pipe is  *)
(* what one side wrote and the other has not read (StreamInv); an event    *)
(* without EPOLLIN stays true until it is handled, because a pipe whose    *)
(* other end is closed and that is empty stays so (Drained, EventInv); so  *)
(* a descriptor is given up when nothing can come from it, and the loop    *)
(* ends when all are (LoopInv).                                            *)
(*                                                                         *)
(* Proofs about CompilationCache for any number of jobs and versions: what *)
(* the caches restore is fresh, if the headers can be hashed and files do  *)
(* not change under a running job.                                         *)
(*                                                                         *)
(* The argument: a handled hash tells which headers were read, as the      *)
(* version of h1 decides whether h2 is included.  So a list of headers     *)
(* that leads to the hash of some preprocessed source, with the files as   *)
(* they are now, leads to the hash of this source.                         *)
(***************************************************************************)
EXTENDS Connection, CompilationCache, Process, TLAPS

-----------------------------------------------------------------------------
(* Connections.                                                            *)


Messages == {"none", "answer", "status"}
IOPcs == {"wait", "event", "read", "handle", "send", "close", "shutdown"}

Threads == [pc : IOPcs, flags : SUBSET {"IN", "OUT", "HUP", "ERR"}, result : BOOLEAN]
Clients == [pc : {"connect", "send", "read", "done", "refused", "failed"},
            done : Nat, open : BOOLEAN]
Callbacks == [read : {"null", "set", "empty"}, send : {"null", "set", "empty"}]

TypeInv ==
  /\ callbacks \in Callbacks /\ message \in Messages /\ toClient \in Seq(Messages)
  /\ io \in [Worker -> Threads] /\ peer \in Clients

Open == ~closed /\ ~shut /\ toClient = <<>> /\ peer.open
AllWait == \A w \in Worker : io[w].pc = "wait"
Alone(w, pc) == io[w].pc = pc /\ \A v \in Worker \ {w} : io[v].pc = "wait"

Asks == \/ peer.pc = "send" /\ toServer = <<>>
        \/ peer.pc = "read" /\ toServer = <<"request">>
Asked == peer.pc = "read" /\ toServer = <<"request">>
Waits == peer.pc = "read" /\ toServer = <<>>

\* The links of the chain.
Connecting == peer.pc = "connect" /\ toServer = <<>> /\ armed = "none" /\ ~task /\ AllWait
Listening == armed = "accept" /\ ~task /\ AllWait /\ Asks
Reading == armed = "in" /\ callbacks.read = "set" /\ ~task /\ AllWait /\ Asks
Readable(w) == /\ armed = "none" /\ callbacks.read = "set" /\ ~task /\ Asked
               /\ Alone(w, "event") /\ io[w].flags = {"IN"}
Reads(w) == armed = "none" /\ ~task /\ Asked /\ Alone(w, "read")
Handles(w) == armed = "none" /\ ~task /\ Waits /\ Alone(w, "handle") /\ io[w].result
Queued == armed = "none" /\ task /\ Waits /\ AllWait
Sending == armed = "out" /\ callbacks.send = "set" /\ ~task /\ Waits /\ AllWait
Writable(w) == /\ armed = "none" /\ callbacks.send = "set" /\ ~task /\ Waits
               /\ Alone(w, "event") /\ io[w].flags = {"OUT"}
Sends(w) == armed = "none" /\ ~task /\ Waits /\ Alone(w, "send")

OneWorker(w) == Readable(w) \/ Reads(w) \/ Handles(w) \/ Writable(w) \/ Sends(w)

Chain ==
  Open /\ \/ Connecting \/ Listening \/ Reading \/ Queued \/ Sending
          \/ \E w \in Worker : OneWorker(w)

\* The answer waits for the client, or it was read, or there is an excuse.
Told == peer.pc = "read" /\ toClient # <<>>
Over == excused # {} \/ peer.done # 0 \/ peer.pc \in {"done", "refused"}

IInv == TypeInv /\ (Chain \/ Told \/ Over)
-----------------------------------------------------------------------------
\* The chain begins with a client that connects.
LEMMA InitIInv == Init => IInv
  BY DEF Init, IInv, TypeInv, Messages, IOPcs, Threads, Clients, Callbacks, Chain, Open,
         Connecting, AllWait

\* What the client may become.
LEMMA ClientTypes ==
  ASSUME peer \in Clients
  PROVE  /\ \A pc \in {"failed", "refused", "done"} :
              PeerLeaves(pc) \in Clients /\ PeerLeaves(pc).pc = pc /\ PeerLeaves(pc).done = peer.done
         /\ [PeerLeaves("done") EXCEPT !.done = @ + 1] \in Clients
         /\ [PeerLeaves("done") EXCEPT !.done = @ + 1].pc = "done"
         /\ \A pc \in {"send", "read"} : [peer EXCEPT !.pc = pc] \in Clients
         /\ [peer EXCEPT !.pc = "send", !.done = @ + 1] \in Clients
         /\ [peer EXCEPT !.pc = "send", !.done = @ + 1].done = peer.done + 1
<1>1. \A pc \in {"failed", "refused", "done"} :
        PeerLeaves(pc) \in Clients /\ PeerLeaves(pc).pc = pc /\ PeerLeaves(pc).done = peer.done
  BY Zenon DEF PeerLeaves, Clients
<1>2. \A p \in Clients : /\ [p EXCEPT !.done = @ + 1] \in Clients
                         /\ [p EXCEPT !.done = @ + 1].pc = p.pc
  BY DEF Clients
<1>3. PeerLeaves("done") \in Clients /\ PeerLeaves("done").pc = "done"
  BY <1>1, Zenon
<1>4. \A pc \in {"send", "read"} : [peer EXCEPT !.pc = pc] \in Clients
  BY Zenon DEF Clients
<1>5. /\ [peer EXCEPT !.pc = "send", !.done = @ + 1] \in Clients
      /\ [peer EXCEPT !.pc = "send", !.done = @ + 1].done = peer.done + 1
  <2>1. [peer EXCEPT !.pc = "send", !.done = @ + 1]
          = [[peer EXCEPT !.pc = "send"] EXCEPT !.done = peer.done + 1]
    BY Zenon DEF Clients
  <2>2. [peer EXCEPT !.pc = "send"] \in Clients /\ peer.done + 1 \in Nat
    BY DEF Clients
  <2>3. \A p \in Clients, n \in Nat :
          [p EXCEPT !.done = n] \in Clients /\ [p EXCEPT !.done = n].done = n
    BY Zenon DEF Clients
  <2> QED  BY <2>1, <2>2, <2>3, Zenon
<1> QED  BY <1>1, <1>2, <1>3, <1>4, <1>5, Zenon

ClientStep ==
  \/ PeerConnects \/ PeerSends \/ PeerReads \/ PeerReadsEnd
  \/ PeerConnectFails \/ PeerConnectTimesOut \/ PeerInterrupted \/ PeerTimesOut

\* A step of the client keeps the types; it reads what it was told, and nothing is
\* forgotten.
LEMMA ClientKeeps ==
  ASSUME TypeInv, ClientStep
  PROVE  TypeInv' /\ (Told \/ Over => Told' \/ Over')
<1>0. peer \in Clients /\ toClient \in Seq(Messages)
  BY Zenon DEF TypeInv
<1>1. CASE PeerReads
  <2>1. \/ peer' = PeerLeaves("refused")
        \/ peer' = [PeerLeaves("done") EXCEPT !.done = @ + 1]
        \/ peer' = [peer EXCEPT !.pc = "send", !.done = @ + 1]
    BY <1>1 DEF PeerReads
  <2>2. /\ toClient # <<>> /\ toClient' = Tail(toClient)
        /\ UNCHANGED <<callbacks, message, io, excused>>
    BY <1>1, Zenon DEF PeerReads, object
  <2>3. peer' \in Clients /\ (peer'.pc \in {"refused", "done"} \/ peer'.done = peer.done + 1)
    BY <1>0, <2>1, ClientTypes, Zenon
  <2>4. peer.done \in Nat
    BY <1>0, Zenon DEF Clients
  <2>5. toClient' \in Seq(Messages)
    BY <1>0, <2>2
  <2> QED  BY <2>2, <2>3, <2>4, <2>5 DEF TypeInv, Over
<1>2. CASE ~PeerReads
  <2>1. /\ UNCHANGED <<callbacks, message, io, toClient>>
        /\ excused' = excused \/ excused' # {}
        /\ peer.pc \in {"connect", "send", "read"}
        /\ peer.pc = "read" => toClient = <<>>
        /\ \/ peer' = PeerLeaves("failed")
           \/ \E pc \in {"send", "read"} : peer' = [peer EXCEPT !.pc = pc]
    BY <1>2, Zenon DEF ClientStep, PeerConnects, PeerSends, PeerReadsEnd, PeerConnectFails,
         PeerConnectTimesOut, PeerInterrupted, PeerTimesOut, object, stream
  <2>2. peer' \in Clients
    BY <1>0, <2>1, ClientTypes, Zenon
  <2>3. peer'.done = peer.done
    BY <1>0, <2>1, ClientTypes, Zenon DEF Clients
  <2> QED  BY <2>1, <2>2, <2>3, Zenon DEF TypeInv, Told, Over
<1> QED  BY <1>1, <1>2, Zenon

\* A step of an I/O worker concerns that worker only.
LEMMA WorkerTypes ==
  ASSUME TypeInv, NEW w \in Worker, Work(w)
  PROVE  io' \in [Worker -> Threads] /\ \A v \in Worker \ {w} : io'[v] = io[v]
<1>1. ASSUME NEW pc \in IOPcs, Goto(w, pc)
      PROVE  io' \in [Worker -> Threads] /\ \A v \in Worker \ {w} : io'[v] = io[v]
  BY <1>1, Zenon DEF Goto, TypeInv, Threads
<1>2. CASE Take(w)
  <2>1. PICK flags \in SUBSET {"IN", "OUT", "HUP", "ERR"} :
          io' = [io EXCEPT ![w].pc = "event", ![w].flags = flags]
    BY <1>2, Zenon DEF Take
  <2>2. \A r \in Threads : [r EXCEPT !.pc = "event", !.flags = flags] \in Threads
    BY Zenon DEF Threads, IOPcs
  <2> QED  BY <2>1, <2>2, Zenon DEF TypeInv
<1>3. CASE Dispatch(w)
  <2>1. \E pc \in {"close", "read", "send"} : Goto(w, pc)
    BY <1>3, Zenon DEF Dispatch
  <2> QED  BY <1>1, <2>1, Zenon DEF IOPcs
<1>4. CASE DoRead(w)
  <2>1. PICK r \in BOOLEAN : io' = [io EXCEPT ![w].pc = "handle", ![w].result = r]
    BY <1>4, Zenon DEF DoRead, ReadSync
  <2>2. \A t \in Threads : [t EXCEPT !.pc = "handle", !.result = r] \in Threads
    BY Zenon DEF Threads, IOPcs
  <2> QED  BY <2>1, <2>2, Zenon DEF TypeInv
<1>5. CASE \/ HandleFailure(w) \/ HandleQueue(w) \/ HandleAsync(w) \/ HandleSync(w)
           \/ HandleReject(w) \/ HandleOverload(w) \/ DoSend(w) \/ DoSendFails(w)
           \/ Close(w) \/ Shutdown(w)
  <2>1. \E pc \in {"close", "wait", "shutdown"} : Goto(w, pc)
    BY <1>5, Zenon DEF HandleFailure, HandleQueue, HandleAsync, HandleSync, HandleReject,
                HandleOverload, DoSend, DoSendFails, Close, Shutdown
  <2> QED  BY <1>1, <2>1, Zenon DEF IOPcs
<1> QED  BY <1>2, <1>3, <1>4, <1>5, Zenon DEF Work

\* A step of the daemon keeps the types and what the client was told.
LEMMA DaemonKeeps ==
  ASSUME TypeInv, Accept \/ Answer \/ \E w \in Worker : Work(w)
  PROVE  TypeInv' /\ (Told \/ Over => Told' \/ Over')
<1>1. /\ io' \in [Worker -> Threads] /\ UNCHANGED peer
      /\ excused' = excused \/ excused' # {}
  <2>1. CASE Accept \/ Answer
    BY <2>1, Zenon DEF Accept, Answer, HandleNewConnection, TypeInv
  <2>2. ASSUME NEW w \in Worker, Work(w)
        PROVE  UNCHANGED peer /\ (excused' = excused \/ excused' # {})
    BY <2>2, Zenon DEF Work, Take, Dispatch, DoRead, HandleFailure, HandleQueue, HandleAsync, HandleSync,
                HandleReject, HandleOverload, DoSend, DoSendFails, Close, Shutdown
  <2> QED  BY <2>1, <2>2, WorkerTypes, Zenon
<1>2. message' \in Messages /\ callbacks' \in Callbacks
  <2>1. \A msg \in {"answer", "status"} : SendAsync(msg) => message' \in Messages /\ callbacks' \in Callbacks
    BY Zenon DEF SendAsync, TypeInv, Messages, Callbacks
  <2>2. CASE Accept \/ Answer
    BY <2>1, <2>2, Zenon DEF Accept, Answer, HandleNewConnection, ReadAsync, TypeInv, Callbacks, object
  <2>3. ASSUME NEW w \in Worker, Work(w)
        PROVE  message' \in Messages /\ callbacks' \in Callbacks
    <3>1. CASE HandleFailure(w) \/ HandleAsync(w) \/ HandleOverload(w)
      BY <2>1, <3>1, Zenon DEF HandleFailure, HandleAsync, HandleOverload
    <3>2. CASE Take(w) \/ Dispatch(w) \/ HandleQueue(w) \/ HandleReject(w) \/ Shutdown(w)
      BY <3>2, Zenon DEF Take, Dispatch, HandleQueue, HandleReject, Shutdown, TypeInv, object
    <3>3. CASE DoRead(w) \/ HandleSync(w) \/ DoSend(w) \/ DoSendFails(w) \/ Close(w)
      BY <3>3 DEF DoRead, HandleSync, DoSend, DoSendFails, Close, TypeInv, Messages, Callbacks
    <3> QED  BY <2>3, <3>1, <3>2, <3>3, Zenon DEF Work
  <2> QED  BY <2>2, <2>3, Zenon
<1>3. toClient' \in Seq(Messages) /\ (toClient # <<>> => toClient' # <<>>)
  <2>1. toClient' = toClient \/ \E msg \in Messages : toClient' = Append(toClient, msg)
    <3>1. \A msg \in Messages : SendSync(msg) =>
            toClient' = toClient \/ \E m \in Messages : toClient' = Append(toClient, m)
      BY Zenon DEF SendSync
    <3>2. CASE Accept \/ Answer
      BY <3>2, Zenon DEF Accept, Answer, stream
    <3>3. ASSUME NEW w \in Worker, Work(w)
          PROVE  toClient' = toClient \/ \E m \in Messages : toClient' = Append(toClient, m)
      <4>1. CASE HandleSync(w) \/ DoSend(w)
        BY <3>1, <4>1, Zenon DEF HandleSync, DoSend, TypeInv, Messages
      <4>2. CASE ~(HandleSync(w) \/ DoSend(w))
        BY <3>3, <4>2, Zenon DEF Work, Take, Dispatch, DoRead, HandleFailure, HandleQueue, HandleAsync,
                HandleReject, HandleOverload, DoSendFails, Close, Shutdown, stream
      <4> QED  BY <4>1, <4>2, Zenon
    <3> QED  BY <3>2, <3>3, Zenon
  <2> QED  BY <2>1 DEF TypeInv
<1> QED  BY <1>1, <1>2, <1>3, Zenon DEF TypeInv, Told, Over
-----------------------------------------------------------------------------
(* The chain *)

\* The connection is referred to, and not shut down, in every link after connect().
LEMMA ChainIsUp ==
  ASSUME Chain, peer.pc # "connect"
  PROVE  ~Down
<1>1. ~shut
  BY Zenon DEF Chain, Open
<1>2. Referenced
  BY Zenon DEF Chain, Connecting, Listening, Reading, Queued, Sending, OneWorker, Readable, Reads,
         Handles, Writable, Sends, Alone, Referenced, Holds
<1> QED  BY <1>1, <1>2, Zenon DEF Down

\* The client can only connect and send.
LEMMA ClientChain ==
  ASSUME TypeInv, Chain, ClientStep
  PROVE  Chain' \/ Over'
<1>0. Open /\ peer \in Clients
  BY Zenon DEF Chain, TypeInv
<1>1. CASE PeerConnects
  <2>1. Connecting
    BY <1>1, Zenon DEF Chain, Connecting, Listening, Reading, Queued, Sending, OneWorker, Readable, Reads,
         Handles, Writable, Sends, Asks, Asked, Waits, PeerConnects
  <2>2. peer'.pc = "send" /\ peer'.open = peer.open
    BY <1>0, <1>1, Zenon DEF PeerConnects, Clients
  <2>3. Open' /\ Listening'
    BY <1>0, <1>1, <2>1, <2>2, Zenon DEF PeerConnects, Connecting, Listening, Open, AllWait, Asks, stream
  <2> QED  BY <2>3, Zenon DEF Chain
<1>2. CASE PeerSends
  <2>1. peer.pc = "send" /\ ~Down
    BY <1>2, ChainIsUp, Zenon DEF PeerSends
  <2>2. (Listening \/ Reading) /\ toServer = <<>>
    BY <2>1, Zenon DEF Chain, Connecting, Listening, Reading, Queued, Sending, OneWorker, Readable, Reads,
         Handles, Writable, Sends, Asks, Asked, Waits
  <2>3. /\ toServer' = Append(toServer, "request") /\ peer' = [peer EXCEPT !.pc = "read"]
        /\ UNCHANGED <<armed, closed, callbacks, io, task, toClient, shut>>
    BY <1>2, <2>1, Zenon DEF PeerSends, object
  <2>4. peer'.pc = "read" /\ peer'.open = peer.open /\ toServer' = <<"request">>
    BY <1>0, <2>2, <2>3 DEF Clients
  <2>5. Open' /\ Asks' /\ AllWait' = AllWait
    BY <1>0, <2>3, <2>4, Zenon DEF Open, Asks, AllWait
  <2>6. Listening' \/ Reading'
    BY <2>2, <2>3, <2>5, Zenon DEF Listening, Reading
  <2> QED  BY <2>5, <2>6, Zenon DEF Chain
<1>3. CASE PeerReads
  BY <1>0, <1>3, Zenon DEF PeerReads, Open
<1>4. CASE PeerReadsEnd
  BY <1>4, ChainIsUp, Zenon DEF PeerReadsEnd
<1>5. CASE PeerConnectFails \/ PeerConnectTimesOut \/ PeerInterrupted \/ PeerTimesOut
  BY <1>5, Zenon DEF PeerConnectFails, PeerConnectTimesOut, PeerInterrupted, PeerTimesOut, Over
<1> QED  BY <1>1, <1>2, <1>3, <1>4, <1>5, Zenon DEF ClientStep

\* The listening thread and the daemon's workers.
LEMMA AcceptChain ==
  ASSUME TypeInv, Chain, Accept \/ Answer
  PROVE  Chain' \/ Over'
<1>0. Open /\ callbacks \in Callbacks
  BY Zenon DEF Chain, TypeInv
<1>1. CASE Accept
  <2>1. Listening
    BY <1>1, Zenon DEF Accept, Chain, Connecting, Listening, Reading, Queued, Sending, OneWorker, Readable,
         Reads, Handles, Writable, Sends
  <2>2. CASE ReadAsync
    <3>1. armed' = "in" /\ callbacks'.read = "set"
      BY <1>0, <2>2, Zenon DEF ReadAsync, ReadyFor, Callbacks
    <3>2. Open' /\ Reading'
      BY <1>0, <1>1, <2>1, <3>1, Zenon DEF Accept, Listening, Reading, Open, AllWait, Asks, stream
    <3> QED  BY <3>2, Zenon DEF Chain
  <2>3. CASE ~ReadAsync
    BY <1>1, <2>3, Zenon DEF Accept, HandleNewConnection, Over
  <2> QED  BY <2>2, <2>3, Zenon
<1>2. CASE Answer
  <2>1. Queued
    BY <1>2, Zenon DEF Answer, Chain, Connecting, Listening, Reading, Queued, Sending, OneWorker, Readable,
         Reads, Handles, Writable, Sends
  <2>2. armed' = "out" /\ callbacks'.send = "set" /\ UNCHANGED closed
    BY <1>0, <1>2, Zenon DEF Answer, Open, SendAsync, ReadyFor, Callbacks
  <2>3. Open' /\ Sending'
    BY <1>0, <1>2, <2>1, <2>2, Zenon DEF Answer, Queued, Sending, Open, AllWait, Waits, stream
  <2> QED  BY <2>3, Zenon DEF Chain
<1> QED  BY <1>1, <1>2, Zenon

\* A worker takes the only event there is.
LEMMA TakeChain ==
  ASSUME TypeInv, Chain, NEW w \in Worker, Take(w)
  PROVE  Chain'
<1>0. Open /\ io \in [Worker -> Threads]
  BY Zenon DEF Chain, TypeInv
<1>1. Reading \/ Sending
  BY Zenon DEF Take, Chain, Connecting, Listening, Reading, Queued, Sending, OneWorker, Readable,
         Reads, Handles, Writable, Sends
<1> DEFINE flags == (IF armed = "in" /\ toServer # <<>> THEN {"IN"} ELSE {})
                      \cup (IF armed = "out" THEN {"OUT"} ELSE {})
<1>2. io' = [io EXCEPT ![w].pc = "event", ![w].flags = flags] /\ flags # {}
  <2> DEFINE taken(hup, err) ==
               (IF armed = "in" /\ (toServer # <<>> \/ ~peer.open) THEN {"IN"} ELSE {})
                 \cup (IF armed = "out" THEN {"OUT"} ELSE {}) \cup hup \cup err
  <2>1. PICK hup \in {{}, {"HUP"}}, err \in {{}, {"ERR"}} :
          /\ peer.open /\ ~shut => hup = {} /\ err = {}
          /\ taken(hup, err) # {}
          /\ io' = [io EXCEPT ![w].pc = "event", ![w].flags = taken(hup, err)]
    BY Zenon DEF Take
  <2>2. taken(hup, err) = flags
    BY <1>0, <2>1, Zenon DEF Open
  <2> QED  BY <2>1, <2>2, Zenon
<1>3. AllWait /\ Alone(w, "event")' /\ io'[w].flags = flags
  BY <1>0, <1>1, <1>2, Zenon DEF Reading, Sending, AllWait, Alone, Threads
<1>4. Open' /\ armed' = "none" /\ UNCHANGED <<callbacks, task, toServer, peer>>
  BY <1>0, Zenon DEF Take, Open, stream
<1>5. CASE Reading
  <2>1. flags = {"IN"} /\ Asked
    BY <1>2, <1>5, Zenon DEF Reading, Asks, Asked
  <2>2. Readable(w)'
    BY <1>3, <1>4, <1>5, <2>1, Zenon DEF Reading, Readable, Asked
  <2> QED  BY <1>4, <2>2, Zenon DEF Chain, OneWorker
<1>6. CASE Sending
  <2>1. flags = {"OUT"}
    BY <1>2, <1>6, Zenon DEF Sending
  <2>2. Writable(w)'
    BY <1>3, <1>4, <1>6, <2>1, Zenon DEF Sending, Writable, Waits
  <2> QED  BY <1>4, <2>2, Zenon DEF Chain, OneWorker
<1> QED  BY <1>1, <1>5, <1>6, Zenon

\* The worker that has the event does what comes next.
LEMMA WorkChain ==
  ASSUME TypeInv, Chain, NEW w \in Worker, Work(w)
  PROVE  Chain' \/ Told' \/ Over'
<1>0. Open /\ io \in [Worker -> Threads] /\ callbacks \in Callbacks /\ toClient \in Seq(Messages)
  BY Zenon DEF Chain, TypeInv
<1>1. CASE Take(w)
  BY <1>1, TakeChain, Zenon
<1>2. CASE ~Take(w)
  <2>1. io[w].pc # "wait"
    BY <1>2, Zenon DEF Work, Take, Dispatch, DoRead, HandleFailure, HandleQueue, HandleAsync, HandleSync,
                HandleReject, HandleOverload, DoSend, DoSendFails, Close, Shutdown
  <2>2. OneWorker(w)
    BY <2>1, Zenon DEF Chain, Connecting, Listening, Reading, Queued, Sending, AllWait, OneWorker, Readable,
                Reads, Handles, Writable, Sends, Alone
  <2>3. ASSUME NEW pc \in IOPcs, Goto(w, pc), \A v \in Worker \ {w} : io[v].pc = "wait"
        PROVE  Alone(w, pc)' /\ (pc = "wait" => AllWait')
    BY <1>0, <2>3, Zenon DEF Goto, Alone, AllWait, Threads
  <2>4. CASE Dispatch(w)
    <3>1. Readable(w) \/ Writable(w)
      BY <2>2, <2>4, Zenon DEF Dispatch, OneWorker, Readable, Reads, Handles, Writable, Sends, Alone
    <3>2. UNCHANGED <<armed, closed, callbacks, task, toServer, toClient, shut, peer>>
      BY <2>4, Zenon DEF Dispatch, object, stream
    <3>3. Open'
      BY <1>0, <3>2, Zenon DEF Open
    <3>4. CASE Readable(w)
      <4>1. Goto(w, "read")
        BY <2>4, <3>4, Zenon DEF Dispatch, Readable
      <4>2. Reads(w)'
        BY <2>3, <3>2, <3>4, <4>1, Zenon DEF Readable, Reads, Alone, Asked, IOPcs
      <4> QED  BY <3>3, <4>2, Zenon DEF Chain, OneWorker
    <3>5. CASE Writable(w)
      <4>1. Goto(w, "send")
        BY <2>4, <3>5, Zenon DEF Dispatch, Writable
      <4>2. Sends(w)'
        BY <2>3, <3>2, <3>5, <4>1, Zenon DEF Writable, Sends, Alone, Waits, IOPcs
      <4> QED  BY <3>3, <4>2, Zenon DEF Chain, OneWorker
    <3> QED  BY <3>1, <3>4, <3>5, Zenon
  <2>5. CASE DoRead(w)
    <3>1. Reads(w)
      BY <2>2, <2>5, Zenon DEF DoRead, OneWorker, Readable, Reads, Handles, Writable, Sends, Alone
    <3>2. ReadSync /\ toServer' = <<>>
      BY <1>0, <2>5, <3>1 DEF Open, DoRead, Reads, Asked, ReadSync
    <3>3. io' = [io EXCEPT ![w].pc = "handle", ![w].result = TRUE]
      BY <2>5, <3>2, Zenon DEF DoRead
    <3>4. Alone(w, "handle")' /\ io'[w].result
      BY <1>0, <3>1, <3>3, Zenon DEF Reads, Alone, Threads
    <3>5. Open' /\ Handles(w)'
      BY <1>0, <2>5, <3>1, <3>2, <3>4, Zenon DEF DoRead, Reads, Handles, Open, Asked, Waits
    <3> QED  BY <3>5, Zenon DEF Chain, OneWorker
  <2>6. CASE \/ HandleFailure(w) \/ HandleQueue(w) \/ HandleAsync(w) \/ HandleSync(w)
             \/ HandleReject(w) \/ HandleOverload(w)
    <3>1. Handles(w)
      BY <2>2, <2>6, Zenon DEF HandleFailure, HandleQueue, HandleAsync, HandleSync, HandleReject,
           HandleOverload, OneWorker, Readable, Reads, Handles, Writable, Sends, Alone
    <3>2. CASE HandleQueue(w)
      <4>1. Open' /\ Queued'
        BY <1>0, <2>3, <3>1, <3>2, Zenon DEF HandleQueue, Handles, Queued, Open, Waits, Alone, IOPcs, object,
             stream
      <4> QED  BY <4>1, Zenon DEF Chain
    <3>3. CASE HandleAsync(w)
      <4>1. armed' = "out" /\ callbacks'.send = "set" /\ UNCHANGED closed
        BY <1>0, <3>3, Zenon DEF HandleAsync, SendAsync, ReadyFor, Callbacks
      <4>2. Open' /\ Sending'
        BY <1>0, <2>3, <3>1, <3>3, <4>1, Zenon DEF HandleAsync, Handles, Sending, Open, Waits, Alone, IOPcs,
             stream
      <4> QED  BY <4>2, Zenon DEF Chain
    <3>4. CASE HandleSync(w)
      <4>1. toClient' = Append(toClient, "answer") /\ UNCHANGED peer
        BY <1>0, <3>4, Zenon DEF HandleSync, SendSync, Open
      <4> QED  BY <1>0, <3>1, <4>1 DEF Told, Handles, Waits, Messages
    <3>5. CASE HandleReject(w) \/ HandleOverload(w)
      BY <3>5, Zenon DEF HandleReject, HandleOverload, Over
    <3> QED  BY <2>6, <3>1, <3>2, <3>3, <3>4, <3>5, Zenon DEF HandleFailure, Handles
  <2>7. CASE DoSend(w) \/ DoSendFails(w)
    <3>1. Sends(w)
      BY <2>2, <2>7, Zenon DEF DoSend, DoSendFails, OneWorker, Readable, Reads, Handles, Writable, Sends,
           Alone
    <3>2. DoSend(w)
      BY <1>0, <2>7, Zenon DEF DoSendFails, Open
    <3>3. toClient' = Append(toClient, message) /\ UNCHANGED peer
      BY <1>0, <3>2, Zenon DEF DoSend, SendSync, Open
    <3>4. toClient' # <<>>
      BY <1>0, <3>3 DEF TypeInv
    <3> QED  BY <3>1, <3>3, <3>4, Zenon DEF Told, Sends, Waits
  <2>8. CASE Close(w) \/ Shutdown(w)
    BY <2>2, <2>8, Zenon DEF Close, Shutdown, OneWorker, Readable, Reads, Handles, Writable, Sends, Alone
  <2> QED  BY <1>2, <2>4, <2>5, <2>6, <2>7, <2>8, Zenon DEF Work
<1> QED  BY <1>1, <1>2, Zenon
-----------------------------------------------------------------------------
\* Every step keeps the invariant.
LEMMA NextIInv == IInv /\ [Next]_vars => IInv'
<1> SUFFICES ASSUME IInv, [Next]_vars PROVE IInv'
  BY Zenon
<1>0. TypeInv /\ (Chain \/ Told \/ Over)
  BY Zenon DEF IInv
<1>1. CASE ClientStep
  BY <1>0, <1>1, ClientKeeps, ClientChain, Zenon DEF IInv
<1>2. CASE Accept \/ Answer
  BY <1>0, <1>2, DaemonKeeps, AcceptChain, Zenon DEF IInv
<1>3. CASE \E w \in Worker : Work(w)
  BY <1>0, <1>3, DaemonKeeps, WorkChain, Zenon DEF IInv
<1>4. CASE UNCHANGED vars
  <2>1. TypeInv'
    BY <1>0, <1>4, Zenon DEF TypeInv, vars
  <2>2. Told' = Told /\ Over' = Over
    BY <1>4, Zenon DEF Told, Over, vars
  <2>3. Open' = Open /\ \A w \in Worker : OneWorker(w)' = OneWorker(w)
    BY <1>4 DEF Open, OneWorker, Readable, Reads, Handles, Writable, Sends, Alone, Asked, Waits, vars
  <2>4. /\ Connecting' = Connecting /\ Listening' = Listening /\ Reading' = Reading
        /\ Queued' = Queued /\ Sending' = Sending
    BY <1>4, Zenon DEF Connecting, Listening, Reading, Queued, Sending, AllWait, Asks, Waits, vars
  <2>5. Chain' = Chain
    BY <2>3, <2>4, Zenon DEF Chain
  <2> QED  BY <1>0, <2>1, <2>2, <2>5, Zenon DEF IInv
<1> QED  BY <1>1, <1>2, <1>3, <1>4, Zenon DEF Next, Peer, ClientStep

\* A client that is told nothing has an excuse: what SendAsync() was given is sent before
\* anybody closes the connection (DoRead(), DoSend() and Close(), connection_impl.cc).
THEOREM AnswersAreDelivered == Spec => []AnswerDelivered
<1>1. IInv => AnswerDelivered
  BY Zenon DEF IInv, Chain, Connecting, Listening, Reading, Queued, Sending, OneWorker, Readable, Reads,
         Handles, Writable, Sends, Asks, Asked, Waits, Told, Over, AnswerDelivered
<1> QED  BY <1>1, InitIInv, NextIInv, PTL DEF Spec

-----------------------------------------------------------------------------
(* Processes.                                                              *)

\* What is in the pipes is what one side wrote and the other has not read.
StreamInv ==
  /\ child.wrote <= Len(child.output) /\ stdout.chars \o pipe.out = Written
  /\ stderr + pipe.err = child.err /\ child.read + pipe.in = sent

Gone(fd) == IF fd \in Watched \ epoll THEN 1 ELSE 0

\* An event without EPOLLIN says that there is nothing left to read and never will be.
Drained(e) ==
  /\ e.flags # {} /\ e.flags \subseteq (IF e.fd = "in" THEN {"OUT", "ERR"} ELSE {"IN", "HUP"})
  /\ e.fd = "out" /\ "IN" \notin e.flags => pipe.out = <<>> /\ ~Alive
  /\ e.fd = "err" /\ "IN" \notin e.flags => pipe.err = 0 /\ ~Alive

EventInv ==
  /\ run.events # {} => run.pc = "loop"
  /\ \A e \in run.events : e.fd \in epoll /\ Drained(e)
  /\ \A e, f \in run.events : e.fd = f.fd => e = f

\* Descriptors are given up one by one, each when nothing can come from it any more.
LoopInv ==
  /\ epoll \subseteq Watched
  /\ run.pc = "start" => epoll = {} /\ exhausted = 0 /\ ~killed /\ child.pc = "none"
  /\ run.pc = "loop" =>
       /\ exhausted = Gone("in") + Gone("out") + Gone("err")
       /\ "out" \notin epoll => pipe.out = <<>> /\ ~Alive
       /\ "err" \notin epoll => pipe.err = 0 /\ ~Alive
  /\ run.pc = "waitpid" /\ ~killed => pipe.out = <<>> /\ pipe.err = 0 /\ ~Alive
  /\ run.pc = "returned" /\ run.result =>
       pipe.out = <<>> /\ pipe.err = 0 /\ child.pc = "exited" /\ child.code = 0

\* The input is closed when it is sent, or nobody is there to read it.
InputInv ==
  /\ piped /\ Alive /\ ~inOpen /\ ~child.term => sent = InputSize
  /\ child.eof /\ ~child.term => child.read = InputSize

ProcessInv == ProcessTypeOK /\ StreamInv /\ EventInv /\ LoopInv /\ InputInv

\* Before the fork nothing was read or written.
LEMMA ProcessInvInit == ProcessInit => ProcessInv
  <1> SUFFICES ASSUME ProcessInit PROVE ProcessInv
    BY Zenon
  <1>1. PICK output \in Outputs :
          child = [pc |-> "none", code |-> 0, term |-> FALSE, eof |-> FALSE,
                   output |-> output, read |-> 0, wrote |-> 0, err |-> 0]
    BY Zenon DEF ProcessInit
  <1>2. output \in Seq(Char) /\ Len(output) \in Nat
    BY ProcessAssumption
  <1>3. ProcessTypeOK
    <2>1. child \in Children
      BY <1>1, ProcessAssumption DEF Children
    <2>2. run \in Runs /\ pipe \in Pipes /\ Len(pipe.out) <= PipeSize
      BY ProcessAssumption DEF ProcessInit, Runs, Pipes
    <2>3. stdout \in Ropes
      BY DEF ProcessInit, Ropes
    <2>4. 0 \in 0 .. 3 /\ 0 \in 0 .. InputSize /\ 0 \in 0 .. ErrSize
      BY ProcessAssumption
    <2>5. /\ piped \in BOOLEAN /\ limited \in BOOLEAN /\ killed \in BOOLEAN /\ inOpen \in BOOLEAN
          /\ epoll \subseteq Fds /\ exhausted = 0 /\ sent = 0 /\ stderr = 0
      BY Zenon DEF ProcessInit
    <2> QED
      BY <2>1, <2>2, <2>3, <2>4, <2>5, Zenon DEF ProcessTypeOK
  <1>4. StreamInv
    <2>1. SubSeq(output, 1, 0) = <<>> /\ <<>> \o <<>> = <<>>
      BY <1>2
    <2> QED
      BY <1>1, <1>2, <2>1 DEF ProcessInit, StreamInv, Written
  <1>5. EventInv /\ LoopInv /\ InputInv
    BY <1>1, Zenon DEF ProcessInit, EventInv, LoopInv, InputInv, Alive
  <1> QED
    BY <1>3, <1>4, <1>5, Zenon DEF ProcessInv

\* What the flags of a descriptor say.
LEMMA FlagsGive ==
  ASSUME NEW fd \in Fds
  PROVE  /\ Flags(fd) \subseteq (IF fd = "in" THEN {"OUT", "ERR"} ELSE {"IN", "HUP"})
         /\ Flags(fd) # {} /\ "IN" \notin Flags(fd) =>
              /\ fd = "out" => pipe.out = <<>> /\ ~Alive
              /\ fd = "err" => ~(pipe.err > 0) /\ ~Alive
  <1>1. CASE fd = "in"
    BY <1>1, Zenon DEF Flags
  <1>2. CASE fd = "out"
    BY <1>2, Zenon DEF Flags
  <1>3. CASE fd = "err"
    BY <1>3, Zenon DEF Flags
  <1> QED
    BY <1>1, <1>2, <1>3, Zenon DEF Fds

\* Sequences with the same elements are the same.
LEMMA SameSequence ==
  ASSUME NEW s \in Seq(Char), NEW t \in Seq(Char), Len(s) = Len(t),
         \A i \in 1 .. Len(s) : s[i] = t[i]
  PROVE  s = t
  OBVIOUS

\* What is appended to characters gives characters.
LEMMA AppendGives ==
  ASSUME NEW s \in Seq(Char), NEW t \in Seq(Char)
  PROVE  s \o t \in Seq(Char) /\ Len(s \o t) = Len(s) + Len(t) /\ Len(s \o t) \in Nat
  OBVIOUS

\* What follows a beginning of an output, appended to it, is a longer beginning.
LEMMA TakesMore ==
  ASSUME NEW s \in Seq(Char), NEW m \in Nat, NEW n \in Nat, m + n <= Len(s)
  PROVE  /\ SubSeq(s, m + 1, m + n) \in Seq(Char) /\ Len(SubSeq(s, m + 1, m + n)) = n
         /\ SubSeq(s, 1, m) \o SubSeq(s, m + 1, m + n) = SubSeq(s, 1, m + n)
  <1> DEFINE a == SubSeq(s, 1, m)
             b == SubSeq(s, m + 1, m + n)
             c == SubSeq(s, 1, m + n)
  <1>1. a \in Seq(Char) /\ Len(a) = m /\ \A i \in 1 .. m : a[i] = s[i]
    OBVIOUS
  <1>2. b \in Seq(Char) /\ Len(b) = n /\ \A i \in 1 .. n : b[i] = s[m + i]
    OBVIOUS
  <1>3. c \in Seq(Char) /\ Len(c) = m + n /\ \A i \in 1 .. m + n : c[i] = s[i]
    OBVIOUS
  <1> HIDE DEF a, b, c
  <1>4. a \o b \in Seq(Char) /\ Len(a \o b) = m + n
    <2>1. a \in Seq(Char) /\ b \in Seq(Char) /\ Len(a) = m /\ Len(b) = n
      BY <1>1, <1>2, Zenon
    <2> QED
      BY <2>1, AppendGives, Zenon
  <1>5. ASSUME NEW i \in 1 .. m + n PROVE (a \o b)[i] = s[i]
    BY <1>1, <1>2
  <1>6. a \o b = c
    BY <1>3, <1>4, <1>5, SameSequence, Zenon
  <1> QED
    BY <1>2, <1>6, Zenon DEF a, b, c

\* Appending is associative.
LEMMA Associates ==
  ASSUME NEW s \in Seq(Char), NEW t \in Seq(Char), NEW u \in Seq(Char)
  PROVE  s \o (t \o u) = (s \o t) \o u
  <1>1. /\ t \o u \in Seq(Char) /\ s \o t \in Seq(Char)
        /\ Len(t \o u) = Len(t) + Len(u) /\ Len(s \o t) = Len(s) + Len(t)
    OBVIOUS
  <1>2. /\ s \o (t \o u) \in Seq(Char) /\ (s \o t) \o u \in Seq(Char)
        /\ Len(s \o (t \o u)) = Len(s) + Len(t) + Len(u)
        /\ Len((s \o t) \o u) = Len(s) + Len(t) + Len(u)
    BY <1>1
  <1>3. ASSUME NEW i \in 1 .. Len(s) + Len(t) + Len(u)
        PROVE  (s \o (t \o u))[i] = ((s \o t) \o u)[i]
    BY <1>1, <1>2
  <1> QED
    BY <1>2, <1>3, SameSequence, Zenon

\* Nothing appended changes nothing.
LEMMA NothingAppended ==
  ASSUME NEW s \in Seq(Char)
  PROVE  s \o <<>> = s /\ <<>> \in Seq(Char)
  <1>1. s \o <<>> \in Seq(Char) /\ Len(s \o <<>>) = Len(s) /\ \A i \in 1 .. Len(s) : (s \o <<>>)[i] = s[i]
    OBVIOUS
  <1>2. s \o <<>> = s
    BY <1>1, SameSequence, Zenon
  <1> QED
    BY <1>2

\* What the child does keeps what is known of the loop, if no dead child lives on.
LEMMA LoopRests ==
  ASSUME ProcessInv,
         UNCHANGED <<setting, run, epoll, exhausted, killed>>,
         ~Alive => ~Alive' /\ pipe'.out = pipe.out /\ pipe'.err = pipe.err,
         child.pc = "exited" => child' = child,
         child.pc = "none" => child'.pc = "none"
  PROVE  EventInv' /\ LoopInv'
  <1>1. run' = run /\ epoll' = epoll /\ exhausted' = exhausted /\ killed' = killed /\ piped' = piped
    BY Zenon DEF setting
  <1>2. ASSUME NEW e \in run.events PROVE e.fd \in epoll /\ Drained(e)'
    BY <1>2, Zenon DEF ProcessInv, EventInv, Drained
  <1>3. EventInv'
    BY <1>1, <1>2, Zenon DEF ProcessInv, EventInv
  <1>4. Watched' = Watched /\ Gone("in")' = Gone("in") /\ Gone("out")' = Gone("out") /\ Gone("err")' = Gone("err")
    BY <1>1, Zenon DEF Watched, Gone
  <1>5. run.pc = "returned" /\ run.result => child.pc = "exited" /\ ~Alive
    BY Zenon DEF ProcessInv, LoopInv, Alive
  <1>6. LoopInv'
    BY <1>1, <1>4, <1>5 DEF ProcessInv, LoopInv
  <1> QED
    BY <1>3, <1>6, Zenon

\* The types of the parts, and how what was sent, read and written add up.
LEMMA ProcessFacts ==
  ASSUME ProcessInv
  PROVE  /\ piped \in BOOLEAN /\ limited \in BOOLEAN /\ killed \in BOOLEAN /\ inOpen \in BOOLEAN
         /\ run \in Runs /\ epoll \subseteq Fds /\ exhausted \in 0 .. 3
         /\ sent \in 0 .. InputSize /\ stdout \in Ropes /\ stderr \in 0 .. ErrSize
         /\ pipe \in Pipes /\ Len(pipe.out) <= PipeSize /\ child \in Children
  BY Zenon DEF ProcessInv, ProcessTypeOK

\* The same for the parts of the records.
LEMMA ProcessParts ==
  ASSUME ProcessInv
  PROVE  /\ stdout.chars \in Seq(Char) /\ child.output \in Seq(Char) /\ child.wrote \in Nat
         /\ child.read \in Nat /\ child.err \in Nat /\ child.err <= ErrSize
         /\ pipe.in \in Nat /\ pipe.out \in Seq(Char) /\ pipe.err \in Nat
         /\ PipeSize \in Nat /\ InputSize \in Nat /\ ErrSize \in Nat /\ sent \in Nat /\ stderr \in Nat
         /\ sent <= InputSize /\ pipe.in <= PipeSize
  BY ProcessFacts, ProcessAssumption DEF Children, Pipes, Ropes

\* How what was sent, read and written adds up.
LEMMA ProcessSums ==
  ASSUME ProcessInv
  PROVE  /\ child.wrote <= Len(child.output) /\ stdout.chars \o pipe.out = SubSeq(child.output, 1, child.wrote)
         /\ stderr + pipe.err = child.err /\ child.read + pipe.in = sent
  BY Zenon DEF ProcessInv, StreamInv, Written

\* The steps of the child: it reads, writes and ends, whatever Run() does.
LEMMA ChildKeeps ==
  ASSUME ProcessInv, Child \/ ChildQuits \/ ChildHangs
  PROVE  ProcessInv'
  <1>0. /\ run \in Runs /\ pipe \in Pipes /\ Len(pipe.out) <= PipeSize /\ child \in Children
    BY ProcessFacts, Zenon
  <1>3. ASSUME UNCHANGED <<setting, run, parent>>, child' \in Children,
               pipe' \in Pipes, Len(pipe'.out) <= PipeSize
        PROVE  ProcessTypeOK'
    <2>1. /\ piped' = piped /\ limited' = limited /\ killed' = killed /\ inOpen' = inOpen
          /\ run' = run /\ epoll' = epoll /\ exhausted' = exhausted /\ sent' = sent
          /\ stderr' = stderr /\ stdout' = stdout
      BY <1>3, Zenon DEF setting, parent
    <2> QED
      BY <1>3, <2>1, ProcessFacts, Zenon DEF ProcessTypeOK
  <1>4. ASSUME UNCHANGED <<setting, run, parent>>, child.pc = "running"
        PROVE  EventInv' /\ LoopInv'
    BY <1>4, LoopRests, Zenon DEF Alive, parent
  <1>5. ASSUME UNCHANGED <<setting, run, parent, pipe>>, child' \in Children,
               child'.output = child.output, child'.read = child.read, child'.wrote = child.wrote,
               child'.err = child.err, child'.eof = child.eof, child'.term = child.term,
               Alive, EventInv' /\ LoopInv'
        PROVE  ProcessInv'
    <2>1. pipe' = pipe /\ stdout' = stdout /\ stderr' = stderr /\ sent' = sent /\ piped' = piped /\ inOpen' = inOpen
      BY <1>5, Zenon DEF setting, parent
    <2>2. StreamInv'
      BY ProcessSums, <1>5, <2>1, Zenon DEF StreamInv, Written
    <2>3. InputInv'
      BY <1>5, <2>1, Zenon DEF ProcessInv, InputInv
    <2> QED
      BY <1>0, <1>3, <1>5, <2>1, <2>2, <2>3, Zenon DEF ProcessInv
  <1>6. CASE ChildReads
    <2>1. PICK n \in 1 .. pipe.in : /\ child' = [child EXCEPT !.read = child.read + n]
                                    /\ pipe' = [pipe EXCEPT !.in = pipe.in - n]
      BY <1>6, Zenon DEF ChildReads
    <2>2. /\ UNCHANGED <<setting, run, parent>> /\ child.pc = "running" /\ sent' = sent /\ stderr' = stderr
          /\ stdout' = stdout /\ piped' = piped /\ inOpen' = inOpen
      BY <1>6, Zenon DEF ChildReads, setting, parent
    <2>3. /\ n \in Nat /\ n > 0 /\ child.read < InputSize
          /\ child.read + n \in 0 .. InputSize /\ pipe.in - n \in 0 .. PipeSize
          /\ (child.read + n) + (pipe.in - n) = sent
      <3>1. /\ n \in 1 .. pipe.in /\ child.read + pipe.in = sent /\ sent <= InputSize /\ pipe.in <= PipeSize
            /\ child.read \in Nat /\ pipe.in \in Nat /\ sent \in Nat /\ InputSize \in Nat /\ PipeSize \in Nat
        BY ProcessParts, ProcessSums, <2>1, Zenon
      <3> QED
        BY <3>1
    <2>4. child' \in Children /\ pipe' \in Pipes /\ pipe'.out = pipe.out
      BY <1>0, <2>1, <2>3, Zenon DEF Children, Pipes
    <2>5. /\ child'.read = child.read + n /\ pipe'.in = pipe.in - n /\ pipe'.err = pipe.err
          /\ child'.pc = child.pc /\ child'.eof = child.eof /\ child'.term = child.term
          /\ child'.output = child.output /\ child'.wrote = child.wrote /\ child'.err = child.err
      BY <1>0, <2>1, Zenon DEF Children, Pipes
    <2>6. StreamInv'
      BY ProcessSums, <2>2, <2>3, <2>4, <2>5, Zenon DEF StreamInv, Written
    <2>7. InputInv'
      BY ProcessParts, <2>2, <2>3, <2>5 DEF ProcessInv, InputInv, Alive
    <2> QED
      BY <1>0, <1>3, <1>4, <2>2, <2>4, <2>6, <2>7, Zenon DEF ProcessInv
  <1>7. CASE ChildSeesEOF
    <2>1. /\ UNCHANGED <<setting, run, parent, pipe>> /\ child.pc = "running" /\ sent' = sent /\ stderr' = stderr
          /\ stdout' = stdout /\ piped' = piped /\ inOpen' = inOpen /\ pipe' = pipe
          /\ piped /\ pipe.in = 0 /\ ~inOpen /\ child' = [child EXCEPT !.eof = TRUE]
      BY <1>7, Zenon DEF ChildSeesEOF, setting, parent
    <2>2. /\ child' \in Children /\ child'.read = child.read /\ child'.pc = child.pc /\ child'.term = child.term
          /\ child'.output = child.output /\ child'.wrote = child.wrote /\ child'.err = child.err
      BY <1>0, <2>1, Zenon DEF Children
    <2>3. StreamInv'
      BY ProcessSums, <2>1, <2>2, Zenon DEF StreamInv, Written
    <2>4. InputInv'
      <3>1. child.read + pipe.in = sent /\ pipe.in = 0 /\ child.read \in Nat /\ sent \in Nat
        BY ProcessParts, ProcessSums, <2>1, Zenon
      <3>2. child.read = sent
        BY <3>1
      <3> QED
        BY <2>1, <2>2, <3>2, Zenon DEF ProcessInv, InputInv, Alive
    <2> QED
      BY <1>0, <1>3, <1>4, <2>1, <2>2, <2>3, <2>4, Zenon DEF ProcessInv
  <1>8. CASE ChildWrites
    <2>1. PICK n \in 1 .. PipeSize - Len(pipe.out) :
            /\ child.wrote + n <= Len(child.output)
            /\ pipe' = [pipe EXCEPT !.out = pipe.out \o SubSeq(child.output, child.wrote + 1, child.wrote + n)]
            /\ child' = [child EXCEPT !.wrote = child.wrote + n]
      BY <1>8, Zenon DEF ChildWrites
    <2> DEFINE more == SubSeq(child.output, child.wrote + 1, child.wrote + n)
    <2>2. /\ UNCHANGED <<setting, run, parent>> /\ child.pc = "running" /\ sent' = sent /\ stderr' = stderr
          /\ stdout' = stdout /\ piped' = piped /\ inOpen' = inOpen
      BY <1>8, Zenon DEF ChildWrites, setting, parent
    <2>3. n \in Nat /\ n > 0 /\ child.wrote + n \in Nat
      <3>1. child.wrote \in Nat /\ PipeSize \in Nat /\ pipe.out \in Seq(Char)
        BY ProcessParts, Zenon
      <3>2. Len(pipe.out) \in Nat
        BY <3>1
      <3>3. n \in Nat /\ n > 0
        BY <3>1, <3>2
      <3> QED
        BY <3>1, <3>3
    <2>4. /\ more \in Seq(Char) /\ Len(more) = n
          /\ SubSeq(child.output, 1, child.wrote) \o more = SubSeq(child.output, 1, child.wrote + n)
      <3>1. child.output \in Seq(Char) /\ child.wrote \in Nat /\ n \in Nat /\ child.wrote + n <= Len(child.output)
        BY ProcessParts, <2>1, <2>3, Zenon
      <3> QED
        BY <3>1, TakesMore, Zenon
    <2> HIDE DEF more
    <2>5. pipe.out \o more \in Seq(Char) /\ Len(pipe.out \o more) <= PipeSize
      BY ProcessParts, <2>1, <2>3, <2>4
    <2>6. child' \in Children /\ pipe' \in Pipes /\ pipe'.out = pipe.out \o more /\ Len(pipe'.out) <= PipeSize
      BY <1>0, <2>1, <2>3, <2>5, Zenon DEF Children, Pipes, more
    <2>7. /\ child'.read = child.read /\ pipe'.in = pipe.in /\ pipe'.err = pipe.err
          /\ child'.pc = child.pc /\ child'.eof = child.eof /\ child'.term = child.term
          /\ child'.output = child.output /\ child'.wrote = child.wrote + n /\ child'.err = child.err
      BY <1>0, <2>1, Zenon DEF Children, Pipes
    <2>8. stdout.chars \o (pipe.out \o more) = (stdout.chars \o pipe.out) \o more
      BY ProcessParts, <2>4, Associates, ZenonT(30)
    <2>9. StreamInv'
      BY ProcessParts, ProcessSums, <2>1, <2>2, <2>4, <2>6, <2>7, <2>8, Zenon DEF StreamInv, Written
    <2>10. InputInv'
      BY <2>2, <2>7, Zenon DEF ProcessInv, InputInv, Alive
    <2> QED
      BY <1>0, <1>3, <1>4, <2>2, <2>6, <2>9, <2>10, Zenon DEF ProcessInv
  <1>9. CASE ChildComplains
    <2>1. /\ UNCHANGED <<setting, run, parent>> /\ child.pc = "running" /\ sent' = sent /\ stderr' = stderr
          /\ stdout' = stdout /\ piped' = piped /\ inOpen' = inOpen
          /\ child.err < ErrSize /\ pipe.err < PipeSize
          /\ pipe' = [pipe EXCEPT !.err = pipe.err + 1] /\ child' = [child EXCEPT !.err = child.err + 1]
      BY <1>9, Zenon DEF ChildComplains, setting, parent
    <2>2. /\ child.err + 1 \in 0 .. ErrSize /\ pipe.err + 1 \in 0 .. PipeSize
          /\ stderr + (pipe.err + 1) = child.err + 1
      <3>1. /\ stderr + pipe.err = child.err /\ child.err < ErrSize /\ pipe.err < PipeSize
            /\ stderr \in Nat /\ pipe.err \in Nat /\ ErrSize \in Nat /\ PipeSize \in Nat
        BY ProcessParts, ProcessSums, <2>1, Zenon
      <3> QED
        BY <3>1
    <2>3. child' \in Children /\ pipe' \in Pipes /\ pipe'.out = pipe.out
      BY <1>0, <2>1, <2>2, Zenon DEF Children, Pipes
    <2>4. /\ child'.read = child.read /\ pipe'.in = pipe.in /\ pipe'.err = pipe.err + 1
          /\ child'.pc = child.pc /\ child'.eof = child.eof /\ child'.term = child.term
          /\ child'.output = child.output /\ child'.wrote = child.wrote /\ child'.err = child.err + 1
      BY <1>0, <2>1, Zenon DEF Children, Pipes
    <2>5. StreamInv'
      BY ProcessSums, <2>1, <2>2, <2>3, <2>4, Zenon DEF StreamInv, Written
    <2>6. InputInv'
      BY <2>1, <2>4, Zenon DEF ProcessInv, InputInv, Alive
    <2> QED
      BY <1>0, <1>3, <1>4, <2>1, <2>3, <2>5, <2>6, Zenon DEF ProcessInv
  <1>10. ASSUME NEW c \in {0, 1}, child.pc = "running", ChildExit(c) PROVE ProcessInv'
    <2>1. UNCHANGED <<setting, run, parent, pipe>> /\ child' = [child EXCEPT !.pc = "exited", !.code = c]
      BY <1>10, Zenon DEF ChildExit
    <2>2. /\ child' \in Children /\ child'.output = child.output /\ child'.read = child.read
          /\ child'.wrote = child.wrote /\ child'.err = child.err /\ child'.eof = child.eof /\ child'.term = child.term
      BY <1>0, <2>1, Zenon DEF Children
    <2> QED
      BY <1>4, <1>5, <1>10, <2>1, <2>2, Zenon DEF Alive
  <1>11. CASE ChildFinishes \/ ChildQuits
    BY <1>10, <1>11, Zenon DEF ChildFinishes, ChildQuits
  <1>12. CASE ChildHangs
    <2>1. UNCHANGED <<setting, run, parent, pipe>> /\ child' = [child EXCEPT !.pc = "stuck"] /\ child.pc = "running"
      BY <1>12, Zenon DEF ChildHangs
    <2>2. /\ child' \in Children /\ child'.output = child.output /\ child'.read = child.read
          /\ child'.wrote = child.wrote /\ child'.err = child.err /\ child'.eof = child.eof /\ child'.term = child.term
      BY <1>0, <2>1, Zenon DEF Children
    <2> QED
      BY <1>4, <1>5, <2>1, <2>2, Zenon DEF Alive
  <1>13. CASE ChildDies
    <2>1. UNCHANGED <<setting, run, parent, pipe>> /\ child' = [child EXCEPT !.pc = "signalled"] /\ Alive
      BY <1>13, Zenon DEF ChildDies
    <2>2. /\ child' \in Children /\ child'.output = child.output /\ child'.read = child.read
          /\ child'.wrote = child.wrote /\ child'.err = child.err /\ child'.eof = child.eof /\ child'.term = child.term
      BY <1>0, <2>1, Zenon DEF Children
    <2>3. EventInv' /\ LoopInv'
      BY <2>1, LoopRests, Zenon DEF Alive, parent
    <2> QED
      BY <1>5, <2>1, <2>2, <2>3, Zenon
  <1> QED
    BY <1>6, <1>7, <1>8, <1>9, <1>11, <1>12, <1>13, Zenon DEF Child

\* A step that neither sends, reads nor writes leaves the streams as they are.
LEMMA StreamsRest ==
  ASSUME ProcessInv, UNCHANGED <<sent, stdout, stderr, pipe>>,
         child'.output = child.output, child'.read = child.read,
         child'.wrote = child.wrote, child'.err = child.err
  PROVE  StreamInv'
  BY ProcessSums, Zenon DEF StreamInv, Written

\* Each descriptor is gone at most once.
LEMMA GoneOnce ==
  /\ Gone("in") \in {0, 1} /\ Gone("out") \in {0, 1} /\ Gone("err") \in {0, 1}
  /\ ~piped => Gone("in") = 0
  /\ Gone("out") = 1 => "out" \notin epoll
  /\ Gone("err") = 1 => "err" \notin epoll
  BY DEF Gone, Watched

\* The steps of Run() around the loop: it starts, waits, gives up, leaves and returns.
LEMMA RunKeeps ==
  ASSUME ProcessInv,
         SetupFails \/ Fork \/ EpollFails \/ Wait \/ Timeout \/ Leave \/ WaitPid
  PROVE  ProcessInv'
  <1>0. /\ run \in Runs /\ child \in Children /\ epoll \subseteq Watched /\ run.events \subseteq Events
        /\ Watched \subseteq Fds
    BY ProcessFacts, Zenon DEF ProcessInv, LoopInv, Runs, Watched, Fds
  <1>1. ASSUME run.pc # "loop" PROVE run.events = {}
    BY <1>1, Zenon DEF ProcessInv, EventInv
  <1>2. CASE SetupFails
    <2>1. /\ run' = [pc |-> "returned", events |-> {}, result |-> FALSE]
          /\ piped' = piped /\ limited' = limited /\ epoll' = epoll /\ exhausted' = exhausted /\ sent' = sent
          /\ inOpen' = inOpen /\ stdout' = stdout /\ stderr' = stderr /\ killed' = killed /\ pipe' = pipe /\ child' = child
      BY <1>2, Zenon DEF SetupFails, Return, setting, parent
    <2>2. run' \in Runs /\ run'.events = {} /\ run'.pc = "returned" /\ ~run'.result
      BY <2>1, Zenon DEF Runs
    <2>3. ProcessTypeOK'
      BY <2>1, <2>2, ProcessFacts, Zenon DEF ProcessTypeOK
    <2>4. StreamInv' /\ InputInv'
      BY <2>1, StreamsRest, Zenon DEF ProcessInv, InputInv, Alive
    <2>5. EventInv' /\ LoopInv'
      BY <1>0, <2>1, <2>2, Zenon DEF EventInv, LoopInv, Watched
    <2> QED
      BY <2>3, <2>4, <2>5, Zenon DEF ProcessInv
  <1>3. CASE Fork
    <2>1. /\ run' = [run EXCEPT !.pc = "loop"] /\ child' = [child EXCEPT !.pc = "running"]
          /\ inOpen' = piped /\ epoll' = Watched /\ run.pc = "start"
          /\ piped' = piped /\ limited' = limited /\ exhausted' = exhausted /\ sent' = sent
          /\ stdout' = stdout /\ stderr' = stderr /\ killed' = killed /\ pipe' = pipe
      BY <1>3, Zenon DEF Fork, setting
    <2>2. run' \in Runs /\ run'.events = {} /\ run'.pc = "loop"
      BY <1>0, <1>1, <2>1, Zenon DEF Runs
    <2>3. /\ child' \in Children /\ child'.output = child.output /\ child'.read = child.read
          /\ child'.wrote = child.wrote /\ child'.err = child.err /\ child'.eof = child.eof /\ child'.term = child.term
      BY <1>0, <2>1, Zenon DEF Children
    <2>4. ProcessTypeOK'
      BY <1>0, <2>1, <2>2, <2>3, ProcessFacts, Zenon DEF ProcessTypeOK
    <2>5. StreamInv' /\ InputInv'
      BY <2>1, <2>3, StreamsRest, Zenon DEF ProcessInv, InputInv, Alive
    <2>6. /\ Watched' = Watched /\ Gone("in")' = 0 /\ Gone("out")' = 0 /\ Gone("err")' = 0
          /\ "out" \in Watched /\ "err" \in Watched /\ exhausted' = 0
      BY <2>1, Zenon DEF Watched, Gone, ProcessInv, LoopInv
    <2>7. EventInv' /\ LoopInv'
      BY <2>1, <2>2, <2>6 DEF EventInv, LoopInv
    <2> QED
      BY <2>4, <2>5, <2>7, Zenon DEF ProcessInv
  <1>4. CASE EpollFails
    <2>1. /\ run' = [pc |-> "returned", events |-> {}, result |-> FALSE] /\ child' = [child EXCEPT !.term = TRUE]
          /\ inOpen' = FALSE /\ piped' = piped /\ limited' = limited /\ epoll' = epoll /\ exhausted' = exhausted
          /\ sent' = sent /\ stdout' = stdout /\ stderr' = stderr /\ killed' = killed /\ pipe' = pipe
      BY <1>4, Zenon DEF EpollFails, Return, setting
    <2>2. run' \in Runs /\ run'.events = {} /\ run'.pc = "returned" /\ ~run'.result
      BY <2>1, Zenon DEF Runs
    <2>3. /\ child' \in Children /\ child'.output = child.output /\ child'.read = child.read
          /\ child'.wrote = child.wrote /\ child'.err = child.err /\ child'.term
      BY <1>0, <2>1, Zenon DEF Children
    <2>4. ProcessTypeOK'
      BY <2>1, <2>2, <2>3, ProcessFacts, Zenon DEF ProcessTypeOK
    <2>5. StreamInv' /\ InputInv'
      BY <2>1, <2>3, StreamsRest, Zenon DEF InputInv
    <2>6. EventInv' /\ LoopInv'
      BY <1>0, <2>1, <2>2, Zenon DEF EventInv, LoopInv, Watched
    <2> QED
      BY <2>4, <2>5, <2>6, Zenon DEF ProcessInv
  <1>5. CASE Wait
    <2> DEFINE told == {[fd |-> fd, flags |-> Flags(fd)] : fd \in Ready}
    <2>1. /\ run' = [run EXCEPT !.events = told] /\ run.pc = "loop"
          /\ piped' = piped /\ limited' = limited /\ epoll' = epoll /\ exhausted' = exhausted /\ sent' = sent
          /\ inOpen' = inOpen /\ stdout' = stdout /\ stderr' = stderr /\ killed' = killed /\ pipe' = pipe /\ child' = child
      BY <1>5, Zenon DEF Wait, setting, parent
    <2>2. ASSUME NEW e \in told
          PROVE  e \in Events /\ e.fd \in epoll /\ Drained(e) /\ e.flags = Flags(e.fd) /\ e = [fd |-> e.fd, flags |-> e.flags]
      <3>1. PICK fd \in Ready : e = [fd |-> fd, flags |-> Flags(fd)]
        BY <2>2, Zenon
      <3>2. fd \in epoll /\ Flags(fd) # {} /\ fd \in Fds
        BY ProcessFacts, Zenon DEF Ready
      <3>3. e.fd = fd /\ e.flags = Flags(fd)
        BY <3>1, Zenon
      <3>4. /\ Flags(fd) \subseteq (IF fd = "in" THEN {"OUT", "ERR"} ELSE {"IN", "HUP"})
            /\ "IN" \notin Flags(fd) => /\ fd = "out" => pipe.out = <<>> /\ ~Alive
                                        /\ fd = "err" => pipe.err = 0 /\ ~Alive
        <4>1. ~(pipe.err > 0) => pipe.err = 0
          BY ProcessParts
        <4> QED
          BY <3>2, <4>1, FlagsGive, Zenon
      <3>5. Drained(e)
        BY <3>2, <3>3, <3>4, Zenon DEF Drained
      <3>6. e \in Events
        BY <3>1, <3>2, <3>4, Zenon DEF Events
      <3> QED
        BY <3>1, <3>2, <3>3, <3>5, <3>6, Zenon
    <2> HIDE DEF told
    <2>3. run' \in Runs /\ run'.events = told /\ run'.pc = "loop"
      BY <1>0, <2>1, <2>2, Zenon DEF Runs
    <2>4. ProcessTypeOK'
      BY <2>1, <2>3, ProcessFacts, Zenon DEF ProcessTypeOK
    <2>5. StreamInv' /\ InputInv'
      BY <2>1, StreamsRest, Zenon DEF ProcessInv, InputInv, Alive
    <2>6. EventInv'
      <3>1. \A e \in told : e.fd \in epoll' /\ Drained(e)'
        BY <2>1, <2>2, Zenon DEF Drained, Alive
      <3>2. \A e, f \in told : e.fd = f.fd => e = f
        BY <2>2
      <3> QED
        BY <2>3, <3>1, <3>2, Zenon DEF EventInv
    <2>7. LoopInv'
      <3>1. Watched' = Watched /\ Gone("in")' = Gone("in") /\ Gone("out")' = Gone("out") /\ Gone("err")' = Gone("err")
        BY <2>1, Zenon DEF Watched, Gone
      <3> QED
        BY <2>1, <2>3, <3>1, Zenon DEF ProcessInv, LoopInv, Alive
    <2> QED
      BY <2>4, <2>5, <2>6, <2>7, Zenon DEF ProcessInv
  <1>6. CASE Timeout
    <2>1. /\ run' = [run EXCEPT !.pc = "waitpid"] /\ child' = [child EXCEPT !.term = TRUE] /\ killed' = TRUE
          /\ run.events = {}
          /\ inOpen' = inOpen /\ piped' = piped /\ limited' = limited /\ epoll' = epoll /\ exhausted' = exhausted
          /\ sent' = sent /\ stdout' = stdout /\ stderr' = stderr /\ pipe' = pipe
      BY <1>6, Zenon DEF Timeout, kill, setting
    <2>2. run' \in Runs /\ run'.events = {} /\ run'.pc = "waitpid"
      BY <1>0, <2>1, Zenon DEF Runs
    <2>3. /\ child' \in Children /\ child'.output = child.output /\ child'.read = child.read
          /\ child'.wrote = child.wrote /\ child'.err = child.err /\ child'.term
      BY <1>0, <2>1, Zenon DEF Children
    <2>4. ProcessTypeOK'
      BY <2>1, <2>2, <2>3, ProcessFacts, Zenon DEF ProcessTypeOK
    <2>5. StreamInv' /\ InputInv'
      BY <2>1, <2>3, StreamsRest, Zenon DEF InputInv
    <2>6. EventInv' /\ LoopInv'
      BY <1>0, <2>1, <2>2, Zenon DEF EventInv, LoopInv, Watched
    <2> QED
      BY <2>4, <2>5, <2>6, Zenon DEF ProcessInv
  <1>7. CASE Leave
    <2>1. /\ run' = [run EXCEPT !.pc = "waitpid"] /\ run.events = {} /\ run.pc = "loop" /\ ~Waiting
          /\ piped' = piped /\ limited' = limited /\ epoll' = epoll /\ exhausted' = exhausted /\ sent' = sent
          /\ inOpen' = inOpen /\ stdout' = stdout /\ stderr' = stderr /\ killed' = killed /\ pipe' = pipe /\ child' = child
      BY <1>7, Zenon DEF Leave, setting, parent
    <2>2. run' \in Runs /\ run'.events = {} /\ run'.pc = "waitpid"
      BY <1>0, <2>1, Zenon DEF Runs
    <2>3. ProcessTypeOK'
      BY <2>1, <2>2, ProcessFacts, Zenon DEF ProcessTypeOK
    <2>4. StreamInv' /\ InputInv'
      BY <2>1, StreamsRest, Zenon DEF ProcessInv, InputInv, Alive
    <2>5. ASSUME ~killed PROVE "out" \notin epoll /\ "err" \notin epoll
      <3>1. exhausted = Gone("in") + Gone("out") + Gone("err")
        BY <2>1, Zenon DEF ProcessInv, LoopInv
      <3>2. ~(exhausted < (IF piped THEN 3 ELSE 2))
        BY <2>1, <2>5, Zenon DEF Waiting
      <3>3. Gone("out") = 1 /\ Gone("err") = 1
        BY <3>1, <3>2, GoneOnce
      <3> QED
        BY <3>3, GoneOnce, Zenon
    <2>6. ~killed => pipe.out = <<>> /\ pipe.err = 0 /\ ~Alive
      BY <2>1, <2>5, Zenon DEF ProcessInv, LoopInv
    <2>7. EventInv' /\ LoopInv'
      BY <1>0, <2>1, <2>2, <2>6, Zenon DEF EventInv, LoopInv, Watched, Alive
    <2> QED
      BY <2>3, <2>4, <2>7, Zenon DEF ProcessInv
  <1>8. CASE WaitPid
    <2>1. /\ run' = [pc |-> "returned", events |-> {}, result |-> (child.pc = "exited" /\ child.code = 0 /\ ~killed)]
          /\ run.pc = "waitpid" /\ ~Alive /\ inOpen' = FALSE
          /\ piped' = piped /\ limited' = limited /\ epoll' = epoll /\ exhausted' = exhausted /\ sent' = sent
          /\ stdout' = stdout /\ stderr' = stderr /\ killed' = killed /\ pipe' = pipe /\ child' = child
      BY <1>8, Zenon DEF WaitPid, Return, setting
    <2>2. /\ run' \in Runs /\ run'.events = {} /\ run'.pc = "returned"
          /\ run'.result => child.pc = "exited" /\ child.code = 0 /\ ~killed
      BY <2>1, Zenon DEF Runs
    <2>3. ProcessTypeOK'
      BY <2>1, <2>2, ProcessFacts, Zenon DEF ProcessTypeOK
    <2>4. StreamInv' /\ InputInv'
      BY <2>1, StreamsRest, Zenon DEF ProcessInv, InputInv, Alive
    <2>5. ~killed => pipe.out = <<>> /\ pipe.err = 0
      BY <2>1, Zenon DEF ProcessInv, LoopInv
    <2>6. EventInv' /\ LoopInv'
      BY <1>0, <2>1, <2>2, <2>5, Zenon DEF EventInv, LoopInv, Watched
    <2> QED
      BY <2>3, <2>4, <2>6, Zenon DEF ProcessInv
  <1> QED
    BY <1>2, <1>3, <1>4, <1>5, <1>6, <1>7, <1>8, Zenon

\* write() takes no more than is left of the input, and than there is room for.
LEMMA FitsBoth ==
  ASSUME ProcessInv
  PROVE  /\ Fits \in Nat /\ sent + Fits \in 0 .. InputSize /\ pipe.in + Fits \in 0 .. PipeSize
         /\ child.read + (pipe.in + Fits) = sent + Fits
  <1>1. /\ sent \in Nat /\ InputSize \in Nat /\ PipeSize \in Nat /\ pipe.in \in Nat /\ child.read \in Nat
        /\ sent <= InputSize /\ pipe.in <= PipeSize /\ child.read + pipe.in = sent
    BY ProcessParts, ProcessSums, Zenon
  <1> DEFINE a == InputSize - sent
             b == PipeSize - pipe.in
  <1>2. a \in Nat /\ b \in Nat
    BY <1>1
  <1> HIDE DEF a, b
  <1>3. \E x \in {a, b} : \A y \in {a, b} : x <= y
    BY <1>2
  <1>4. Min({a, b}) \in {a, b} /\ \A y \in {a, b} : Min({a, b}) <= y
    BY <1>3, Zenon DEF Min
  <1>5. Fits \in Nat /\ Fits <= a /\ Fits <= b
    BY <1>2, <1>4, Zenon DEF Fits, a, b
  <1> HIDE DEF Fits
  <1> QED
    BY <1>1, <1>5 DEF a, b

\* A descriptor that is given up is counted once, and no event of it is left.
LEMMA GivesUp ==
  ASSUME ProcessInv, run.pc = "loop", NEW e \in run.events, UNCHANGED piped,
         epoll' = epoll \ {e.fd}, exhausted' = exhausted + 1
  PROVE  /\ exhausted' = Gone("in")' + Gone("out")' + Gone("err")' /\ exhausted' \in 0 .. 3
         /\ \A f \in run.events \ {e} : f.fd \in epoll'
  <1>1. e.fd \in epoll /\ epoll \subseteq Watched /\ e.fd \in Fds
    BY ProcessFacts, Zenon DEF ProcessInv, EventInv, LoopInv
  <1>2. exhausted = Gone("in") + Gone("out") + Gone("err")
    BY Zenon DEF ProcessInv, LoopInv
  <1>3. /\ Gone(e.fd) = 0 /\ Gone(e.fd)' = 1
        /\ \A fd \in Fds \ {e.fd} : Gone(fd)' = Gone(fd)
    BY <1>1, Zenon DEF Gone, Watched
  <1>4. /\ Gone("in") \in {0, 1} /\ Gone("out") \in {0, 1} /\ Gone("err") \in {0, 1}
    BY GoneOnce, Zenon
  <1>5. Gone("in")' + Gone("out")' + Gone("err")' = Gone("in") + Gone("out") + Gone("err") + 1
    <2>1. CASE e.fd = "in"
      BY <1>3, <1>4, <2>1 DEF Fds
    <2>2. CASE e.fd = "out"
      BY <1>3, <1>4, <2>2 DEF Fds
    <2>3. CASE e.fd = "err"
      BY <1>3, <1>4, <2>3 DEF Fds
    <2> QED
      BY <1>1, <2>1, <2>2, <2>3, Zenon DEF Fds
  <1>6. Gone("in")' \in {0, 1} /\ Gone("out")' \in {0, 1} /\ Gone("err")' \in {0, 1}
    BY Zenon DEF Gone
  <1>7. exhausted' = Gone("in")' + Gone("out")' + Gone("err")'
    BY <1>2, <1>5, Zenon
  <1>8. ASSUME NEW f \in run.events \ {e} PROVE f.fd \in epoll'
    BY <1>8, Zenon DEF ProcessInv, EventInv
  <1> QED
    BY <1>6, <1>7, <1>8

\* One event: what is there is read, some input is written, a descriptor is given up.
LEMMA EventKeeps ==
  ASSUME ProcessInv, HandleEvent
  PROVE  ProcessInv'
  <1>0. run \in Runs /\ child \in Children /\ pipe \in Pipes /\ stdout \in Ropes /\ run.pc = "loop"
    BY ProcessFacts, Zenon DEF HandleEvent
  <1>1. PICK e \in run.events : Read(e) \/ ReadFails(e) \/ Write(e) \/ HangUp(e)
    BY Zenon DEF HandleEvent
  <1>2. /\ Drained(e) /\ e.fd \in epoll /\ epoll \subseteq Watched
        /\ \A f \in run.events : f.fd \in epoll /\ Drained(f)
        /\ \A f, g \in run.events : f.fd = g.fd => f = g
        /\ exhausted = Gone("in") + Gone("out") + Gone("err")
        /\ "out" \notin epoll => pipe.out = <<>> /\ ~Alive
        /\ "err" \notin epoll => pipe.err = 0 /\ ~Alive
    BY <1>0, Zenon DEF ProcessInv, EventInv, LoopInv
  <1>3. ASSUME Handled(e)
        PROVE  run' \in Runs /\ run'.events = run.events \ {e} /\ run'.pc = "loop"
    BY <1>0, <1>3, Zenon DEF Handled, Runs
  <1>4. CASE Read(e)
    <2>1. /\ Handled(e) /\ "IN" \in e.flags /\ child' = child
          /\ piped' = piped /\ limited' = limited /\ epoll' = epoll /\ exhausted' = exhausted /\ sent' = sent
          /\ inOpen' = inOpen /\ killed' = killed
      BY <1>4, Zenon DEF Read, setting
    <2>2. e.fd \in {"out", "err"}
      BY <1>2, <2>1, ProcessFacts, Zenon DEF Drained, Fds
    <2>3. ASSUME stdout' \in Ropes, stderr' \in 0 .. ErrSize, pipe' \in Pipes, Len(pipe'.out) <= PipeSize,
                 StreamInv',
                 pipe.out = <<>> => pipe'.out = <<>>, pipe.err = 0 => pipe'.err = 0
          PROVE  ProcessInv'
      <3>1. ProcessTypeOK'
        BY <1>3, <2>1, <2>3, ProcessFacts, Zenon DEF ProcessTypeOK
      <3>2. EventInv'
        <4>1. \A f \in run.events : Drained(f)'
          BY <1>2, <2>1, <2>3, Zenon DEF Drained, Alive
        <4> QED
          BY <1>2, <1>3, <2>1, <4>1, Zenon DEF EventInv
      <3>3. LoopInv'
        <4>1. Watched' = Watched /\ Gone("in")' = Gone("in") /\ Gone("out")' = Gone("out") /\ Gone("err")' = Gone("err")
          BY <2>1, Zenon DEF Watched, Gone
        <4> QED
          BY <1>2, <1>3, <2>1, <2>3, <4>1, Zenon DEF LoopInv, Alive
      <3>4. InputInv'
        BY <2>1, Zenon DEF ProcessInv, InputInv, Alive
      <3> QED
        BY <2>3, <3>1, <3>2, <3>3, <3>4, Zenon DEF ProcessInv
    <2>4. CASE e.fd = "out"
      <3> DEFINE all == stdout.chars \o pipe.out
      <3>1. /\ stdout' = [chars |-> all, ends |-> Append(stdout.ends, Len(all))]
            /\ pipe' = [pipe EXCEPT !.out = <<>>] /\ stderr' = stderr
        BY <1>4, <2>4, Zenon DEF Read
      <3>2. all \in Seq(Char) /\ Len(all) \in Nat /\ all \o <<>> = all /\ <<>> \in Seq(Char)
        <4>1. all \in Seq(Char) /\ Len(all) \in Nat
          <5>1. stdout.chars \in Seq(Char) /\ pipe.out \in Seq(Char)
            BY ProcessParts, Zenon
          <5> QED
            BY <5>1, AppendGives, Zenon
        <4> HIDE DEF all
        <4> QED
          BY <4>1, NothingAppended, Zenon
      <3>3. all = SubSeq(child.output, 1, child.wrote) /\ child.wrote <= Len(child.output)
            /\ stderr + pipe.err = child.err /\ child.read + pipe.in = sent
        BY ProcessSums, Zenon
      <3> HIDE DEF all
      <3>4. stdout' \in Ropes /\ stdout'.chars = all
        BY <1>0, <3>1, <3>2 DEF Ropes
      <3>5. pipe' \in Pipes /\ pipe'.out = <<>> /\ pipe'.in = pipe.in /\ pipe'.err = pipe.err
        BY <1>0, <3>1, <3>2, Zenon DEF Pipes
      <3>6. StreamInv'
        BY <2>1, <3>1, <3>2, <3>3, <3>4, <3>5, Zenon DEF StreamInv, Written
      <3>7. Len(pipe'.out) <= PipeSize
        BY <3>5, ProcessAssumption
      <3> QED
        BY <2>3, <3>1, <3>4, <3>5, <3>6, <3>7, ProcessFacts, Zenon
    <2>5. CASE e.fd = "err"
      <3>1. stderr' = stderr + pipe.err /\ pipe' = [pipe EXCEPT !.err = 0] /\ stdout' = stdout
        BY <1>4, <2>5, Zenon DEF Read
      <3>2. stderr + pipe.err = child.err /\ child.err \in Nat /\ child.err <= ErrSize /\ ErrSize \in Nat /\ PipeSize \in Nat
        BY ProcessParts, ProcessSums, Zenon
      <3>3. stderr' \in 0 .. ErrSize /\ stderr' + 0 = child.err /\ 0 \in 0 .. PipeSize
        BY <3>1, <3>2
      <3>4. pipe' \in Pipes /\ pipe'.out = pipe.out /\ pipe'.in = pipe.in /\ pipe'.err = 0
        BY <1>0, <3>1, <3>3, Zenon DEF Pipes
      <3>5. StreamInv'
        BY <2>1, <3>1, <3>3, <3>4, ProcessSums, Zenon DEF StreamInv, Written
      <3> QED
        BY <2>3, <3>1, <3>3, <3>4, <3>5, ProcessFacts, Zenon
    <2> QED
      BY <2>2, <2>4, <2>5, Zenon
  <1>5. CASE ReadFails(e)
    <2>1. /\ run' = [run EXCEPT !.events = {}] /\ child' = [child EXCEPT !.term = TRUE] /\ killed' = TRUE
          /\ piped' = piped /\ limited' = limited /\ epoll' = epoll /\ exhausted' = exhausted /\ sent' = sent
          /\ inOpen' = inOpen /\ stdout' = stdout /\ stderr' = stderr /\ pipe' = pipe
      BY <1>5, Zenon DEF ReadFails, kill, setting
    <2>2. run' \in Runs /\ run'.events = {} /\ run'.pc = "loop"
      BY <1>0, <2>1, Zenon DEF Runs
    <2>3. /\ child' \in Children /\ child'.output = child.output /\ child'.read = child.read
          /\ child'.wrote = child.wrote /\ child'.err = child.err /\ child'.term /\ child'.pc = child.pc
      BY <1>0, <2>1, Zenon DEF Children
    <2>4. ProcessTypeOK'
      BY <2>1, <2>2, <2>3, ProcessFacts, Zenon DEF ProcessTypeOK
    <2>5. StreamInv' /\ InputInv'
      BY <2>1, <2>3, StreamsRest, Zenon DEF InputInv
    <2>6. Watched' = Watched /\ Gone("in")' = Gone("in") /\ Gone("out")' = Gone("out") /\ Gone("err")' = Gone("err")
      BY <2>1, Zenon DEF Watched, Gone
    <2>7. EventInv' /\ LoopInv'
      BY <1>2, <2>1, <2>2, <2>3, <2>6, Zenon DEF EventInv, LoopInv, Alive
    <2> QED
      BY <2>4, <2>5, <2>7, Zenon DEF ProcessInv
  <1>6. ASSUME Handled(e), UNCHANGED <<piped, child, killed>>,
               pipe'.out = pipe.out, pipe'.err = pipe.err,
               \/ epoll' = epoll /\ exhausted' = exhausted
               \/ /\ epoll' = epoll \ {e.fd} /\ exhausted' = exhausted + 1
                  /\ e.fd = "out" => pipe.out = <<>> /\ ~Alive
                  /\ e.fd = "err" => pipe.err = 0 /\ ~Alive
        PROVE  EventInv' /\ LoopInv' /\ exhausted' \in 0 .. 3 /\ epoll' \subseteq Fds
    <2>1. epoll' \subseteq epoll /\ epoll' \subseteq Fds /\ Watched' = Watched
      BY <1>6, ProcessFacts, Zenon DEF Watched
    <2>2. \A f \in run.events : Drained(f)'
      BY <1>2, <1>6, Zenon DEF Drained, Alive
    <2>3. /\ exhausted' = Gone("in")' + Gone("out")' + Gone("err")' /\ exhausted' \in 0 .. 3
          /\ \A f \in run.events \ {e} : f.fd \in epoll'
      <3>1. CASE epoll' = epoll /\ exhausted' = exhausted
        <4>1. Gone("in")' = Gone("in") /\ Gone("out")' = Gone("out") /\ Gone("err")' = Gone("err")
          BY <3>1, <2>1, Zenon DEF Gone
        <4> QED
          BY <1>2, <3>1, <4>1, ProcessFacts, Zenon
      <3>2. CASE epoll' = epoll \ {e.fd} /\ exhausted' = exhausted + 1
        BY <1>0, <1>6, <3>2, GivesUp, Zenon
      <3> QED
        BY <1>6, <3>1, <3>2, Zenon
    <2>4. EventInv'
      BY <1>2, <1>3, <1>6, <2>2, <2>3, Zenon DEF EventInv
    <2>5. /\ "out" \notin epoll' => pipe.out = <<>> /\ ~Alive
          /\ "err" \notin epoll' => pipe.err = 0 /\ ~Alive
      BY <1>2, <1>6, Zenon
    <2>6. LoopInv'
      BY <1>2, <1>3, <1>6, <2>1, <2>3, <2>5, Zenon DEF LoopInv, Alive
    <2> QED
      BY <2>1, <2>3, <2>4, <2>6, Zenon
  <1>7. CASE Write(e)
    <2>1. /\ Handled(e) /\ "IN" \notin e.flags /\ "OUT" \in e.flags /\ child' = child
          /\ piped' = piped /\ limited' = limited /\ stdout' = stdout /\ stderr' = stderr /\ killed' = killed
      BY <1>7, Zenon DEF Write, setting
    <2>2. e.fd = "in"
      BY <1>2, <2>1, Zenon DEF Drained
    <2>3. \/ sent' = sent + Fits /\ pipe' = [pipe EXCEPT !.in = pipe.in + Fits]
          \/ sent' = sent /\ pipe' = pipe
      BY <1>7, Zenon DEF Write
    <2>4. \/ epoll' = epoll /\ exhausted' = exhausted /\ inOpen' = inOpen
          \/ /\ epoll' = epoll \ {e.fd} /\ exhausted' = exhausted + 1 /\ inOpen' = FALSE
             /\ ~Alive \/ sent' = InputSize
      BY <1>7, <2>2, Zenon DEF Write, Exhaust
    <2>5. /\ pipe' \in Pipes /\ pipe'.out = pipe.out /\ pipe'.err = pipe.err
          /\ sent' \in 0 .. InputSize /\ child.read + pipe'.in = sent'
      <3>1. CASE sent' = sent + Fits /\ pipe' = [pipe EXCEPT !.in = pipe.in + Fits]
        <4>1. /\ pipe.in + Fits \in 0 .. PipeSize /\ sent + Fits \in 0 .. InputSize
              /\ child.read + (pipe.in + Fits) = sent + Fits
          BY FitsBoth, Zenon
        <4>2. pipe' \in Pipes /\ pipe'.out = pipe.out /\ pipe'.err = pipe.err /\ pipe'.in = pipe.in + Fits
          BY <1>0, <3>1, <4>1, Zenon DEF Pipes
        <4> QED
          BY <3>1, <4>1, <4>2, Zenon
      <3>2. CASE sent' = sent /\ pipe' = pipe
        BY <1>0, <3>2, ProcessFacts, ProcessSums, Zenon
      <3> QED
        BY <2>3, <3>1, <3>2, Zenon
    <2>6. EventInv' /\ LoopInv' /\ exhausted' \in 0 .. 3 /\ epoll' \subseteq Fds
      BY <1>6, <2>1, <2>2, <2>4, <2>5, Zenon
    <2>7. ProcessTypeOK'
      <3>1. inOpen' \in BOOLEAN /\ Len(pipe'.out) <= PipeSize
        BY <2>4, <2>5, ProcessFacts, Zenon
      <3> QED
        BY <1>3, <2>1, <2>5, <2>6, <3>1, ProcessFacts, Zenon DEF ProcessTypeOK
    <2>8. StreamInv'
      BY <2>1, <2>5, ProcessSums, Zenon DEF StreamInv, Written
    <2>9. InputInv'
      <3>1. /\ piped /\ Alive /\ ~inOpen /\ ~child.term => sent = InputSize
            /\ child.eof /\ ~child.term => child.read = InputSize
        BY Zenon DEF ProcessInv, InputInv
      <3>2. sent = InputSize => sent' = InputSize
        <4>1. /\ sent = InputSize => sent + Fits = InputSize
          <5>1. Fits \in Nat /\ sent + Fits \in 0 .. InputSize /\ sent \in Nat /\ InputSize \in Nat
            BY FitsBoth, ProcessParts, Zenon
          <5> HIDE DEF Fits
          <5> QED
            BY <5>1
        <4> QED
          BY <2>3, <4>1, Zenon
      <3> QED
        BY <2>1, <2>4, <3>1, <3>2, Zenon DEF InputInv, Alive
    <2> QED
      BY <2>6, <2>7, <2>8, <2>9, Zenon DEF ProcessInv
  <1>8. CASE HangUp(e)
    <2>1. /\ Handled(e) /\ "IN" \notin e.flags /\ child' = child
          /\ epoll' = epoll \ {e.fd} /\ exhausted' = exhausted + 1
          /\ piped' = piped /\ limited' = limited /\ sent' = sent /\ inOpen' = inOpen
          /\ stdout' = stdout /\ stderr' = stderr /\ killed' = killed /\ pipe' = pipe
      BY <1>8, Zenon DEF HangUp, Exhaust, setting
    <2>2. EventInv' /\ LoopInv' /\ exhausted' \in 0 .. 3 /\ epoll' \subseteq Fds
      BY <1>2, <1>6, <2>1, Zenon DEF Drained
    <2>3. ProcessTypeOK'
      BY <1>3, <2>1, <2>2, ProcessFacts, ZenonT(30) DEF ProcessTypeOK
    <2>4. StreamInv' /\ InputInv'
      BY <2>1, StreamsRest, Zenon DEF ProcessInv, InputInv, Alive
    <2> QED
      BY <2>2, <2>3, <2>4, Zenon DEF ProcessInv
  <1> QED
    BY <1>1, <1>4, <1>5, <1>7, <1>8, Zenon

\* Every step keeps the invariant.
LEMMA ProcessInvStep == ProcessInv /\ [ProcessNext]_processVars => ProcessInv'
  <1> SUFFICES ASSUME ProcessInv, [ProcessNext]_processVars PROVE ProcessInv'
    BY Zenon
  <1>1. CASE ProcessNext
    BY <1>1, ChildKeeps, RunKeeps, EventKeeps, Zenon DEF ProcessNext, Run
  <1>2. CASE UNCHANGED processVars
    <2>1. /\ piped' = piped /\ limited' = limited /\ run' = run /\ epoll' = epoll /\ exhausted' = exhausted
          /\ sent' = sent /\ inOpen' = inOpen /\ stdout' = stdout /\ stderr' = stderr /\ killed' = killed
          /\ pipe' = pipe /\ child' = child
      BY <1>2, Zenon DEF processVars
    <2>2. ProcessTypeOK'
      BY <2>1, ProcessFacts, Zenon DEF ProcessTypeOK
    <2>3. StreamInv' /\ InputInv'
      BY <2>1, StreamsRest, Zenon DEF ProcessInv, InputInv, Alive
    <2>4. EventInv' /\ LoopInv'
      BY <2>1, LoopRests, Zenon DEF setting, Alive
    <2> QED
      BY <2>2, <2>3, <2>4, Zenon DEF ProcessInv
  <1> QED
    BY <1>1, <1>2, Zenon

\* Descriptors, pipes, the rope and the child keep their types: no more is counted,
\* sent or read than there is, however the parent and the child interleave.
THEOREM ProcessIsTyped == ProcessSpec => []ProcessTypeOK
  <1>1. ProcessInv => ProcessTypeOK
    BY Zenon DEF ProcessInv
  <1> QED
    BY <1>1, ProcessInvInit, ProcessInvStep, PTL DEF ProcessSpec

\* When Run() returns true, stdout and stderr are all that the child wrote and the
\* child has ended well, for every output, size of a pipe and way of handling events.
THEOREM ProcessResult == ProcessSpec => []ResultIsComplete
  <1>1. ProcessInv => ResultIsComplete
    <2> SUFFICES ASSUME ProcessInv, run.pc = "returned", run.result
                 PROVE  /\ child.pc = "exited" /\ child.code = 0
                        /\ stdout.chars = Written /\ stderr = child.err
      BY Zenon DEF ResultIsComplete
    <2>1. pipe.out = <<>> /\ pipe.err = 0 /\ child.pc = "exited" /\ child.code = 0
      BY Zenon DEF ProcessInv, LoopInv
    <2>2. stdout.chars = Written
      <3>1. stdout.chars \o <<>> = Written
        BY <2>1, ProcessSums, Zenon DEF Written
      <3>2. stdout.chars \in Seq(Char)
        BY ProcessParts, Zenon
      <3> QED
        BY <3>1, <3>2, NothingAppended, Zenon
    <2>3. stderr = child.err
      <3>1. stderr + 0 = child.err /\ stderr \in Nat
        BY <2>1, ProcessSums, ProcessParts, Zenon
      <3> QED
        BY <3>1
    <2> QED
      BY <2>1, <2>2, <2>3, Zenon
  <1> QED
    BY <1>1, ProcessInvInit, ProcessInvStep, PTL DEF ProcessSpec

\* A child that sees the end of its input has read all of it, unless it is being
\* killed: in[1] is closed when everything is sent, or when nobody reads it.
THEOREM ProcessInput == ProcessSpec => []InputComplete
  <1>1. ProcessInv => InputComplete
    BY Zenon DEF ProcessInv, InputInv, InputComplete
  <1> QED
    BY <1>1, ProcessInvInit, ProcessInvStep, PTL DEF ProcessSpec
-----------------------------------------------------------------------------
(* CompilationCache.                                                       *)

Two == <<"src", "h1">>
Three == <<"src", "h1", "h2">>
Files == [File -> Version]

\* Elementary facts about the two lists of headers and the contents they stand for.
LEMMA ContentsOf ==
  ASSUME NEW c \in Files
  PROVE  /\ DOMAIN Contents(Two, c) = 1 .. 2
         /\ DOMAIN Contents(Three, c) = 1 .. 3
         /\ Contents(Two, c)[1] = c["src"] /\ Contents(Two, c)[2] = c["h1"]
         /\ Contents(Three, c)[1] = c["src"] /\ Contents(Three, c)[2] = c["h1"]
<1>1. Len(Two) = 2 /\ Two[1] = "src" /\ Two[2] = "h1"
  BY Zenon DEF Two
<1>2. Len(Three) = 3 /\ Three[1] = "src" /\ Three[2] = "h1" /\ Three[3] = "h2"
  BY Zenon DEF Three
<1> QED  BY <1>1, <1>2 DEF Contents

\* What the compiler reads is one of the two lists, and the version of h1 decides.
LEMMA HeadersOf ==
  ASSUME NEW c
  PROVE  /\ Headers(c) = IF c["h1"] \in Includes THEN Three ELSE Two
         /\ Preprocess(c) = Contents(Headers(c), c)
  BY Zenon DEF Headers, Two, Three, Preprocess

\* The two lists are different, and neither is empty.
LEMMA ListsDiffer == Two # Three /\ Two # <<>> /\ Three # <<>>
<1>1. Len(Two) = 2 /\ Len(Three) = 3 /\ Len(<<>>) = 0
  BY Zenon DEF Two, Three
<1> QED  BY <1>1

\* A list of headers whose contents are those of some preprocessed source is the list
\* of the files themselves.
LEMMA ListIsRight ==
  ASSUME NEW c \in Files, NEW d \in Files, NEW hs \in {Two, Three},
         Contents(hs, c) = Preprocess(d)
  PROVE  hs = Headers(c) /\ hs = Headers(d)
<1>1. Headers(d) \in {Two, Three} /\ Preprocess(d) = Contents(Headers(d), d)
  BY HeadersOf, Zenon
<1>2. hs = Headers(d)
  <2>1. 3 \in 1 .. 3 /\ 3 \notin 1 .. 2
    OBVIOUS
  <2>2. DOMAIN Contents(hs, c) = DOMAIN Contents(Headers(d), d)
    BY <1>1, Zenon
  <2> QED  BY <1>1, <2>1, <2>2, ContentsOf
<1>3. c["h1"] = d["h1"]
  <2>1. Contents(hs, c)[2] = Contents(hs, d)[2]
    BY <1>1, <1>2, Zenon
  <2> QED  BY <2>1, ContentsOf, Zenon
<1>4. Headers(c) = Headers(d)
  BY <1>3, HeadersOf, Zenon
<1> QED  BY <1>2, <1>4, Zenon

\* A handled hash tells which headers were read.
LEMMA HashTellsHeaders ==
  ASSUME NEW c \in Files, NEW d \in Files, Preprocess(c) = Preprocess(d)
  PROVE  Headers(c) = Headers(d)
<1>1. Headers(c) \in {Two, Three} /\ Preprocess(c) = Contents(Headers(c), c)
  BY HeadersOf, Zenon
<1> QED  BY <1>1, ListIsRight, Zenon
-----------------------------------------------------------------------------
\* What was compiled from some state of the files, and what was read for it.
Made(k) == \E c \in Files : k = Preprocess(c)
ReadFor(k, hs) == \E c \in Files : k = Preprocess(c) /\ hs = Headers(c)

\* An entry of the simple cache is the object of its hash, with the headers it was made
\* of or without any.
SimpleInv ==
  \A k \in DOMAIN simple : /\ Made(k) /\ simple[k].object = k
                           /\ simple[k].deps = <<>> \/ ReadFor(k, simple[k].deps)

\* The direct cache leads from contents to the hash of the same contents.
DirectInv ==
  /\ \A k \in DOMAIN manifest : manifest[k] \in {Two, Three}
  /\ \A k \in DOMAIN database : database[k] = k[2]

Jobs == [pc : {"idle", "direct", "simple", "compile"}, deps : BOOLEAN,
         source : {<<>>} \union {Preprocess(c) : c \in Files}, headers : {<<>>, Two, Three}]

\* A running job has the files as they are.
JobInv ==
  /\ job \in [Job -> Jobs]
  /\ \A j \in Job : job[j].pc \in {"simple", "compile"} =>
       job[j].source = Preprocess(content) /\ job[j].headers = Headers(content)

CacheInv == content \in Files /\ SimpleInv /\ DirectInv /\ JobInv /\ RestoredIsFresh

\* The invariant holds at the start.
LEMMA CacheInvInit == CacheInit => CacheInv
<1> SUFFICES ASSUME CacheInit
             PROVE  CacheInv
  BY Zenon
<1>1. content \in Files
  BY CacheAssumption DEF CacheInit, Files, Version
<1>2. DOMAIN simple = {} /\ DOMAIN manifest = {} /\ DOMAIN database = {}
  BY DEF CacheInit
<1>3. restored.object = restored.asked
  BY Zenon DEF CacheInit, Nothing
<1>4. JobInv
  BY Zenon DEF CacheInit, Idle, JobInv, Jobs
<1> QED  BY <1>1, <1>2, <1>3, <1>4, Zenon DEF CacheInv, SimpleInv, DirectInv, RestoredIsFresh

\* An update of the direct cache with the headers of the files as they are.
LEMMA UpdateKeeps ==
  ASSUME Dated = {}, CacheInv, NEW k, NEW hs, k = Preprocess(content),
         hs = <<>> \/ hs = Headers(content), UpdateDirectCache(k, hs)
  PROVE  DirectInv'
<1>1. CASE hs = <<>>
  BY <1>1, Zenon DEF UpdateDirectCache, CacheInv, DirectInv
<1>2. CASE hs = Headers(content) /\ hs # <<>>
  <2>1. Hashable(hs) = hs
    BY Zenon DEF Hashable
  <2>2. HashWithHeaders(hs, content) = k
    BY <1>2, HeadersOf, Zenon DEF HashWithHeaders
  <2>3. hs \in {Two, Three}
    BY <1>2, HeadersOf, Zenon
  <2>4. database' = Put(database, <<UnhandledHash, k>>, k) /\ manifest' = Put(manifest, UnhandledHash, hs)
    BY <1>2, <2>1, <2>2, Zenon DEF UpdateDirectCache
  <2>5. \A x \in DOMAIN manifest' : manifest'[x] \in {Two, Three}
    BY <2>3, <2>4, Zenon DEF Put, CacheInv, DirectInv
  <2>6. <<UnhandledHash, k>>[2] = k
    BY Zenon
  <2>7. \A x \in DOMAIN database' : database'[x] = x[2]
    BY <2>4, <2>6, Zenon DEF Put, CacheInv, DirectInv
  <2> QED  BY <2>5, <2>7, Zenon DEF DirectInv
<1> QED  BY <1>1, <1>2, Zenon

\* What the direct cache finds is what the compiler would make of the files.
LEMMA DirectIsRight ==
  ASSUME CacheInv, NEW k \in FindDirect
  PROVE  k \in DOMAIN simple /\ k = Preprocess(content)
<1> DEFINE hs == manifest[UnhandledHash]
           key == <<UnhandledHash, HashWithHeaders(hs, content)>>
<1>1. /\ UnhandledHash \in DOMAIN manifest /\ key \in DOMAIN database
      /\ k = database[key] /\ k \in DOMAIN simple
  BY Zenon DEF FindDirect
<1>2. hs \in {Two, Three}
  BY <1>1, Zenon DEF CacheInv, DirectInv
<1>3. k = Contents(hs, content)
  <2>1. database[key] = key[2]
    BY <1>1, Zenon DEF CacheInv, DirectInv
  <2> QED  BY <1>1, <2>1, Zenon DEF HashWithHeaders
<1>4. PICK d \in Files : k = Preprocess(d)
  BY <1>1, Zenon DEF CacheInv, SimpleInv, Made
<1>5. hs = Headers(content)
  BY <1>2, <1>3, <1>4, ListIsRight, Zenon DEF CacheInv
<1> QED  BY <1>1, <1>3, <1>5, HeadersOf, Zenon

\* What is known of an entry.
LEMMA Entry ==
  ASSUME SimpleInv, NEW k \in DOMAIN simple
  PROVE  simple[k].object = k /\ (simple[k].deps = <<>> \/ ReadFor(k, simple[k].deps))
  BY Zenon DEF SimpleInv

\* A job that ends or is started knows nothing of the files.
LEMMA JobEnds ==
  ASSUME JobInv, UNCHANGED content, NEW j \in Job, NEW r \in Jobs, r.pc \in {"idle", "direct"},
         job' = [job EXCEPT ![j] = r]
  PROVE  JobInv'
<1>1. \A i \in Job : job'[i] = IF i = j THEN r ELSE job[i]
  BY Zenon DEF JobInv
<1>2. job' \in [Job -> Jobs]
  BY Zenon DEF JobInv
<1>3. ASSUME NEW i \in Job, job'[i].pc \in {"simple", "compile"}
      PROVE  job'[i].source = Preprocess(content) /\ job'[i].headers = Headers(content)
  BY <1>1, <1>3, Zenon DEF JobInv
<1>4. Preprocess(content)' = Preprocess(content) /\ Headers(content)' = Headers(content)
  BY Zenon DEF Preprocess, Headers, Contents
<1> QED  BY <1>2, <1>3, <1>4, Zenon DEF JobInv

\* Every step keeps the invariant.
LEMMA CacheInvNext ==
  ASSUME Dated = {}, ~BusyEdits, CacheInv, [CacheNext]_cacheVars
  PROVE  CacheInv'
<1>0. JobInv /\ content \in Files /\ Idle \in Jobs
  BY Zenon DEF CacheInv, Jobs, Idle
<1>1. SimpleInv /\ DirectInv /\ RestoredIsFresh
  BY Zenon DEF CacheInv
<1>2. ASSUME content' \in Files, SimpleInv', DirectInv', JobInv', RestoredIsFresh'
      PROVE  CacheInv'
  BY <1>2, Zenon DEF CacheInv
<1>3. ASSUME NEW f \in File, Edit(f)
      PROVE  CacheInv'
  <2>1. content' \in Files
    BY <1>0, <1>3, CacheAssumption DEF Edit, Files, Version
  <2>2. \A j \in Job : job[j].pc = "idle"
    BY <1>3, Zenon DEF Edit
  <2>3. JobInv'
    BY <1>0, <1>3, <2>2, Zenon DEF JobInv, Edit
  <2>4. SimpleInv' /\ DirectInv' /\ RestoredIsFresh'
    BY <1>1, <1>3, Zenon DEF Edit, SimpleInv, DirectInv, RestoredIsFresh
  <2> QED  BY <1>2, <2>1, <2>3, <2>4, Zenon
<1>4. ASSUME NEW j \in Job, Start(j)
      PROVE  CacheInv'
  <2>1. PICK d \in BOOLEAN : job' = [job EXCEPT ![j] = [Idle EXCEPT !.pc = "direct", !.deps = d]]
    BY <1>4, Zenon DEF Start
  <2>2. [Idle EXCEPT !.pc = "direct", !.deps = d] \in Jobs
        /\ [Idle EXCEPT !.pc = "direct", !.deps = d].pc = "direct"
    BY Zenon DEF Idle, Jobs
  <2>3. UNCHANGED <<content, simple, manifest, database, restored>>
    BY <1>4, Zenon DEF Start
  <2>4. JobInv'
    BY <1>0, <2>1, <2>2, <2>3, JobEnds, Zenon
  <2>5. SimpleInv' /\ DirectInv' /\ RestoredIsFresh'
    BY <1>1, <2>3, Zenon DEF SimpleInv, DirectInv, RestoredIsFresh
  <2> QED  BY <1>0, <1>2, <2>3, <2>4, <2>5, Zenon
<1>5. ASSUME NEW j \in Job, DirectHit(j)
      PROVE  CacheInv'
  <2>1. PICK k \in FindDirect : Restore(k, Preprocess(content))
    BY <1>5, Zenon DEF DirectHit
  <2>2. k \in DOMAIN simple /\ k = Preprocess(content)
    BY DirectIsRight, Zenon
  <2>3. simple[k].object = k
    BY <1>1, <2>2, Entry, Zenon
  <2>4. RestoredIsFresh'
    BY <2>1, <2>2, <2>3, Zenon DEF Restore, RestoredIsFresh
  <2>5. UNCHANGED <<content, simple, manifest, database>> /\ job' = [job EXCEPT ![j] = Idle]
    BY <1>5, Zenon DEF DirectHit
  <2>6. JobInv'
    BY <1>0, <2>5, JobEnds, Zenon DEF Idle
  <2>7. SimpleInv' /\ DirectInv'
    BY <1>1, <2>5, Zenon DEF SimpleInv, DirectInv
  <2> QED  BY <1>0, <1>2, <2>4, <2>5, <2>6, <2>7, Zenon
<1>6. ASSUME NEW j \in Job, DirectMiss(j)
      PROVE  CacheInv'
  <2>1. UNCHANGED <<content, simple, manifest, database, restored>>
    BY <1>6, Zenon DEF DirectMiss
  <2>2. Preprocess(content) \in {Preprocess(c) : c \in Files} /\ Headers(content) \in {Two, Three}
    BY <1>0, HeadersOf, Zenon
  <2>3. job' = [job EXCEPT ![j].pc = "simple", ![j].source = Preprocess(content),
                        ![j].headers = Headers(content)]
    BY <1>6, Zenon DEF DirectMiss
  <2>4. job' \in [Job -> Jobs]
    BY <1>0, <2>2, <2>3, ZenonT(30) DEF JobInv, Jobs
  <2>5. \A i \in Job \ {j} : job'[i] = job[i]
    BY <1>0, <2>3, Zenon DEF JobInv
  <2>6. job'[j].source = Preprocess(content) /\ job'[j].headers = Headers(content)
    BY <1>0, <2>3, Zenon DEF JobInv, Jobs
  <2>7. Preprocess(content)' = Preprocess(content) /\ Headers(content)' = Headers(content)
    BY <2>1, Zenon DEF Preprocess, Headers, Contents
  <2>8. JobInv'
    BY <1>0, <2>4, <2>5, <2>6, <2>7, Zenon DEF JobInv
  <2>9. SimpleInv' /\ DirectInv' /\ RestoredIsFresh'
    <3>1. SimpleInv'
      BY <1>1, <2>1, Zenon DEF SimpleInv
    <3>2. DirectInv'
      BY <1>1, <2>1, Zenon DEF DirectInv
    <3>3. RestoredIsFresh'
      BY <1>1, <2>1, Zenon DEF RestoredIsFresh
    <3> QED  BY <3>1, <3>2, <3>3, Zenon
  <2> QED  BY <1>0, <1>2, <2>1, <2>8, <2>9, Zenon
<1>7. ASSUME NEW j \in Job, SimpleHit(j)
      PROVE  CacheInv'
  <2> DEFINE hash == job[j].source
  <2>1. /\ UNCHANGED <<content, simple>> /\ job' = [job EXCEPT ![j] = Idle]
        /\ job[j].pc = "simple" /\ hash \in DOMAIN simple /\ Restore(hash, hash)
        /\ UpdateDirectCache(hash, simple[hash].deps)
    BY <1>7, Zenon DEF SimpleHit
  <2>2. hash = Preprocess(content)
    BY <1>0, <2>1, Zenon DEF JobInv
  <2>3. simple[hash].deps = <<>> \/ simple[hash].deps = Headers(content)
    <3>1. CASE ReadFor(hash, simple[hash].deps)
      <4>1. PICK c \in Files : hash = Preprocess(c) /\ simple[hash].deps = Headers(c)
        BY <3>1, Zenon DEF ReadFor
      <4>2. Headers(c) = Headers(content)
        BY <1>0, <2>2, <4>1, HashTellsHeaders, Zenon
      <4> QED  BY <4>1, <4>2, Zenon
    <3>2. simple[hash].deps = <<>> \/ ReadFor(hash, simple[hash].deps)
      BY <1>1, <2>1, Entry, Zenon
    <3> QED  BY <3>1, <3>2, Zenon
  <2>4. DirectInv'
    BY <2>1, <2>2, <2>3, UpdateKeeps, Zenon
  <2>5. RestoredIsFresh'
    <3>1. simple[hash].object = hash
      BY <1>1, <2>1, Entry, Zenon
    <3> QED  BY <2>1, <3>1, Zenon DEF Restore, RestoredIsFresh
  <2>6. JobInv'
    BY <1>0, <2>1, JobEnds, Zenon DEF Idle
  <2>7. SimpleInv'
    BY <1>1, <2>1, Zenon DEF SimpleInv
  <2> QED  BY <1>0, <1>2, <2>1, <2>4, <2>5, <2>6, <2>7, ZenonT(30)
<1>8. ASSUME NEW j \in Job, SimpleMiss(j)
      PROVE  CacheInv'
  <2>1. UNCHANGED <<content, simple, manifest, database, restored>>
        /\ job' = [job EXCEPT ![j].pc = "compile"] /\ job[j].pc = "simple"
    BY <1>8, Zenon DEF SimpleMiss
  <2>2. job' \in [Job -> Jobs]
    BY <1>0, <2>1, ZenonT(30) DEF JobInv, Jobs
  <2>3. \A i \in Job : /\ job'[i].source = job[i].source /\ job'[i].headers = job[i].headers
                       /\ i # j => job'[i].pc = job[i].pc
    BY <1>0, <2>1, Zenon DEF JobInv, Jobs
  <2>4. Preprocess(content)' = Preprocess(content) /\ Headers(content)' = Headers(content)
    BY <2>1, Zenon DEF Preprocess, Headers, Contents
  <2>5. JobInv'
    BY <1>0, <2>1, <2>2, <2>3, <2>4 DEF JobInv
  <2>6. SimpleInv' /\ DirectInv' /\ RestoredIsFresh'
    BY <1>1, <2>1, Zenon DEF SimpleInv, DirectInv, RestoredIsFresh
  <2> QED  BY <1>0, <1>2, <2>1, <2>5, <2>6, Zenon
<1>9. ASSUME NEW j \in Job, Compile(j)
      PROVE  CacheInv'
  <2>1. PICK where \in Where :
          /\ job[j].pc = "compile"
          /\ simple' = Put(simple, job[j].source, [object |-> Object(j, where),
                                                  deps |-> Deps(j, where)])
          /\ UpdateDirectCache(job[j].source, Deps(j, where))
          /\ job' = [job EXCEPT ![j] = Idle]
          /\ UNCHANGED <<content, restored>>
    BY <1>9, Zenon DEF Compile
  <2>2. job[j].source = Preprocess(content) /\ job[j].headers = Headers(content)
    BY <1>0, <2>1, Zenon DEF JobInv
  <2>3. Object(j, where) = Preprocess(content)
    BY <2>2, Zenon DEF Object
  <2>4. Deps(j, where) = <<>> \/ Deps(j, where) = Headers(content)
    BY <2>2 DEF Deps
  <2>5. DirectInv'
    BY <2>1, <2>2, <2>4, UpdateKeeps, Zenon
  <2>6. SimpleInv'
    <3> DEFINE k == job[j].source
    <3>1. Made(k) /\ (Deps(j, where) = <<>> \/ ReadFor(k, Deps(j, where)))
      BY <1>0, <2>2, <2>4, Zenon DEF Made, ReadFor
    <3>2. \A x \in DOMAIN simple' :
            \/ x = k /\ simple'[x] = [object |-> k, deps |-> Deps(j, where)]
            \/ x \in DOMAIN simple /\ simple'[x] = simple[x]
      BY <2>1, <2>2, <2>3, ZenonT(30) DEF Put
    <3>3. \A x \in DOMAIN simple : /\ Made(x) /\ simple[x].object = x
                                   /\ simple[x].deps = <<>> \/ ReadFor(x, simple[x].deps)
      BY <1>1, Zenon DEF SimpleInv
    <3> HIDE DEF k
    <3>4. ASSUME NEW x \in DOMAIN simple'
          PROVE  /\ Made(x) /\ simple'[x].object = x
                 /\ simple'[x].deps = <<>> \/ ReadFor(x, simple'[x].deps)
      <4>1. CASE x = k /\ simple'[x] = [object |-> k, deps |-> Deps(j, where)]
        BY <3>1, <4>1
      <4>2. CASE x \in DOMAIN simple /\ simple'[x] = simple[x]
        BY <3>3, <4>2, Zenon
      <4> QED  BY <3>2, <4>1, <4>2, Zenon
    <3> QED  BY <3>4, Zenon DEF SimpleInv, Made, ReadFor
  <2>7. JobInv' /\ RestoredIsFresh'
    BY <1>0, <1>1, <2>1, JobEnds, ZenonT(30) DEF Idle, RestoredIsFresh
  <2> QED  BY <1>0, <1>2, <2>1, <2>5, <2>6, <2>7, Zenon
<1>10. CASE UNCHANGED cacheVars
  BY <1>10, Zenon DEF cacheVars, CacheInv, SimpleInv, DirectInv, JobInv, RestoredIsFresh, Preprocess, Headers, Contents
<1> QED  BY <1>3, <1>4, <1>5, <1>6, <1>7, <1>8, <1>9, <1>10, Zenon DEF CacheNext

\* Whatever is edited between compilations, restored or compiled here or elsewhere, in
\* whatever order and by however many jobs: what the caches restore is what the compiler
\* would make.
THEOREM CacheIsSound ==
  ASSUME Dated = {}, ~BusyEdits
  PROVE  CacheSpec => []RestoredIsFresh
<1>1. CacheInv /\ [CacheNext]_cacheVars => CacheInv'
  BY CacheInvNext, Zenon
<1>2. CacheInv => RestoredIsFresh
  BY Zenon DEF CacheInv
<1> QED  BY CacheInvInit, <1>1, <1>2, PTL DEF CacheSpec
=============================================================================
