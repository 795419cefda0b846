------------------------------ MODULE Process ------------------------------
(***************************************************************************)
(* Running a compiler: base/process_impl_linux.cc and process_impl.cc.     *)
(*                                                                         *)
(* Run() forks a child whose stdin (only in the form with an input),       *)
(* stdout and stderr are pipes, serves the three pipes from one epoll      *)
(* loop, and waits for the child.  The child is external: it reads and     *)
(* writes in its own time and in pieces of any size, may exit early, and   *)
(* may hang if Run() has a timeout.  Pipes hold PipeSize characters.       *)
(* Only the characters of stdout matter; of stdin and stderr the numbers   *)
(* are kept.  A signal that interrupts the wait (EINTR) changes nothing.   *)
(* What is made of the rope that stdout is read into is in Output.         *)
(***************************************************************************)
EXTENDS Naturals, Sequences, FiniteSetsExt

CONSTANTS Char,
          Outputs,      \* what a child may be going to write to stdout
          InputSize,    \* input.size()
          ErrSize,      \* what it is going to write to stderr
          PipeSize

ASSUME ProcessAssumption ==
  /\ Outputs # {} /\ Outputs \subseteq Seq(Char)
  /\ InputSize \in Nat /\ ErrSize \in Nat /\ PipeSize \in Nat \ {0}

VARIABLES
  piped,      \* Run() was given an input
  limited,    \* sec_timeout is not UNLIMITED
  run,        \* where Run() is, the events it still has to handle, its result
  epoll,      \* descriptors the epoll watches
  exhausted,  \* exhausted_fds
  sent,       \* stdin_size
  inOpen,     \* in[1] is open
  stdout,     \* what was read from out[0], and where the pieces of the rope end
  stderr,     \* how much was read from err[0]
  killed,     \* killed_
  pipe,       \* what is in the pipes: numbers for in and err, characters for out
  child       \* the child: external

processVars == <<piped, limited, run, epoll, exhausted, sent, inOpen, stdout, stderr,
                 killed, pipe, child>>

parent == <<epoll, exhausted, sent, inOpen, stdout, stderr, killed>>
setting == <<piped, limited>>

\* Run() without an input is the same loop over two descriptors.
Watched == IF piped THEN {"in", "out", "err"} ELSE {"out", "err"}
Waiting == exhausted < (IF piped THEN 3 ELSE 2) /\ ~killed
Written == SubSeq(child.output, 1, child.wrote)
Alive   == child.pc \in {"running", "stuck"}

ProcessInit ==
  /\ piped \in BOOLEAN /\ limited \in BOOLEAN
  /\ run = [pc |-> "start", events |-> {}, result |-> FALSE]
  /\ epoll = {} /\ exhausted = 0 /\ sent = 0 /\ inOpen = FALSE
  /\ stdout = [chars |-> <<>>, ends |-> <<>>] /\ stderr = 0 /\ killed = FALSE
  /\ pipe = [in |-> 0, out |-> <<>>, err |-> 0]
  /\ \E output \in Outputs :
       child = [pc |-> "none", code |-> 0, term |-> FALSE, eof |-> FALSE,
                output |-> output, read |-> 0, wrote |-> 0, err |-> 0]

-----------------------------------------------------------------------------
(* The child.                                                              *)

ChildReads ==
  /\ child.pc = "running" /\ piped /\ pipe.in > 0
  /\ \E n \in 1 .. pipe.in :
       /\ child' = [child EXCEPT !.read = @ + n]
       /\ pipe' = [pipe EXCEPT !.in = @ - n]
  /\ UNCHANGED <<setting, run, parent>>

ChildSeesEOF ==
  /\ child.pc = "running" /\ piped /\ ~child.eof
  /\ pipe.in = 0 /\ ~inOpen
  /\ child' = [child EXCEPT !.eof = TRUE]
  /\ UNCHANGED <<setting, run, parent, pipe>>

ChildWrites ==
  /\ child.pc = "running"
  /\ \E n \in 1 .. PipeSize - Len(pipe.out) :
       /\ child.wrote + n <= Len(child.output)
       /\ pipe' = [pipe EXCEPT !.out =
                     @ \o SubSeq(child.output, child.wrote + 1, child.wrote + n)]
       /\ child' = [child EXCEPT !.wrote = @ + n]
  /\ UNCHANGED <<setting, run, parent>>

ChildComplains ==
  /\ child.pc = "running" /\ child.err < ErrSize /\ pipe.err < PipeSize
  /\ pipe' = [pipe EXCEPT !.err = @ + 1]
  /\ child' = [child EXCEPT !.err = @ + 1]
  /\ UNCHANGED <<setting, run, parent>>

ChildExit(code) ==
  /\ child' = [child EXCEPT !.pc = "exited", !.code = code]
  /\ UNCHANGED <<setting, run, parent, pipe>>

\* It has read its input to the end and written all of its output.
ChildFinishes ==
  /\ child.pc = "running"
  /\ child.wrote = Len(child.output) /\ child.err = ErrSize
  /\ piped => child.eof
  /\ ChildExit(0)

ChildQuits == child.pc = "running" /\ \E code \in {0, 1} : ChildExit(code)

ChildHangs ==
  /\ child.pc = "running" /\ limited
  /\ child' = [child EXCEPT !.pc = "stuck"]
  /\ UNCHANGED <<setting, run, parent, pipe>>

ChildDies ==
  /\ Alive /\ child.term
  /\ child' = [child EXCEPT !.pc = "signalled"]
  /\ UNCHANGED <<setting, run, parent, pipe>>

-----------------------------------------------------------------------------
(* The parent.                                                             *)

Return(result) ==
  run' = [pc |-> "returned", events |-> {}, result |-> result]

\* A pipe can't be created, or fork() fails.
SetupFails ==
  /\ run.pc = "start"
  /\ Return(FALSE)
  /\ UNCHANGED <<setting, parent, pipe, child>>

\* After the fork the ends of the child are closed, and the others watched.
Fork ==
  /\ run.pc = "start"
  /\ run' = [run EXCEPT !.pc = "loop"]
  /\ child' = [child EXCEPT !.pc = "running"]
  /\ inOpen' = piped
  /\ epoll' = Watched
  /\ UNCHANGED <<setting, exhausted, sent, stdout, stderr, killed, pipe>>

\* The epoll can't be created, extended or waited on: nobody waits for the child.
EpollFails ==
  /\ run.pc = "loop" /\ run.events = {}
  /\ Waiting
  /\ Return(FALSE)
  /\ child' = [child EXCEPT !.term = TRUE]
  /\ inOpen' = FALSE
  /\ UNCHANGED <<setting, epoll, exhausted, sent, stdout, stderr, killed, pipe>>

\* What epoll says of a descriptor.  The ends of the child close when it ends.
Flags(fd) ==
  CASE fd = "in"  -> (IF pipe.in < PipeSize THEN {"OUT"} ELSE {})
                       \cup (IF Alive THEN {} ELSE {"ERR"})
    [] fd = "out" -> (IF pipe.out # <<>> THEN {"IN"} ELSE {})
                       \cup (IF Alive THEN {} ELSE {"HUP"})
    [] fd = "err" -> (IF pipe.err > 0 THEN {"IN"} ELSE {})
                       \cup (IF Alive THEN {} ELSE {"HUP"})

Ready == {fd \in epoll : Flags(fd) # {}}

\* while (exhausted_fds < 3 && !killed_): all that is ready.
Wait ==
  /\ run.pc = "loop" /\ run.events = {}
  /\ Waiting
  /\ Ready # {}
  /\ run' = [run EXCEPT !.events = {[fd |-> fd, flags |-> Flags(fd)] : fd \in Ready}]
  /\ UNCHANGED <<setting, parent, pipe, child>>

kill ==
  /\ child' = [child EXCEPT !.term = TRUE]
  /\ killed' = TRUE

Timeout ==
  /\ run.pc = "loop" /\ run.events = {} /\ limited
  /\ Waiting
  /\ Ready = {}
  /\ kill
  /\ run' = [run EXCEPT !.pc = "waitpid"]
  /\ UNCHANGED <<setting, epoll, exhausted, sent, inOpen, stdout, stderr, pipe>>

\* The events come in some order.
Handled(e) == run' = [run EXCEPT !.events = @ \ {e}]

Exhaust(fd) ==
  /\ epoll' = epoll \ {fd}
  /\ exhausted' = exhausted + 1

\* Data::Read() takes what FIONREAD found in the pipe, which is never nothing.
Read(e) ==
  /\ "IN" \in e.flags
  /\ IF e.fd = "out"
     THEN /\ stdout' = [chars |-> stdout.chars \o pipe.out,
                         ends  |-> Append(stdout.ends, Len(stdout.chars \o pipe.out))]
          /\ pipe' = [pipe EXCEPT !.out = <<>>]
          /\ UNCHANGED stderr
     ELSE /\ stderr' = stderr + pipe.err
          /\ pipe' = [pipe EXCEPT !.err = 0]
          /\ UNCHANGED stdout
  /\ Handled(e)
  /\ UNCHANGED <<setting, epoll, exhausted, sent, inOpen, killed, child>>

\* FIONREAD or read() fails: the rest of the events is left alone.
ReadFails(e) ==
  /\ "IN" \in e.flags
  /\ kill
  /\ run' = [run EXCEPT !.events = {}]
  /\ UNCHANGED <<setting, epoll, exhausted, sent, inOpen, stdout, stderr, pipe>>

\* How much write() takes: the pipe is not full when EPOLLOUT is set.
Fits == Min({InputSize - sent, PipeSize - pipe.in})

\* Plausible mistakes: the input is closed after the first write, or never.
WriteOnce(e) ==
  /\ "IN" \notin e.flags /\ "OUT" \in e.flags
  /\ Alive
  /\ sent' = sent + Fits
  /\ pipe' = [pipe EXCEPT !.in = @ + Fits]
  /\ Exhaust("in") /\ inOpen' = FALSE
  /\ Handled(e)
  /\ UNCHANGED <<setting, stdout, stderr, killed, child>>

WriteKeepsOpen(e) ==
  /\ "IN" \notin e.flags /\ "OUT" \in e.flags
  /\ sent' = IF Alive THEN sent + Fits ELSE sent
  /\ pipe' = IF Alive THEN [pipe EXCEPT !.in = @ + Fits] ELSE pipe
  /\ IF ~Alive \/ sent' = InputSize THEN Exhaust("in") ELSE UNCHANGED <<epoll, exhausted>>
  /\ Handled(e)
  /\ UNCHANGED <<setting, inOpen, stdout, stderr, killed, child>>

\* The input is closed as soon as it is sent, or can't be: nobody reads it.
Write(e) ==
  /\ "IN" \notin e.flags /\ "OUT" \in e.flags
  /\ \/ /\ Alive /\ sent < InputSize
        /\ sent' = sent + Fits
        /\ pipe' = [pipe EXCEPT !.in = @ + Fits]
     \/ /\ ~Alive \/ sent = InputSize
        /\ UNCHANGED <<sent, pipe>>
  /\ IF ~Alive \/ sent' = InputSize
     THEN Exhaust("in") /\ inOpen' = FALSE
     ELSE UNCHANGED <<epoll, exhausted, inOpen>>
  /\ Handled(e)
  /\ UNCHANGED <<setting, stdout, stderr, killed, child>>

\* A plausible mistake: EPOLLHUP is looked at before EPOLLIN.
HangUpFirst(e) ==
  /\ {"HUP", "ERR"} \cap e.flags # {}
  /\ Exhaust(e.fd)
  /\ Handled(e)
  /\ UNCHANGED <<setting, sent, inOpen, stdout, stderr, killed, pipe, child>>

\* Neither EPOLLIN nor EPOLLOUT: the other end is closed and nothing is left.
HangUp(e) ==
  /\ "IN" \notin e.flags /\ "OUT" \notin e.flags
  /\ Exhaust(e.fd)
  /\ Handled(e)
  /\ UNCHANGED <<setting, sent, inOpen, stdout, stderr, killed, pipe, child>>

HandleEvent ==
  /\ run.pc = "loop"
  /\ \E e \in run.events : Read(e) \/ ReadFails(e) \/ Write(e) \/ HangUp(e)

Leave ==
  /\ run.pc = "loop" /\ run.events = {}
  /\ ~Waiting
  /\ run' = [run EXCEPT !.pc = "waitpid"]
  /\ UNCHANGED <<setting, parent, pipe, child>>

\* No timeout here: the child is waited for until it ends.
WaitPid ==
  /\ run.pc = "waitpid" /\ ~Alive
  /\ Return(child.pc = "exited" /\ child.code = 0 /\ ~killed)
  /\ inOpen' = FALSE
  /\ UNCHANGED <<setting, epoll, exhausted, sent, stdout, stderr, killed, pipe, child>>

-----------------------------------------------------------------------------
Run == Fork \/ Wait \/ HandleEvent \/ Leave \/ WaitPid

Child == ChildReads \/ ChildSeesEOF \/ ChildWrites \/ ChildComplains
           \/ ChildFinishes \/ ChildDies

ProcessNext == Run \/ SetupFails \/ EpollFails \/ Timeout \/ Child
                 \/ ChildQuits \/ ChildHangs

\* The thread that runs goes on, time passes, and a child works on unless it hangs.
ProcessFairness ==
  /\ WF_processVars(Run)
  /\ WF_processVars(Timeout)
  /\ WF_processVars(ChildReads) /\ WF_processVars(ChildSeesEOF) /\ WF_processVars(ChildWrites)
  /\ WF_processVars(ChildComplains) /\ WF_processVars(ChildFinishes) /\ WF_processVars(ChildDies)

ProcessSpec == ProcessInit /\ [][ProcessNext]_processVars /\ ProcessFairness

-----------------------------------------------------------------------------
(* Properties.                                                             *)

Fds      == {"in", "out", "err"}
Events   == [fd : Fds, flags : SUBSET {"IN", "OUT", "HUP", "ERR"}]
Runs     == [pc : {"start", "loop", "waitpid", "returned"}, events : SUBSET Events, result : BOOLEAN]
Ropes    == [chars : Seq(Char), ends : Seq(Nat)]
Pipes    == [in : 0 .. PipeSize, out : Seq(Char), err : 0 .. PipeSize]
Children == [pc : {"none", "running", "stuck", "exited", "signalled"}, code : {0, 1},
             term : BOOLEAN, eof : BOOLEAN, output : Outputs,
             read : 0 .. InputSize, wrote : Nat, err : 0 .. ErrSize]

\* The types of the pipes, the descriptors, the child and the result.
ProcessTypeOK ==
  /\ piped \in BOOLEAN /\ limited \in BOOLEAN /\ killed \in BOOLEAN /\ inOpen \in BOOLEAN
  /\ run \in Runs /\ epoll \subseteq Fds /\ exhausted \in 0 .. 3
  /\ sent \in 0 .. InputSize /\ stdout \in Ropes /\ stderr \in 0 .. ErrSize
  /\ pipe \in Pipes /\ Len(pipe.out) <= PipeSize
  /\ child \in Children

\* When Run() returns true the child has ended well, and stdout() and stderr()
\* are all it wrote, in the order it was written: a preprocessed source is never
\* cut short, whenever the child wrote, ended or was interrupted.
ResultIsComplete ==
  run.pc = "returned" /\ run.result =>
    /\ child.pc = "exited" /\ child.code = 0
    /\ stdout.chars = Written
    /\ stderr = child.err

\* A child that reads the end of its input has read all of it, unless it is
\* being killed: no compiler takes the beginning of a source for the source.
InputComplete ==
  child.eof /\ ~child.term => child.read = InputSize

\* Run() returns: neither waits for the other with a full or an open pipe, and a
\* child that hangs is killed when the timeout is over.
RunReturns == <>(run.pc = "returned")
=============================================================================
