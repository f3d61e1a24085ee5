------------------------------- MODULE Threads -------------------------------
(***************************************************************************)
(* The threads of a run, as objects: who waits for whom, who joins, who    *)
(* deletes. The main thread is in Launcher::Run and then ~Launcher; SIGINT *)
(* and SIGTERM put CtrlHandlerRoutine, that is Launcher::Stop, on top of   *)
(* whatever call it is in, so that one thread may be in XC::Thread::Wait   *)
(* twice. What the threads compute, and when they end, is in Session.      *)
(*                                                                         *)
(* A reader, a log and the sinks are XC::Threads (an event, a count of     *)
(* waiters and a mutex over a pthread), the decoder and the encoder are    *)
(* BaseElements (a flag over a pthread). Lock, a few assignments and       *)
(* unlock are one step; the mutex that Wait holds while it joins is not.   *)
(***************************************************************************)
EXTENDS Integers, Sequences, SequencesExt, FiniteSets

CONSTANTS NSinks,     \* outputs of the run, a thread each
          MaxSignals, \* signals that arrive while main is in Launcher::Run
          Spurious    \* whether pthread_cond_wait may return by itself

ASSUME ThreadsAssumption ==
  /\ NSinks \in Nat \ {0} /\ MaxSignals \in Nat /\ Spurious \in BOOLEAN

Sinks == 1 .. NSinks
Sink(i) == <<"sink", i>>
Reader == <<"reader", 0>>
Log == <<"log", 0>>
Elements == {<<"decoder", 0>>, <<"encoder", 0>>}
XCThreads == {Reader, Log} \cup {Sink(i) : i \in Sinks}
AllThreads == XCThreads \cup Elements

VARIABLES
  pthread,   \* of each thread: "run", "returned" (its function), "exited"
  told,      \* threads whose flag says to stop
  joined,    \* of each pthread: whether it was joined, "no", "joining", "yes"
  created,   \* BaseElement: thread_created_
  xc,        \* XC::Thread: m_ExitEvent, m_WaitCount, m_bIsValid, whether Wait
             \* holds m_Mutex, whether the object exists, and whether its
             \* owner's pointer to it is set
  pipeline,  \* SinkWrap: the SinkPipelines that are not deleted
  sinksRun,  \* SinkWrap: m_bIsRunning
  stack,     \* the main thread's calls: Run, and a Stop for each signal
  cut,       \* history: the calls that signals interrupted
  harm       \* history: uses the C library or the language leaves undefined

threadVars == <<pthread, told, joined, created, xc, pipeline, sinksRun, stack, cut,
                harm>>

Call(op, t) == [op |-> op, on |-> t]

\* MsdkXcoder::Stop and ~BaseElement, SinkWrap::Stop.
StopElements(order) == [i \in DOMAIN order |-> Call("stop", <<order[i], 0>>)]
StopSinks ==
  <<Call("sinksRun?", Reader)>> \o [i \in Sinks |-> Call("close", Sink(i))]
    \o <<Call("sinksStopped", Reader)>>

\* Launcher::Stop.
LauncherStop == <<Call("close", Reader)>> \o StopElements(<<"decoder", "encoder">>)
                \o StopSinks

\* Launcher::Run from Join on, and what deleting the Launcher deletes.
LauncherRun ==
  <<Call("join", <<"decoder", 0>>), Call("join", <<"encoder", 0>>)>>
    \o [i \in Sinks |-> Call("wait", Sink(i))]
    \o <<Call("close", Log)>>
LauncherDelete == StopElements(<<"encoder", "decoder">>) \o StopSinks
                  \o <<Call("close", Reader)>>

Calls == [run |-> LauncherRun \o LauncherDelete, stop |-> LauncherStop]
Frame(fn) == [fn |-> fn, at |-> 1, pc |-> "call"]

ThreadsInit ==
  /\ pthread = [t \in AllThreads |-> "run"] /\ told = {}
  /\ joined = [t \in AllThreads |-> "no"]
  /\ created = [t \in Elements |-> TRUE]
  /\ xc = [t \in XCThreads |-> [event |-> FALSE, waits |-> 0, valid |-> TRUE,
             locked |-> FALSE, exists |-> TRUE, known |-> TRUE]]
  /\ pipeline = Sinks /\ sinksRun = TRUE
  /\ stack = <<Frame("run")>> /\ cut = << >> /\ harm = {}

Finished == stack[1].at > Len(Calls["run"])

\* What the main thread is doing: the frame on top, its call, and the thread
\* the call is about.
Top == Last(stack)
At(pc) == ~Finished /\ harm = {} /\ Top.pc = pc
CallOf(frame) == Calls[frame.fn][frame.at]
Op == CallOf(Top).op
On == CallOf(Top).on

Go(pc) == stack' = [stack EXCEPT ![Len(stack)].pc = pc]
Return ==
  stack' = IF Top.fn = "stop" /\ Top.at = Len(Calls["stop"]) THEN Front(stack)
           ELSE [stack EXCEPT ![Len(stack)].at = @ + 1, ![Len(stack)].pc = "call"]
Harm(what) == harm' = {what} /\ UNCHANGED stack

(***************************************************************************)
(* The threads                                                             *)
(***************************************************************************)

\* The function of a thread returns: the log's only when it is told to.
FunctionReturns(t) ==
  /\ pthread[t] = "run" /\ (t = Log => t \in told)
  /\ pthread' = [pthread EXCEPT ![t] = IF t \in Elements THEN "exited" ELSE "returned"]
  /\ UNCHANGED <<told, joined, created, xc, pipeline, sinksRun, stack, cut, harm>>

\* Mutant: ThreadLaunch does not signal that it is over.
ThreadLaunchSilently(t) ==
  /\ pthread[t] = "returned"
  /\ pthread' = [pthread EXCEPT ![t] = "exited"]
  /\ UNCHANGED <<told, joined, created, xc, pipeline, sinksRun, stack, cut, harm>>

\* ThreadLaunch signals the exit event of its object and ends.
ThreadLaunch(t) ==
  /\ pthread[t] = "returned"
  /\ pthread' = [pthread EXCEPT ![t] = "exited"]
  /\ xc' = [xc EXCEPT ![t].event = TRUE]
  /\ harm' = harm \cup (IF xc[t].exists THEN {} ELSE {"used"})
  /\ UNCHANGED <<told, joined, created, pipeline, sinksRun, stack, cut>>

(***************************************************************************)
(* pthread_join, and BaseElement::Join and Stop around it                  *)
(***************************************************************************)

ElementBegins ==
  /\ At("call") /\ Op \in {"join", "stop"}
  /\ told' = IF Op = "stop" THEN told \cup {On} ELSE told
  /\ IF created[On] THEN Go("join") ELSE Return
  /\ UNCHANGED <<pthread, joined, created, xc, pipeline, sinksRun, cut, harm>>

\* A thread that is being joined already is refused at once, with EINVAL; one
\* that was joined no longer exists.
JoinBegins ==
  /\ At("join")
  /\ \/ /\ joined[On] = "no" /\ joined' = [joined EXCEPT ![On] = "joining"]
        /\ Go("joining") /\ UNCHANGED harm
     \/ joined[On] = "joining" /\ Go("joined") /\ UNCHANGED <<joined, harm>>
     \/ joined[On] = "yes" /\ Harm("joined twice") /\ UNCHANGED joined
  /\ UNCHANGED <<pthread, told, created, xc, pipeline, sinksRun, cut>>

JoinEnds ==
  /\ At("joining") /\ pthread[On] = "exited"
  /\ joined' = [joined EXCEPT ![On] = "yes"]
  /\ Go("joined")
  /\ UNCHANGED <<pthread, told, created, xc, pipeline, sinksRun, cut, harm>>

ElementEnds ==
  /\ At("joined") /\ On \in Elements
  /\ created' = [created EXCEPT ![On] = FALSE]
  /\ Return
  /\ UNCHANGED <<pthread, told, joined, xc, pipeline, sinksRun, cut, harm>>

(***************************************************************************)
(* XC::Thread::Wait and Close                                              *)
(***************************************************************************)

\* SinkWrap::Wait passes over the threads that Stop has deleted.
WaitBegins ==
  /\ At("call") /\ Op = "wait"
  /\ IF xc[On].known THEN Go("count") ELSE Return
  /\ UNCHANGED <<pthread, told, joined, created, xc, pipeline, sinksRun, cut, harm>>

\* What a caller of Close does first: FFmpegReader::stop and LogPrintThread's
\* Stop clear a flag of their own, SinkWrap::Stop one of the pipeline, which it
\* reaches by a pointer that is never cleared.
PipelineIsGone == \E i \in Sinks \ pipeline : On = Sink(i)

\* Mutant: Close does not ask whether the thread was joined.
CloseAlways ==
  /\ At("call") /\ Op = "close"
  /\ IF PipelineIsGone THEN Harm("used") /\ UNCHANGED told
     ELSE told' = told \cup {On} /\ Go("count") /\ UNCHANGED harm
  /\ UNCHANGED <<pthread, joined, created, xc, pipeline, sinksRun, cut>>

CloseBegins ==
  /\ At("call") /\ Op = "close"
  /\ IF PipelineIsGone THEN Harm("used") /\ UNCHANGED told
     ELSE /\ told' = told \cup {On} /\ UNCHANGED harm
          /\ Go(IF xc[On].known /\ xc[On].valid THEN "count" ELSE "closed")
  /\ UNCHANGED <<pthread, joined, created, xc, pipeline, sinksRun, cut>>

WaitCounts ==
  /\ At("count") /\ ~xc[On].locked
  /\ IF xc[On].exists
     THEN xc' = [xc EXCEPT ![On].waits = @ + 1] /\ Go("event") /\ UNCHANGED harm
     ELSE Harm("used") /\ UNCHANGED xc
  /\ UNCHANGED <<pthread, told, joined, created, pipeline, sinksRun, cut>>

\* Event::Wait does not look at m_State again when pthread_cond_wait returns.
EventWait ==
  /\ \/ At("event") /\ Go(IF xc[On].event THEN "last?" ELSE "blocked")
     \/ At("blocked") /\ xc[On].event /\ Go("last?")
  /\ UNCHANGED <<pthread, told, joined, created, xc, pipeline, sinksRun, cut, harm>>

\* pthread_cond_wait returns by itself.
SpuriousWakeup ==
  /\ Spurious /\ At("blocked") /\ ~xc[On].event
  /\ Go("last?")
  /\ UNCHANGED <<pthread, told, joined, created, xc, pipeline, sinksRun, cut, harm>>

\* Mutant: m_WaitCount is tested and not counted down.
WaitKeepsCount ==
  /\ At("last?") /\ ~xc[On].locked
  /\ IF xc[On].waits = 1
     THEN xc' = [xc EXCEPT ![On].locked = TRUE] /\ Go("join")
     ELSE UNCHANGED xc /\ Go("waited")
  /\ UNCHANGED <<pthread, told, joined, created, pipeline, sinksRun, cut, harm>>

\* The last to leave joins, and holds m_Mutex until it has.
WaitLeaves ==
  /\ At("last?") /\ ~xc[On].locked
  /\ IF xc[On].waits = 1
     THEN xc' = [xc EXCEPT ![On].waits = 0, ![On].locked = TRUE] /\ Go("join")
     ELSE xc' = [xc EXCEPT ![On].waits = @ - 1] /\ Go("waited")
  /\ UNCHANGED <<pthread, told, joined, created, pipeline, sinksRun, cut, harm>>

WaitJoined ==
  /\ At("joined") /\ On \in XCThreads
  /\ xc' = [xc EXCEPT ![On].valid = FALSE, ![On].locked = FALSE]
  /\ Go("waited")
  /\ UNCHANGED <<pthread, told, joined, created, pipeline, sinksRun, cut, harm>>

WaitEnds ==
  /\ At("waited")
  /\ IF Op = "close" THEN Go("closed") ELSE Return
  /\ UNCHANGED <<pthread, told, joined, created, xc, pipeline, sinksRun, cut, harm>>

(***************************************************************************)
(* What the caller of Close does next                                      *)
(***************************************************************************)

\* The object can go: nobody waits in it, and its thread will not use it.
Over(t) == xc[t].waits = 0 /\ ~xc[t].locked /\ pthread[t] = "exited"

\* Mutant: m_mapThread keeps the pointer to the thread.
DeleteSinkOnly(i) ==
  /\ pipeline' = pipeline \ {i}
  /\ IF xc[Sink(i)].known /\ ~Over(Sink(i))
     THEN Harm("deleted in use") /\ UNCHANGED xc
     ELSE xc' = [xc EXCEPT ![Sink(i)].exists = FALSE] /\ Return /\ UNCHANGED harm

\* SinkWrap::Stop deletes the thread, if it has one, and the pipeline.
DeleteSink(i) ==
  /\ pipeline' = pipeline \ {i}
  /\ IF xc[Sink(i)].known /\ ~Over(Sink(i))
     THEN Harm("deleted in use") /\ UNCHANGED xc
     ELSE /\ xc' = [xc EXCEPT ![Sink(i)].exists = FALSE, ![Sink(i)].known = FALSE]
          /\ Return /\ UNCHANGED harm

\* Launcher::Run deletes the log; FFmpegReader::close frees the input.
Release(t) ==
  /\ UNCHANGED pipeline
  /\ IF (t = Log /\ ~Over(t)) \/ pthread[t] = "run"
     THEN Harm("deleted in use") /\ UNCHANGED xc
     ELSE /\ xc' = [xc EXCEPT ![t].exists = t # Log, ![t].known = t # Log]
          /\ Return /\ UNCHANGED harm

Closed ==
  /\ At("closed")
  /\ \/ \E i \in Sinks : On = Sink(i) /\ DeleteSink(i)
     \/ On \in {Reader, Log} /\ Release(On)
  /\ UNCHANGED <<pthread, told, joined, created, sinksRun, cut>>

\* SinkWrap::Stop does nothing when it has been done.
SinksRun ==
  /\ At("call") /\ Op = "sinksRun?"
  /\ IF sinksRun THEN Return
     ELSE IF Top.fn = "stop" THEN stack' = Front(stack)
     ELSE stack' = [stack EXCEPT ![Len(stack)].at = @ + NSinks + 2]
  /\ UNCHANGED <<pthread, told, joined, created, xc, pipeline, sinksRun, cut, harm>>

SinksStopped ==
  /\ At("call") /\ Op = "sinksStopped"
  /\ sinksRun' = FALSE
  /\ Return
  /\ UNCHANGED <<pthread, told, joined, created, xc, pipeline, cut, harm>>

(***************************************************************************)
(* The signal handler                                                      *)
(***************************************************************************)

\* A signal arrives while main is in Launcher::Run. (In ~Launcher the handler
\* would work on objects that are half deleted.)
CtrlHandlerRoutine ==
  /\ ~Finished /\ harm = {}
  /\ stack[1].at <= Len(LauncherRun)
  /\ Len(cut) < MaxSignals
  /\ cut' = Append(cut, [op |-> Op, on |-> On, pc |-> Top.pc])
  /\ stack' = Append(stack, Frame("stop"))
  /\ UNCHANGED <<pthread, told, joined, created, xc, pipeline, sinksRun, harm>>

Worker(t) == FunctionReturns(t) \/ (t \in XCThreads /\ ThreadLaunch(t))

MainThread ==
  \/ ElementBegins \/ JoinBegins \/ JoinEnds \/ ElementEnds
  \/ WaitBegins \/ CloseBegins \/ WaitCounts \/ EventWait \/ WaitLeaves
  \/ WaitJoined \/ WaitEnds \/ Closed \/ SinksRun \/ SinksStopped

ThreadsNext == \/ CtrlHandlerRoutine \/ SpuriousWakeup \/ MainThread
               \/ \E t \in AllThreads : Worker(t)

(***************************************************************************)
(* Properties                                                              *)
(***************************************************************************)
Waiting == {"event", "blocked", "last?"}
Joining == {"join", "joining", "joined"}
PCs == {"call", "count", "waited", "closed"} \cup Waiting \cup Joining
Harms == {"joined twice", "used", "deleted in use"}

\* The calls of the main thread that are at one of pcs with thread t.
CallsAt(t, pcs) == {d \in DOMAIN stack : ~Finished /\ CallOf(stack[d]).on = t /\ stack[d].pc \in pcs}

\* Types; m_WaitCount counts the calls of Wait that wait, and m_Mutex is held
\* by the one that joins.
ThreadsTypeOK ==
  /\ pthread \in [AllThreads -> {"run", "returned", "exited"}] /\ told \subseteq AllThreads
  /\ joined \in [AllThreads -> {"no", "joining", "yes"}]
  /\ created \in [Elements -> BOOLEAN]
  /\ xc \in [XCThreads -> [event : BOOLEAN, waits : 0 .. MaxSignals + 1, valid : BOOLEAN,
              locked : BOOLEAN, exists : BOOLEAN, known : BOOLEAN]]
  /\ pipeline \subseteq Sinks /\ sinksRun \in BOOLEAN /\ harm \subseteq Harms
  /\ Len(stack) \in 1 .. MaxSignals + 1 /\ Len(cut) <= MaxSignals
  /\ \A t \in XCThreads :
       /\ xc[t].waits = Cardinality(CallsAt(t, Waiting))
       /\ xc[t].locked <=> CallsAt(t, Joining) # {}

\* The calls a signal should not have interrupted: an element between the test
\* of thread_created_, its pthread_join and the clearing of the flag, or a Close
\* between the test of m_bIsValid and the wait ...
CutFlag(c) == \/ c.on \in Elements /\ c.pc \in {"join", "joined"}
              \/ c.op = "close" /\ c.pc = "count"
\* ... an XC::Thread that is being joined, with m_Mutex held ...
CutJoin(c) == c.on \in XCThreads /\ c.pc \in Joining
\* ... a wait for a sink, which Stop then deletes, and Stop itself.
CutSinks(c) == \/ c.op = "wait" /\ c.pc # "call"
               \/ c.op = "sinksStopped"
               \/ c.op = "close" /\ c.on \in {Sink(i) : i \in Sinks}
\* ... and, if pthread_cond_wait may return by itself, the wait for the reader.
CutReader(c) == Spurious /\ c.op = "close" /\ c.on = Reader /\ c.pc \in Waiting
Signals == {cut[i] : i \in DOMAIN cut}

\* When the program ends, every thread that was started has been joined, and
\* none was joined again after it was gone, whichever of Join, Stop, Wait,
\* Close and the destructors came to it, on top of each other too. The
\* exception is a signal between the test of a flag, the join and the flag's clearing.
EveryThreadIsJoinedOnce ==
  /\ Finished => \A t \in AllThreads : joined[t] = "yes"
  /\ "joined twice" \in harm => \E c \in Signals : CutFlag(c)

\* An XC::Thread, a SinkPipeline and the reader's input are not released while
\* a thread runs on them or a call waits in them, and not used afterwards,
\* unless a signal interrupted SinkWrap::Wait or SinkWrap::Stop, or a second
\* one Stop's wait for the reader.
ThreadsOutliveTheirUsers ==
  harm \cap {"used", "deleted in use"} # {}
    => \E c \in Signals : CutSinks(c) \/ CutReader(c)

\* Both.
ThreadsAreKept == EveryThreadIsJoinedOnce /\ ThreadsOutliveTheirUsers

\* What the main thread comes to, if the other threads end: it ends, after its
\* handlers, unless a signal came in one of these places (Launcher.cpp:334, "Stop
\* this ,all will stop").
MainIsOver ==
  Finished \/ \E c \in Signals : CutFlag(c) \/ CutJoin(c) \/ CutSinks(c) \/ CutReader(c)
=============================================================================
