----------------------------- MODULE Coordinator -----------------------------
(***************************************************************************)
(* The life of the coordinator process and of the PHP processes it serves. *)
(* The process that loads the extension forks the coordinator, then forks  *)
(* workers, which may fork further ones.  A forked process registers with  *)
(* the coordinator, passes it telemetry, and unregisters when its globals  *)
(* are destroyed, unless it is killed first.  The coordinator's main loop  *)
(* dispatches the messages; its periodic task looks after its parent and   *)
(* the registered workers and decides when the coordinator stops.  At its  *)
(* end the main thread joins the thread of the task, OpAMP's thread and    *)
(* the HTTP transport's thread, in this order.                             *)
(*                                                                         *)
(* The path of the messages is the abstract MessageChannel, which          *)
(* ChunkedMessages implements: any message may be lost.                    *)
(***************************************************************************)
EXTENDS Integers, Sequences

CONSTANTS Parent,     \* the process that forked the coordinator
          Workers,    \* pids of the processes forked later
          Endpoints,  \* endpoint hashes
          Parsable,   \* those whose URL ConnectionId can be made from
          MaxMsgs     \* bound: MaxMsgs[p] messages of p before its last one

ASSUME ParentAssumption == Parent \notin Workers
ASSUME ParsableAssumption == Parsable \subseteq Endpoints

Procs == Workers \cup {Parent}

ASSUME MaxMsgsAssumption == MaxMsgs \in [Procs -> Nat]

VARIABLES
    proc,      \* state of each PHP process, as the operating system sees it
    submitted, \* submitted[p]: commands p passed to sendPayload
    handed,    \* what ChunkedMessageProcessor passed to the dispatcher
    workers,   \* WorkerRegistry::workers_
    connected, \* endpoints the HTTP transport was given
    enqueued,  \* history: payloads the HTTP transport was given
    working,   \* CoordinatorProcess::working_
    mpc,       \* where the coordinator's main loop is
    tpc,       \* where its periodic task is
    joined     \* history: workers registered since the last verifyWorkersAlive

procVars == <<proc, submitted>>
dispatchVars == <<handed, workers, connected, enqueued, joined>>
vars == <<proc, submitted, handed, workers, connected, enqueued, working, mpc, tpc,
          joined>>

-----------------------------------------------------------------------------
(* Commands *)

WorkerStarted == [type |-> "WORKER_STARTED"]
WorkerIsGoingToShutdown == [type |-> "WORKER_IS_GOING_TO_SHUTDOWN"]
EstablishConnection(e) == [type |-> "ESTABLISH_CONNECTION", endpoint |-> e]
SendEndpointPayload(e) == [type |-> "SEND_ENDPOINT_PAYLOAD", endpoint |-> e]

Commands == {WorkerStarted, WorkerIsGoingToShutdown}
            \cup {EstablishConnection(e) : e \in Endpoints}
            \cup {SendEndpointPayload(e) : e \in Endpoints}

\* SerializeAsString and ParseFromArray of the generated protobuf code.
Encode(cmd) == [wire |-> cmd]
Parse(data) == data.wire

Channel == INSTANCE MessageChannel WITH Pids <- Procs, Payloads <- Commands

-----------------------------------------------------------------------------
(* PHP processes *)

\* fork() in a process with the extension: WorkerRegistrar::postfork registers
\* the child.
Fork(p, w) ==
    /\ proc[p] = "running"
    /\ proc[w] = "unborn"
    /\ proc' = [proc EXCEPT ![w] = "running"]
    /\ Channel!Submit(w, WorkerStarted)
    /\ UNCHANGED <<workers, connected, enqueued, working, mpc, tpc, joined>>

\* CoordinatorTelemetrySignalsSender::initializeConnection and enqueue.
SendTelemetry(p, cmd) ==
    /\ proc[p] = "running"
    /\ Len(submitted[p]) < MaxMsgs[p]
    /\ Channel!Submit(p, cmd)
    /\ UNCHANGED <<proc, workers, connected, enqueued, working, mpc, tpc, joined>>

\* The globals are deleted: ~WorkerRegistrar unregisters the process.
Leave(p) ==
    /\ proc[p] = "running"
    /\ proc' = [proc EXCEPT ![p] = "leaving"]
    /\ Channel!Submit(p, WorkerIsGoingToShutdown)
    /\ UNCHANGED <<workers, connected, enqueued, working, mpc, tpc, joined>>

\* The process exits, or is killed before it could unregister.
Exit(p) ==
    /\ proc[p] \in {"running", "leaving"}
    /\ proc' = [proc EXCEPT ![p] = "zombie"]
    /\ UNCHANGED <<submitted, dispatchVars, working, mpc, tpc>>

\* Its parent, or init, waits for it; from now on its pid does not exist.
Reap(p) ==
    /\ proc[p] = "zombie"
    /\ proc' = [proc EXCEPT ![p] = "gone"]
    /\ UNCHANGED <<submitted, dispatchVars, working, mpc, tpc>>

-----------------------------------------------------------------------------
(* The coordinator's main thread *)

\* The head of the loop in coordinatorLoop.
LoopHead ==
    /\ mpc = "head"
    /\ mpc' = IF working THEN "receiving" ELSE "left"
    /\ UNCHANGED <<procVars, dispatchVars, working, tpc>>

\* tryReceiveMessage finds no chunk, or one that completes no message.
ReceiveNothing ==
    /\ mpc = "receiving"
    /\ mpc' = "head"
    /\ UNCHANGED <<procVars, dispatchVars, working, tpc>>

\* Mutant of Registered: a worker is never taken out again.
RegisteredForever(p, cmd) ==
    IF cmd.type = "WORKER_STARTED" THEN workers \cup {p} ELSE workers

\* WorkerRegistry after a command of p.
Registered(p, cmd) ==
    CASE cmd.type = "WORKER_STARTED" -> workers \cup {p}
      [] cmd.type = "WORKER_IS_GOING_TO_SHUTDOWN" -> workers \ {p}
      [] OTHER -> workers

\* Mutant of Connected: a connection is taken over only from a registered worker.
ConnectedIfRegistered(p, cmd) ==
    IF cmd.type = "ESTABLISH_CONNECTION" /\ cmd.endpoint \in Parsable /\ p \in workers
    THEN connected \cup {cmd.endpoint} ELSE connected

\* Endpoints of the HTTP transport after a command: initializeConnection, which
\* swallows the exception that HttpEndpoint throws for a URL it cannot parse.
Connected(p, cmd) ==
    IF cmd.type = "ESTABLISH_CONNECTION" /\ cmd.endpoint \in Parsable
    THEN connected \cup {cmd.endpoint} ELSE connected

\* tryReceiveMessage completes a message and processRecievedMessage dispatches it.
ReceiveMessage(p, id) ==
    /\ mpc = "receiving"
    /\ Channel!HandOver(p, id)
    /\ LET cmd == Parse(handed'[Len(handed')].data)
       IN  /\ workers' = Registered(p, cmd)
           /\ joined' = IF cmd.type = "WORKER_STARTED" THEN joined \cup {p} ELSE joined
           /\ connected' = Connected(p, cmd)
           /\ enqueued' = IF cmd.type = "SEND_ENDPOINT_PAYLOAD"
                          THEN Append(enqueued, [pid |-> p, msgId |-> id,
                                                 endpoint |-> cmd.endpoint,
                                                 known |-> cmd.endpoint \in connected])
                          ELSE enqueued
    /\ mpc' = "head"
    /\ UNCHANGED <<proc, working, tpc>>

\* ~CoordinatorProcess destroys the members from the last to the first: the
\* executor of the periodic task is told to stop ...
ShutdownTasks ==
    /\ mpc = "left"
    /\ mpc' = "closing"
    /\ UNCHANGED <<procVars, dispatchVars, working, tpc>>

\* ... and its thread is joined.
JoinTasks ==
    /\ mpc = "closing"
    /\ tpc = "ended"
    /\ mpc' = "opAmp"
    /\ UNCHANGED <<procVars, dispatchVars, working, tpc>>

\* ~OpAmp: its shutdownThread gets the mutex and joins the heartbeat thread.
OpAmpStops ==
    /\ mpc = "opAmp"
    /\ mpc' = "transport"
    /\ UNCHANGED <<procVars, dispatchVars, working, tpc>>

\* ~OpAmp never returns: the heartbeat thread never gives its mutex up, or waits
\* for configAccessMutex_ (OpAmpHeartbeat has both, see StopReturns there).
OpAmpHangs ==
    /\ mpc = "opAmp"
    /\ mpc' = "hung"
    /\ UNCHANGED <<procVars, dispatchVars, working, tpc>>

\* A response is being handled: its callback holds OpAmp, and OpAmp the transport,
\* so that neither is destroyed here, and the process exits under the two threads.
OpAmpInUse ==
    /\ mpc = "opAmp"
    /\ mpc' = "exited"
    /\ UNCHANGED <<procVars, dispatchVars, working, tpc>>

\* ~HttpTransportAsync joins the sending thread (it returns: HttpTransport's
\* JoinsReturn), and the process exits.
TransportStops ==
    /\ mpc = "transport"
    /\ mpc' = "exited"
    /\ UNCHANGED <<procVars, dispatchVars, working, tpc>>

-----------------------------------------------------------------------------
(* The coordinator's periodic task *)

\* The executor's thread tests working_ after each round of the tasks.
RoundOver == IF mpc = "closing" THEN "ended" ELSE "sleeping"

\* getppid() is no longer the process that forked the coordinator.
ParentExited == proc[Parent] \in {"zombie", "gone"}

\* Mutant of Vanished: no pid is ever missing.
NoneVanished == {}

\* kill(pid, 0) fails with ESRCH; a zombie still has its pid.
Vanished == {p \in workers : proc[p] = "gone"}

\* Mutant of VerifyWorkersAlive: the parent is not looked at.
VerifyWithParentAlive ==
    /\ tpc = "sleeping"
    /\ workers' = workers \ Vanished
    /\ joined' = IF working THEN {} ELSE joined
    /\ tpc' = "verified"
    /\ UNCHANGED <<procVars, handed, connected, enqueued, working, mpc>>

\* The parent is gone: the registry forgets the workers that are gone too.
VerifyWorkersAlive ==
    /\ tpc = "sleeping"
    /\ ParentExited
    /\ workers' = workers \ Vanished
    /\ joined' = IF working THEN {} ELSE joined
    /\ tpc' = "verified"
    /\ UNCHANGED <<procVars, handed, connected, enqueued, working, mpc>>

\* getWorkerCount, under the registry's lock taken again.
CountWorkers ==
    /\ tpc = "verified"
    /\ tpc' = IF workers = {} THEN "stopping" ELSE RoundOver
    /\ UNCHANGED <<procVars, dispatchVars, working, mpc>>

\* working_ = false.
StopWorking ==
    /\ tpc = "stopping"
    /\ working' = FALSE
    /\ tpc' = RoundOver
    /\ UNCHANGED <<procVars, dispatchVars, mpc>>

\* The executor was told to stop after the round and before the test of working_;
\* a thread that is asleep by then first runs the tasks once more.
LeaveTasks ==
    /\ tpc = "sleeping" /\ mpc = "closing"
    /\ tpc' = "ended"
    /\ UNCHANGED <<procVars, dispatchVars, working, mpc>>

-----------------------------------------------------------------------------
Init ==
    /\ proc = [p \in Procs |-> IF p = Parent THEN "running" ELSE "unborn"]
    /\ Channel!Init
    /\ workers = {}
    /\ connected = {}
    /\ enqueued = << >>
    /\ working = TRUE
    /\ mpc = "head"
    /\ tpc = "sleeping"
    /\ joined = {}

ProcessStep(p) ==
    \/ \E w \in Workers : Fork(p, w)
    \/ \E e \in Endpoints : SendTelemetry(p, EstablishConnection(e))
    \/ \E e \in Endpoints : SendTelemetry(p, SendEndpointPayload(e))
    \/ Leave(p)
    \/ Exit(p)
    \/ Reap(p)

Receive == \/ ReceiveNothing
           \/ \E p \in Procs : \E id \in 1 .. Len(submitted[p]) : ReceiveMessage(p, id)

PeriodicTask == VerifyWorkersAlive \/ CountWorkers \/ StopWorking \/ LeaveTasks

\* The destructors of opAmp_ and httpTransport_.
Destroy == OpAmpStops \/ OpAmpHangs \/ OpAmpInUse \/ TransportStops

\* Every PHP process has ended, and the coordinator does nothing any more.
AllOver == /\ mpc \in {"exited", "hung"}
           /\ \A p \in Procs : proc[p] \in {"unborn", "gone"}
           /\ UNCHANGED vars

Next == \/ \E p \in Procs : ProcessStep(p)
        \/ LoopHead \/ Receive \/ ShutdownTasks \/ JoinTasks \/ Destroy
        \/ PeriodicTask
        \/ AllOver

Spec == Init /\ [][Next]_vars

\* The coordinator's two threads run, and dead processes are waited for.
FairSpec == /\ Spec
            /\ WF_vars(LoopHead) /\ WF_vars(Receive)
            /\ WF_vars(ShutdownTasks) /\ WF_vars(JoinTasks) /\ WF_vars(Destroy)
            /\ WF_vars(PeriodicTask)
            /\ \A p \in Procs : WF_vars(Reap(p))

-----------------------------------------------------------------------------
(* Properties *)

ProcStates == {"unborn", "running", "leaving", "zombie", "gone"}

\* Types of the processes' states, the channel, the registry and the two
\* threads of the coordinator.
TypeOK ==
    /\ proc \in [Procs -> ProcStates]
    /\ submitted \in [Procs -> Seq(Commands)]
    /\ handed \in Seq([pid : Procs, msgId : Nat \ {0}, data : {Encode(c) : c \in Commands}])
    /\ workers \subseteq Procs
    /\ connected \subseteq Endpoints
    /\ enqueued \in Seq([pid : Procs, msgId : Nat \ {0}, endpoint : Endpoints,
                         known : BOOLEAN])
    /\ working \in BOOLEAN
    /\ mpc \in {"head", "receiving", "left", "closing", "opAmp", "hung", "transport",
               "exited"}
    /\ tpc \in {"sleeping", "verified", "stopping", "ended"}
    /\ joined \subseteq Procs

Dispatched(p, cmd) ==
    \E i \in 1 .. Len(handed) : handed[i].pid = p /\ handed[i].data = Encode(cmd)

\* The registry and the messages agree, whatever is lost and however the periodic
\* task and the dispatcher interleave: a process is in the registry only between
\* its WORKER_STARTED and its WORKER_IS_GOING_TO_SHUTDOWN, and in between it
\* leaves the registry only when its pid is gone.
RegistryMirrorsWorkers ==
    \A p \in Procs :
        /\ p \in workers => /\ Dispatched(p, WorkerStarted)
                            /\ ~Dispatched(p, WorkerIsGoingToShutdown)
        /\ (/\ Dispatched(p, WorkerStarted)
            /\ ~Dispatched(p, WorkerIsGoingToShutdown)
            /\ proc[p] # "gone") => p \in workers

\* The coordinator gives up only when the process that forked it is gone, and the
\* only workers it may leave behind in the registry are those that registered
\* while the periodic task was deciding.
StopsWithoutOldWorkers ==
    ~working => ParentExited /\ workers \subseteq joined

\* A payload that reaches the HTTP transport before a connection to its endpoint
\* is one whose process never got its ESTABLISH_CONNECTION through (had it been
\* sent earlier and not been lost, the dispatcher would have seen it first), or
\* whose endpoint cannot be connected to: the transport logs the failure of an
\* unparsable URL, and every payload for it is thrown away when it is sent.
PayloadFindsItsConnection ==
    \A i \in 1 .. Len(enqueued) :
        LET x == enqueued[i]
        IN  \/ x.known
            \/ x.endpoint \notin Parsable
            \/ \A j \in 1 .. Len(handed) :
                   ~(/\ handed[j].pid = x.pid /\ handed[j].msgId < x.msgId
                     /\ handed[j].data = Encode(EstablishConnection(x.endpoint)))

\* Once its parent and every worker have died, however they died and whichever
\* of their messages were lost, the coordinator leaves its loop and ends, unless
\* ~OpAmp never returns: then the process stays for ever.
CoordinatorEnds ==
    (\A p \in Procs : proc[p] \in {"unborn", "zombie", "gone"}) ~> (mpc \in {"exited", "hung"})
=============================================================================
