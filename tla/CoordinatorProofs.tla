------------------------- MODULE CoordinatorProofs -------------------------
(***************************************************************************)
(* Coordinator for every set of workers and endpoints and any number of    *)
(* messages: type correctness and its safety properties.                   *)
(***************************************************************************)
EXTENDS Coordinator, TLAPS

Handed == [pid : Procs, msgId : Nat \ {0}, data : {Encode(c) : c \in Commands}]
Enqueued == [pid : Procs, msgId : Nat \ {0}, endpoint : Endpoints, known : BOOLEAN]

\* The periodic task goes beyond its first test only without the parent, and when
\* it is about to stop or has stopped the loop, every worker in the registry has
\* registered in the meantime.
StopInv ==
    /\ tpc \in {"verified", "stopping"} \/ ~working => ParentExited
    /\ tpc = "stopping" \/ ~working => workers \subseteq joined

\* What was handed over is what was submitted under its number, and a process
\* registers with its first message or not at all.
ChannelInv ==
    /\ \A i \in 1 .. Len(handed) :
           /\ handed[i].msgId \in 1 .. Len(submitted[handed[i].pid])
           /\ handed[i].data = Encode(submitted[handed[i].pid][handed[i].msgId])
    /\ \A p \in Procs : \A n \in 1 .. Len(submitted[p]) :
           submitted[p][n] = WorkerStarted => n = 1
    /\ \A p \in Procs : proc[p] = "unborn" => submitted[p] = <<>>

\* The transport knows the endpoints of the connections that were dispatched and
\* whose URL can be parsed, and its payloads are among the messages that were.
TransportInv ==
    /\ \A i \in 1 .. Len(handed) : \A e \in Parsable :
           handed[i].data = Encode(EstablishConnection(e)) => e \in connected
    /\ \A i \in 1 .. Len(enqueued) : \E j \in 1 .. Len(handed) :
           handed[j].pid = enqueued[i].pid /\ handed[j].msgId = enqueued[i].msgId

IInv == /\ TypeOK
        /\ StopInv
        /\ ChannelInv
        /\ TransportInv
        /\ RegistryMirrorsWorkers
        /\ PayloadFindsItsConnection

-----------------------------------------------------------------------------
(* Commands and the channel *)

\* Commands of different types are different, and so are their encodings.
LEMMA CommandFacts ==
    /\ WorkerStarted \in Commands
    /\ WorkerIsGoingToShutdown \in Commands
    /\ WorkerStarted # WorkerIsGoingToShutdown
    /\ \A e \in Endpoints :
           /\ EstablishConnection(e) \in Commands
           /\ SendEndpointPayload(e) \in Commands
           /\ EstablishConnection(e) # WorkerStarted
           /\ SendEndpointPayload(e) # WorkerStarted
    /\ \A c \in Commands :
           /\ c.type \in {"WORKER_STARTED", "WORKER_IS_GOING_TO_SHUTDOWN",
                          "ESTABLISH_CONNECTION", "SEND_ENDPOINT_PAYLOAD"}
           /\ c.type = "WORKER_STARTED" <=> c = WorkerStarted
           /\ c.type = "WORKER_IS_GOING_TO_SHUTDOWN" <=> c = WorkerIsGoingToShutdown
           /\ c.type \in {"ESTABLISH_CONNECTION", "SEND_ENDPOINT_PAYLOAD"} =>
                  c.endpoint \in Endpoints
           /\ \A e \in Endpoints :
                  c = EstablishConnection(e) <=>
                      c.type = "ESTABLISH_CONNECTION" /\ c.endpoint = e
    /\ \A c, d : Encode(c) = Encode(d) => c = d
    /\ \A c : Parse(Encode(c)) = c
<1>1. /\ \A c, d : Encode(c) = Encode(d) => c = d
      /\ \A c : Parse(Encode(c)) = c
  BY DEF Encode, Parse
<1>2. /\ WorkerStarted.type = "WORKER_STARTED"
      /\ WorkerIsGoingToShutdown.type = "WORKER_IS_GOING_TO_SHUTDOWN"
      /\ \A e : /\ EstablishConnection(e).type = "ESTABLISH_CONNECTION"
               /\ EstablishConnection(e).endpoint = e
               /\ SendEndpointPayload(e).type = "SEND_ENDPOINT_PAYLOAD"
               /\ SendEndpointPayload(e).endpoint = e
  BY DEF WorkerStarted, WorkerIsGoingToShutdown, EstablishConnection, SendEndpointPayload
<1>3. QED
  BY <1>1, <1>2 DEF Commands

\* The fields of a message that was handed over.
LEMMA HandedFields ==
    ASSUME NEW h \in Seq(Handed), NEW i \in 1 .. Len(h)
    PROVE  h[i].pid \in Procs /\ h[i].msgId \in Nat \ {0}
<1>1. h[i] \in Handed
  OBVIOUS
<1>2. QED
  BY <1>1 DEF Handed

\* A step that submits a message of p changes nothing that the dispatcher did.
LEMMA SubmitStep ==
    ASSUME IInv, NEW p \in Procs, NEW cmd \in Commands,
           submitted' = [submitted EXCEPT ![p] = Append(@, cmd)],
           cmd = WorkerStarted => submitted[p] = <<>>,
           proc' \in [Procs -> ProcStates], proc'[p] # "unborn",
           \A q \in Procs : /\ proc'[q] = "unborn" => proc[q] = "unborn"
                            /\ proc[q] = "gone" => proc'[q] = "gone",
           ParentExited => ParentExited',
           UNCHANGED <<handed, workers, connected, enqueued, working, mpc, tpc, joined>>
    PROVE  IInv'
<1>1. submitted \in [Procs -> Seq(Commands)] /\ handed \in Seq(Handed)
  BY DEF IInv, TypeOK, Handed
<1>2. TypeOK'
  <2>1. Append(submitted[p], cmd) \in Seq(Commands)
    BY <1>1
  <2>2. submitted' \in [Procs -> Seq(Commands)]
    BY <1>1, <2>1
  <2>3. QED
    BY <2>2 DEF IInv, TypeOK
<1>3. StopInv'
  BY DEF IInv, StopInv
<1>4. ChannelInv'
  <2>1. \A q \in Procs : /\ Len(submitted[q]) <= Len(submitted'[q])
                         /\ \A n \in 1 .. Len(submitted[q]) : submitted'[q][n] = submitted[q][n]
    BY <1>1
  <2>2. \A i \in 1 .. Len(handed) : handed[i].pid \in Procs
    BY <1>1, HandedFields
  <2>3. \A i \in 1 .. Len(handed) :
           /\ handed[i].msgId \in 1 .. Len(submitted'[handed[i].pid])
           /\ handed[i].data = Encode(submitted'[handed[i].pid][handed[i].msgId])
    BY <1>1, <2>1, <2>2 DEF IInv, ChannelInv
  <2>4. \A q \in Procs : \A n \in 1 .. Len(submitted'[q]) :
           submitted'[q][n] = WorkerStarted => n = 1
    BY <1>1 DEF IInv, ChannelInv
  <2>5. \A q \in Procs : proc'[q] = "unborn" => submitted'[q] = <<>>
    BY <1>1 DEF IInv, ChannelInv
  <2>6. QED
    BY <2>3, <2>4, <2>5 DEF ChannelInv
<1>5. TransportInv' /\ PayloadFindsItsConnection'
  BY DEF IInv, TransportInv, PayloadFindsItsConnection
<1>6. RegistryMirrorsWorkers'
  BY DEF IInv, RegistryMirrorsWorkers, Dispatched
<1>7. QED
  BY <1>2, <1>3, <1>4, <1>5, <1>6 DEF IInv
-----------------------------------------------------------------------------
(* The actions *)

\* Processes start, submit and leave.
LEMMA SendStep ==
    ASSUME IInv, NEW p \in Procs,
           \/ \E w \in Workers : Fork(p, w)
           \/ \E e \in Endpoints : SendTelemetry(p, EstablishConnection(e))
           \/ \E e \in Endpoints : SendTelemetry(p, SendEndpointPayload(e))
           \/ Leave(p)
    PROVE  IInv'
<1>1. proc \in [Procs -> ProcStates]
  BY DEF IInv, TypeOK
<1>2. ASSUME NEW w \in Workers, Fork(p, w) PROVE IInv'
  <2>1. w \in Procs /\ w # Parent /\ Parent \in Procs
    BY ParentAssumption DEF Procs
  <2>2. /\ submitted' = [submitted EXCEPT ![w] = Append(@, WorkerStarted)]
        /\ submitted[w] = <<>>
        /\ proc' = [proc EXCEPT ![w] = "running"] /\ proc[w] = "unborn"
        /\ UNCHANGED <<handed, workers, connected, enqueued, working, mpc, tpc, joined>>
    BY <1>2, <2>1 DEF Fork, Channel!Submit, IInv, ChannelInv
  <2>3. /\ proc' \in [Procs -> ProcStates] /\ proc'[w] # "unborn"
        /\ \A q \in Procs : /\ proc'[q] = "unborn" => proc[q] = "unborn"
                            /\ proc[q] = "gone" => proc'[q] = "gone"
        /\ ParentExited => ParentExited'
    BY <1>1, <2>1, <2>2 DEF ProcStates, ParentExited
  <2>4. QED
    BY <2>1, <2>2, <2>3, CommandFacts, SubmitStep
<1>3. ASSUME NEW cmd \in Commands, cmd # WorkerStarted, SendTelemetry(p, cmd) PROVE IInv'
  <2>1. /\ submitted' = [submitted EXCEPT ![p] = Append(@, cmd)]
        /\ proc' = proc /\ proc[p] = "running"
        /\ UNCHANGED <<handed, workers, connected, enqueued, working, mpc, tpc, joined>>
    BY <1>3 DEF SendTelemetry, Channel!Submit
  <2>2. ParentExited => ParentExited'
    BY <2>1 DEF ParentExited
  <2>3. QED
    BY <1>1, <1>3, <2>1, <2>2, SubmitStep
<1>4. ASSUME Leave(p) PROVE IInv'
  <2>1. /\ submitted' = [submitted EXCEPT ![p] = Append(@, WorkerIsGoingToShutdown)]
        /\ proc' = [proc EXCEPT ![p] = "leaving"] /\ proc[p] = "running"
        /\ UNCHANGED <<handed, workers, connected, enqueued, working, mpc, tpc, joined>>
    BY <1>4 DEF Leave, Channel!Submit
  <2>2. /\ proc' \in [Procs -> ProcStates] /\ proc'[p] # "unborn"
        /\ \A q \in Procs : /\ proc'[q] = "unborn" => proc[q] = "unborn"
                            /\ proc[q] = "gone" => proc'[q] = "gone"
        /\ ParentExited => ParentExited'
    BY <1>1, <2>1 DEF ProcStates, ParentExited, Procs
  <2>3. QED
    BY <2>1, <2>2, CommandFacts, SubmitStep
<1>5. QED
  BY <1>2, <1>3, <1>4, CommandFacts

\* Processes die: nothing that they submitted and nothing in the coordinator changes.
LEMMA DeathStep ==
    ASSUME IInv, NEW p \in Procs, Exit(p) \/ Reap(p)
    PROVE  IInv'
<1>1. /\ UNCHANGED <<submitted, handed, workers, connected, enqueued, joined, working, mpc, tpc>>
      /\ proc \in [Procs -> ProcStates]
  BY DEF IInv, TypeOK, Exit, Reap, dispatchVars
<1>2. /\ proc' \in [Procs -> ProcStates]
      /\ \A q \in Procs : /\ proc'[q] = "unborn" => proc[q] = "unborn"
                          /\ proc[q] = "gone" => proc'[q] = "gone"
      /\ ParentExited => ParentExited'
  BY <1>1 DEF Exit, Reap, ProcStates, ParentExited, Procs
<1>3. TypeOK' /\ StopInv'
  <2>1. TypeOK'
    BY <1>1, <1>2 DEF IInv, TypeOK
  <2>2. StopInv'
    BY <1>1, <1>2 DEF IInv, StopInv
  <2>3. QED
    BY <2>1, <2>2
<1>4. ChannelInv'
  <2>1. \A q \in Procs : proc'[q] = "unborn" => submitted'[q] = <<>>
    BY <1>1, <1>2 DEF IInv, ChannelInv
  <2>2. QED
    BY <1>1, <2>1 DEF IInv, ChannelInv
<1>5. TransportInv'
  BY <1>1 DEF IInv, TransportInv
<1>6. PayloadFindsItsConnection'
  BY <1>1 DEF IInv, PayloadFindsItsConnection
<1>7. RegistryMirrorsWorkers'
  <2>1. \A q \in Procs : \A c : Dispatched(q, c)' = Dispatched(q, c)
    BY <1>1 DEF Dispatched
  <2>2. \A q \in Procs : proc'[q] # "gone" => proc[q] # "gone"
    BY <1>2
  <2>3. workers' = workers
    BY <1>1
  <2>4. QED
    BY <2>1, <2>2, <2>3 DEF IInv, RegistryMirrorsWorkers
<1>8. QED
  BY <1>3, <1>4, <1>5, <1>6, <1>7 DEF IInv

\* The steps of the coordinator's two threads that dispatch nothing.
LEMMA ThreadStep ==
    ASSUME IInv,
           \/ LoopHead \/ ReceiveNothing \/ ShutdownTasks \/ JoinTasks \/ Destroy
           \/ VerifyWorkersAlive \/ CountWorkers \/ StopWorking \/ LeaveTasks
    PROVE  IInv'
<1>1. /\ UNCHANGED <<proc, submitted, handed, connected, enqueued>>
      /\ ParentExited' = ParentExited
      /\ workers' = workers \/ workers' = workers \ Vanished
  BY DEF LoopHead, ReceiveNothing, ShutdownTasks, JoinTasks, Destroy, OpAmpStops, OpAmpHangs,
         OpAmpInUse, TransportStops, VerifyWorkersAlive, CountWorkers, StopWorking, LeaveTasks,
         dispatchVars, procVars, ParentExited
<1>2. TypeOK'
  BY <1>1 DEF IInv, TypeOK, LoopHead, ReceiveNothing, ShutdownTasks, JoinTasks, Destroy,
              OpAmpStops, OpAmpHangs, OpAmpInUse, TransportStops, VerifyWorkersAlive,
              CountWorkers, StopWorking, LeaveTasks, RoundOver, dispatchVars
<1>3. StopInv'
  <2>1. CASE VerifyWorkersAlive
    BY <1>1, <2>1 DEF IInv, StopInv, VerifyWorkersAlive
  <2>2. CASE CountWorkers
    BY <1>1, <2>2 DEF IInv, StopInv, CountWorkers, RoundOver, dispatchVars
  <2>3. CASE StopWorking
    BY <1>1, <2>3 DEF IInv, StopInv, StopWorking, RoundOver, dispatchVars
  <2>4. CASE LoopHead \/ ReceiveNothing \/ ShutdownTasks \/ JoinTasks \/ Destroy \/ LeaveTasks
    BY <1>1, <2>4 DEF IInv, StopInv, LoopHead, ReceiveNothing, ShutdownTasks, JoinTasks, Destroy,
                      OpAmpStops, OpAmpHangs, OpAmpInUse, TransportStops, LeaveTasks,
                      dispatchVars
  <2>5. QED
    BY <2>1, <2>2, <2>3, <2>4
<1>4. ChannelInv' /\ TransportInv' /\ PayloadFindsItsConnection'
  BY <1>1 DEF IInv, ChannelInv, TransportInv, PayloadFindsItsConnection
<1>5. RegistryMirrorsWorkers'
  BY <1>1 DEF IInv, RegistryMirrorsWorkers, Dispatched, Vanished
<1>6. QED
  BY <1>2, <1>3, <1>4, <1>5 DEF IInv

\* What ReceiveMessage(p, id) does with the command cmd.
Dispatches(p, id, cmd) ==
    /\ cmd = submitted[p][id] /\ cmd \in Commands /\ id \in Nat \ {0}
    /\ handed \in Seq(Handed) /\ Len(handed) \in Nat
    /\ handed' \in Seq(Handed) /\ Len(handed') = Len(handed) + 1
    /\ \A i \in 1 .. Len(handed) : handed'[i] = handed[i]
    /\ handed'[Len(handed) + 1] = [pid |-> p, msgId |-> id, data |-> Encode(cmd)]
    /\ \A i \in 1 .. Len(handed) : handed[i].pid = p => handed[i].msgId < id
    /\ workers' = Registered(p, cmd)
    /\ joined' = IF cmd.type = "WORKER_STARTED" THEN joined \cup {p} ELSE joined
    /\ connected' = Connected(p, cmd)
    /\ enqueued' = IF cmd.type = "SEND_ENDPOINT_PAYLOAD"
                   THEN Append(enqueued, [pid |-> p, msgId |-> id,
                                          endpoint |-> cmd.endpoint,
                                          known |-> cmd.endpoint \in connected])
                   ELSE enqueued
    /\ mpc' = "head" /\ UNCHANGED <<proc, submitted, working, tpc>>

\* ReceiveMessage dispatches the command that was submitted.
LEMMA Received ==
    ASSUME IInv, NEW p \in Procs, NEW id \in 1 .. Len(submitted[p]), ReceiveMessage(p, id)
    PROVE  Dispatches(p, id, submitted[p][id])
<1> DEFINE cmd == submitted[p][id]
           msg == [pid |-> p, msgId |-> id, data |-> Encode(cmd)]
<1>1. submitted \in [Procs -> Seq(Commands)] /\ handed \in Seq(Handed)
  BY DEF IInv, TypeOK, Handed
<1>2. cmd \in Commands /\ id \in Nat \ {0}
  BY <1>1
<1> HIDE DEF cmd
<1>3. msg \in Handed
  BY <1>2 DEF Handed
<1>4. /\ handed' = Append(handed, msg) /\ UNCHANGED submitted
      /\ \A i \in 1 .. Len(handed) : handed[i].pid = p => handed[i].msgId < id
  BY DEF ReceiveMessage, Channel!HandOver, cmd
<1> HIDE DEF msg
<1>5. /\ handed' \in Seq(Handed) /\ Len(handed') = Len(handed) + 1 /\ Len(handed) \in Nat
      /\ \A i \in 1 .. Len(handed) : handed'[i] = handed[i]
      /\ handed'[Len(handed) + 1] = msg
  BY <1>1, <1>3, <1>4
<1>6. Parse(handed'[Len(handed')].data) = cmd
  BY <1>5, CommandFacts DEF msg
<1>7. Dispatches(p, id, cmd)
  BY <1>1, <1>2, <1>4, <1>5, <1>6 DEF ReceiveMessage, msg, cmd, Dispatches
<1>8. QED
  BY <1>7 DEF cmd

\* Dispatching a message keeps the types.
LEMMA ReceiveTypes ==
    ASSUME IInv, NEW p \in Procs, NEW id \in 1 .. Len(submitted[p]), ReceiveMessage(p, id)
    PROVE  TypeOK'
<1>1. PICK cmd : Dispatches(p, id, cmd)
  BY Received
<1>2. cmd \in Commands /\ handed' \in Seq(Handed)
  BY <1>1 DEF Dispatches
<1>3. workers' \subseteq Procs /\ joined' \subseteq Procs
  BY <1>1 DEF IInv, TypeOK, Registered, Dispatches
<1>4. connected' \subseteq Endpoints
  BY <1>1, <1>2, CommandFacts DEF IInv, TypeOK, Connected, Dispatches
<1>5. enqueued' \in Seq(Enqueued)
  <2>1. enqueued \in Seq(Enqueued)
    BY DEF IInv, TypeOK, Enqueued
  <2>2. id \in Nat \ {0}
    BY <1>1 DEF Dispatches
  <2>3. CASE cmd.type = "SEND_ENDPOINT_PAYLOAD"
    <3> DEFINE x == [pid |-> p, msgId |-> id, endpoint |-> cmd.endpoint,
                     known |-> cmd.endpoint \in connected]
    <3>1. x \in Enqueued
      BY <1>2, <2>2, <2>3, CommandFacts DEF Enqueued
    <3>2. enqueued' = Append(enqueued, x)
      BY <1>1, <2>3 DEF Dispatches
    <3> HIDE DEF x
    <3>3. QED
      BY <2>1, <3>1, <3>2
  <2>4. CASE cmd.type # "SEND_ENDPOINT_PAYLOAD"
    BY <1>1, <2>1, <2>4 DEF Dispatches
  <2>5. QED
    BY <2>3, <2>4
<1>6. mpc' = "head" /\ UNCHANGED <<proc, submitted, working, tpc>>
  BY <1>1 DEF Dispatches
<1>7. QED
  BY <1>2, <1>3, <1>4, <1>5, <1>6 DEF IInv, TypeOK, Handed, Enqueued

\* A process that registers has sent nothing that was dispatched before, and a
\* registered one is taken out by its last message.
LEMMA ReceiveRegistry ==
    ASSUME IInv, NEW p \in Procs, NEW id \in 1 .. Len(submitted[p]), ReceiveMessage(p, id)
    PROVE  RegistryMirrorsWorkers' /\ StopInv' /\ ChannelInv'
<1>1. PICK cmd : Dispatches(p, id, cmd)
  BY Received
<1>2. submitted \in [Procs -> Seq(Commands)]
  BY DEF IInv, TypeOK
<1>3. /\ cmd \in Commands /\ cmd = submitted[p][id] /\ id \in Nat \ {0}
      /\ handed \in Seq(Handed) /\ Len(handed) \in Nat /\ Len(handed') = Len(handed) + 1
  BY <1>1 DEF Dispatches
<1>4. \A i \in 1 .. Len(handed') :
         handed'[i] = IF i = Len(handed) + 1
                      THEN [pid |-> p, msgId |-> id, data |-> Encode(cmd)] ELSE handed[i]
  BY <1>1 DEF Dispatches
<1>5. ASSUME NEW q \in Procs, NEW c
      PROVE  Dispatched(q, c)' <=> Dispatched(q, c) \/ (q = p /\ c = cmd)
  <2>1. ASSUME NEW i \in 1 .. Len(handed')
        PROVE  (handed'[i].pid = q /\ handed'[i].data = Encode(c)) <=>
               IF i = Len(handed) + 1 THEN q = p /\ c = cmd
               ELSE handed[i].pid = q /\ handed[i].data = Encode(c)
    BY <1>4, CommandFacts
  <2>2. \A i : i \in 1 .. Len(handed') <=> i \in 1 .. Len(handed) \/ i = Len(handed) + 1
    BY <1>3
  <2>3. Len(handed) + 1 \notin 1 .. Len(handed)
    BY <1>3
  <2>4. QED
    BY <2>1, <2>2, <2>3 DEF Dispatched
<1>6. StopInv'
  BY <1>1 DEF IInv, StopInv, ParentExited, Registered, Dispatches
<1>7. ChannelInv'
  <2>1. UNCHANGED <<submitted, proc>>
    BY <1>1 DEF Dispatches
  <2>2. ASSUME NEW i \in 1 .. Len(handed')
        PROVE  /\ handed'[i].msgId \in 1 .. Len(submitted[handed'[i].pid])
               /\ handed'[i].data = Encode(submitted[handed'[i].pid][handed'[i].msgId])
    <3>1. CASE i = Len(handed) + 1
      BY <3>1, <1>3, <1>4
    <3>2. CASE i # Len(handed) + 1
      <4>1. i \in 1 .. Len(handed) /\ handed'[i] = handed[i]
        BY <3>2, <1>3, <1>4
      <4>2. QED
        BY <4>1 DEF IInv, ChannelInv
    <3>3. QED
      BY <3>1, <3>2
  <2>3. QED
    BY <2>1, <2>2 DEF IInv, ChannelInv
<1>8. RegistryMirrorsWorkers'
  <2>1. cmd = WorkerStarted => ~Dispatched(p, WorkerIsGoingToShutdown)
    <3> SUFFICES ASSUME cmd = WorkerStarted, NEW i \in 1 .. Len(handed), handed[i].pid = p
                 PROVE  FALSE
      BY DEF Dispatched
    <3>1. id = 1
      BY <1>3 DEF IInv, ChannelInv
    <3>2. handed[i].msgId < id /\ handed[i].msgId \in Nat \ {0}
      BY <1>1, <1>3, HandedFields DEF Dispatches
    <3>3. QED
      BY <3>1, <3>2
  <2>2. workers' = Registered(p, cmd) /\ proc' = proc
    BY <1>1 DEF Dispatches
  <2>3. /\ cmd = WorkerStarted => workers' = workers \cup {p}
        /\ cmd = WorkerIsGoingToShutdown => workers' = workers \ {p}
        /\ cmd \notin {WorkerStarted, WorkerIsGoingToShutdown} => workers' = workers
    BY <1>3, <2>2, CommandFacts DEF Registered
  <2>4. ASSUME NEW q \in Procs
        PROVE  /\ q \in workers' => /\ Dispatched(q, WorkerStarted)'
                                    /\ ~Dispatched(q, WorkerIsGoingToShutdown)'
               /\ (/\ Dispatched(q, WorkerStarted)'
                   /\ ~Dispatched(q, WorkerIsGoingToShutdown)'
                   /\ proc'[q] # "gone") => q \in workers'
    <3>1. /\ Dispatched(q, WorkerStarted)' <=>
                Dispatched(q, WorkerStarted) \/ (q = p /\ WorkerStarted = cmd)
          /\ Dispatched(q, WorkerIsGoingToShutdown)' <=>
                Dispatched(q, WorkerIsGoingToShutdown) \/ (q = p /\ WorkerIsGoingToShutdown = cmd)
      BY <1>5
    <3>2. QED
      BY <3>1, <2>1, <2>2, <2>3, CommandFacts DEF IInv, RegistryMirrorsWorkers
  <2>5. QED
    BY <2>4 DEF RegistryMirrorsWorkers, Dispatched
<1>9. QED
  BY <1>6, <1>7, <1>8

\* Dispatched connections are known to the transport, and a payload that meets an
\* unknown endpoint is ahead of any connection that its process establishes later.
LEMMA ReceiveTransport ==
    ASSUME IInv, NEW p \in Procs, NEW id \in 1 .. Len(submitted[p]), ReceiveMessage(p, id)
    PROVE  TransportInv' /\ PayloadFindsItsConnection'
<1>1. PICK cmd : Dispatches(p, id, cmd)
  BY Received
<1>2. /\ cmd \in Commands /\ id \in Nat \ {0}
      /\ handed \in Seq(Handed) /\ Len(handed) \in Nat /\ Len(handed') = Len(handed) + 1
      /\ \A i \in 1 .. Len(handed) : handed[i].pid = p => handed[i].msgId < id
  BY <1>1 DEF Dispatches
<1>3. \A i \in 1 .. Len(handed') :
         handed'[i] = IF i = Len(handed) + 1
                      THEN [pid |-> p, msgId |-> id, data |-> Encode(cmd)] ELSE handed[i]
  BY <1>1 DEF Dispatches
<1>4. \A i : i \in 1 .. Len(handed') <=> i \in 1 .. Len(handed) \/ i = Len(handed) + 1
  BY <1>2
<1>5. Len(handed) + 1 \notin 1 .. Len(handed)
  BY <1>2
<1>6. connected' = Connected(p, cmd) /\ connected \subseteq connected'
  BY <1>1 DEF Dispatches, Connected
<1> DEFINE new == [pid |-> p, msgId |-> id, endpoint |-> cmd.endpoint,
                   known |-> cmd.endpoint \in connected]
<1>7. \/ enqueued' = enqueued
      \/ enqueued' = Append(enqueued, new) /\ cmd.type = "SEND_ENDPOINT_PAYLOAD"
  BY <1>1 DEF Dispatches
<1>8. enqueued \in Seq(Enqueued) /\ Len(enqueued) \in Nat
  BY DEF IInv, TypeOK, Enqueued
<1>9. new.pid = p /\ new.msgId = id /\ new.endpoint = cmd.endpoint
      /\ new.known = (cmd.endpoint \in connected)
  OBVIOUS
<1> HIDE DEF new
<1>10. \A i \in 1 .. Len(enqueued') :
          \/ i \in 1 .. Len(enqueued) /\ enqueued'[i] = enqueued[i]
          \/ enqueued'[i] = new /\ cmd.type = "SEND_ENDPOINT_PAYLOAD"
  BY <1>7, <1>8
<1>11. TransportInv'
  <2>1. ASSUME NEW i \in 1 .. Len(handed'), NEW e \in Parsable,
               handed'[i].data = Encode(EstablishConnection(e))
        PROVE  e \in connected'
    <3>1. CASE i = Len(handed) + 1
      <4>1. cmd = EstablishConnection(e)
        BY <2>1, <3>1, <1>3, CommandFacts
      <4>2. QED
        BY <4>1, <1>2, <1>6, CommandFacts, ParsableAssumption DEF Connected
    <3>2. CASE i \in 1 .. Len(handed)
      BY <2>1, <3>2, <1>3, <1>5, <1>6 DEF IInv, TransportInv
    <3>3. QED
      BY <3>1, <3>2, <1>4
  <2>2. ASSUME NEW i \in 1 .. Len(enqueued')
        PROVE  \E j \in 1 .. Len(handed') : /\ handed'[j].pid = enqueued'[i].pid
                                            /\ handed'[j].msgId = enqueued'[i].msgId
    <3>1. CASE enqueued'[i] = new
      BY <3>1, <1>3, <1>4, <1>9
    <3>2. CASE i \in 1 .. Len(enqueued) /\ enqueued'[i] = enqueued[i]
      <4>1. PICK j \in 1 .. Len(handed) : /\ handed[j].pid = enqueued[i].pid
                                          /\ handed[j].msgId = enqueued[i].msgId
        BY <3>2 DEF IInv, TransportInv
      <4>2. j \in 1 .. Len(handed') /\ handed'[j] = handed[j]
        BY <1>3, <1>4, <1>5
      <4>3. QED
        BY <3>2, <4>1, <4>2
    <3>3. QED
      BY <3>1, <3>2, <1>10
  <2>3. QED
    BY <2>1, <2>2 DEF TransportInv
<1>12. PayloadFindsItsConnection'
  <2> SUFFICES ASSUME NEW i \in 1 .. Len(enqueued'), ~enqueued'[i].known,
                      enqueued'[i].endpoint \in Parsable,
                      NEW j \in 1 .. Len(handed'), handed'[j].pid = enqueued'[i].pid,
                      handed'[j].msgId < enqueued'[i].msgId,
                      handed'[j].data = Encode(EstablishConnection(enqueued'[i].endpoint))
               PROVE  FALSE
    BY DEF PayloadFindsItsConnection
  <2>1. CASE enqueued'[i] = new /\ cmd.type = "SEND_ENDPOINT_PAYLOAD"
    <3>1. j \in 1 .. Len(handed) /\ handed'[j] = handed[j]
      BY <2>1, <1>2, <1>3, <1>4, <1>5, <1>9
    <3>2. cmd.endpoint \in Parsable
      BY <2>1, <1>9
    <3>3. cmd.endpoint \in connected
      BY <2>1, <3>1, <3>2, <1>9 DEF IInv, TransportInv
    <3>4. QED
      BY <2>1, <3>3, <1>9
  <2>2. CASE i \in 1 .. Len(enqueued) /\ enqueued'[i] = enqueued[i]
    <3>1. CASE j \in 1 .. Len(handed)
      BY <2>2, <3>1, <1>3, <1>5 DEF IInv, PayloadFindsItsConnection
    <3>2. CASE j = Len(handed) + 1
      <4>1. enqueued[i].pid = p /\ id < enqueued[i].msgId
        BY <2>2, <3>2, <1>3
      <4>2. PICK k \in 1 .. Len(handed) : /\ handed[k].pid = p
                                          /\ handed[k].msgId = enqueued[i].msgId
        BY <2>2, <4>1 DEF IInv, TransportInv
      <4>3. handed[k].msgId < id /\ handed[k].msgId \in Nat
        BY <4>2, <1>2, HandedFields
      <4>4. QED
        BY <4>1, <4>2, <4>3, <1>2
    <3>3. QED
      BY <3>1, <3>2, <1>4
  <2>3. QED
    BY <2>1, <2>2, <1>10
<1>13. QED
  BY <1>11, <1>12

-----------------------------------------------------------------------------
(* The theorems *)

\* IInv holds initially and every step keeps it.
THEOREM Invariance == Spec => []IInv
<1>1. Init => IInv
  <2> SUFFICES ASSUME Init PROVE IInv
    OBVIOUS
  <2>1. /\ handed = <<>> /\ enqueued = <<>> /\ workers = {} /\ connected = {}
        /\ joined = {} /\ working = TRUE /\ mpc = "head" /\ tpc = "sleeping"
        /\ submitted = [p \in Procs |-> <<>>]
        /\ proc = [p \in Procs |-> IF p = Parent THEN "running" ELSE "unborn"]
    BY DEF Init, Channel!Init
  <2>2. TypeOK
    BY <2>1 DEF TypeOK, ProcStates
  <2>3. StopInv /\ ChannelInv /\ TransportInv
    BY <2>1 DEF StopInv, ChannelInv, TransportInv
  <2>4. RegistryMirrorsWorkers /\ PayloadFindsItsConnection
    BY <2>1 DEF RegistryMirrorsWorkers, Dispatched, PayloadFindsItsConnection
  <2>5. QED
    BY <2>2, <2>3, <2>4 DEF IInv
<1>2. IInv /\ [Next]_vars => IInv'
  <2> SUFFICES ASSUME IInv, [Next]_vars PROVE IInv'
    OBVIOUS
  <2>1. ASSUME NEW p \in Procs, ProcessStep(p) PROVE IInv'
    BY <2>1, SendStep, DeathStep DEF ProcessStep
  <2>2. ASSUME NEW p \in Procs, NEW id \in 1 .. Len(submitted[p]), ReceiveMessage(p, id)
        PROVE  IInv'
    BY <2>2, ReceiveTypes, ReceiveRegistry, ReceiveTransport DEF IInv
  <2>3. CASE UNCHANGED vars
    <3>1. TypeOK' /\ StopInv' /\ ChannelInv' /\ TransportInv'
      BY <2>3 DEF IInv, vars, TypeOK, StopInv, ChannelInv, TransportInv, ParentExited
    <3>2. RegistryMirrorsWorkers' /\ PayloadFindsItsConnection'
      BY <2>3 DEF IInv, vars, RegistryMirrorsWorkers, Dispatched, PayloadFindsItsConnection
    <3>3. QED
      BY <3>1, <3>2 DEF IInv
  <2>4. QED
    BY <2>1, <2>2, <2>3, ThreadStep DEF Next, Receive, PeriodicTask, AllOver
<1>3. QED
  BY <1>1, <1>2, PTL DEF Spec

\* Every variable of the processes, the channel and the coordinator keeps its type.
THEOREM TypeCorrect == Spec => []TypeOK
<1>1. IInv => TypeOK
  BY DEF IInv
<1>2. QED
  BY <1>1, Invariance, PTL

\* For any number of workers that fork, leave and die while their messages may get
\* lost, WorkerRegistry agrees with the messages that were dispatched.
THEOREM RegistryAgrees == Spec => []RegistryMirrorsWorkers
<1>1. IInv => RegistryMirrorsWorkers
  BY DEF IInv
<1>2. QED
  BY <1>1, Invariance, PTL

\* The periodic task clears working_ only without the parent and without any worker
\* that was registered before it decided.
THEOREM StopsAlone == Spec => []StopsWithoutOldWorkers
<1>1. IInv => StopsWithoutOldWorkers
  BY DEF IInv, StopInv, StopsWithoutOldWorkers
<1>2. QED
  BY <1>1, Invariance, PTL

\* A payload that was sent after its connection meets an endpoint that the transport
\* knows, unless the message that establishes the connection was lost or the URL of
\* the endpoint cannot be parsed.
THEOREM ConnectionsFirst == Spec => []PayloadFindsItsConnection
<1>1. IInv => PayloadFindsItsConnection
  BY DEF IInv
<1>2. QED
  BY <1>1, Invariance, PTL

=============================================================================
