--------------------------- MODULE OpAmpHeartbeat ---------------------------
(***************************************************************************)
(* The OpAMP client of the coordinator (OpAmp.h, OpAmp.cpp): a thread that *)
(* wakes at two deadlines and sends heartbeats, the answers of the server, *)
(* which the thread of the HTTP transport handles, and the thread that     *)
(* starts and stops the client.  Deadlines are kept as the time that is    *)
(* left, so that time needs no bound.  Intervals are signed numbers of     *)
(* milliseconds of the width of std::chrono's representation.              *)
(***************************************************************************)
EXTENDS Integers

CONSTANTS
    Half,          \* 2^63: durations are in -Half .. Half - 1
    PerSecond,     \* milliseconds of a second
    Longest,       \* the longest interval that can be added to the clock's time
    Hashes,        \* hashes of remote configurations
    OptionsOf,     \* [Hashes -> intervals] the options a configuration sets
    StartOptions,  \* intervals in the options when the coordinator starts
    Answers,       \* messages of the server; a part that is absent is None
    None,
    MaxInFlight    \* bound: requests that the transport has accepted

Durations == -Half .. Half - 1

ASSUME WidthAssumption ==
    Half \in Nat /\ PerSecond \in Nat /\ Longest \in 1 .. Half - 1
ASSUME OptionsAssumption ==
    /\ StartOptions \subseteq [heartbeat : Durations, poll : Durations]
    /\ OptionsOf \in [Hashes -> [heartbeat : Durations, poll : Durations]]
ASSUME BoundAssumption == MaxInFlight \in Nat
ASSUME NoneAssumption == None \notin {"heartbeat", "http"}
ASSUME AnswersAssumption == 
    Answers \subseteq [seconds : (0 .. 2 * Half - 1) \cup {None}, hash : Hashes \cup {None}]

VARIABLES
    owner,               \* what the owning thread is doing
    keep,                \* the stop is prefork's: the object stays
    working, thread,     \* working_, and the steps of opAmpHeartbeatTask
    mutex, configAccessMutex,   \* holders of the two mutexes
    heartbeatInterval, pollingInterval,
    toHeartbeat, toPoll, toWake,  \* time left until the deadlines
    currentConfigHash,
    handler, message,    \* the callback on the transport's thread
    inFlight,
    stuck,               \* a PHP process died with the lock in shared memory
    idle, burst, unpaced \* history: time passed since the last heartbeat; it
                         \* did not; an interval came that sets no distance

threadVars == <<working, thread, mutex, toHeartbeat, toPoll, toWake>>
handlerVars == <<handler, message, configAccessMutex, currentConfigHash>>
intervalVars == <<heartbeatInterval, pollingInterval, unpaced>>
ownerVars == <<owner, keep>>
history == <<idle, burst>>
vars == <<ownerVars, threadVars, handlerVars, intervalVars, inFlight, stuck, history>>

Init ==
    /\ owner = "created" /\ keep = FALSE
    /\ working = TRUE /\ thread = "none" /\ mutex = None /\ configAccessMutex = None
    /\ heartbeatInterval = 1 /\ pollingInterval = 1 /\ unpaced = FALSE
    /\ toHeartbeat = 0 /\ toPoll = 0 /\ toWake = 0
    /\ currentConfigHash = None
    /\ handler = "idle" /\ message = None
    /\ inFlight = 0 /\ stuck = FALSE
    /\ idle = TRUE /\ burst = FALSE

\* The transport refuses what exceeds its buffer.
Enqueued == IF inFlight < MaxInFlight THEN inFlight + 1 ELSE inFlight

-----------------------------------------------------------------------------
(* Durations *)

\* A value of 64 bits taken as a signed one.
Signed(n) == ((n + Half) % (2 * Half)) - Half

\* std::chrono::seconds from the uint64 of the protocol, converted to
\* milliseconds: the sign bit and the multiplication are not looked at (the
\* multiplication overflows, which wraps in the build).
Milliseconds(seconds) == Signed(PerSecond * Signed(seconds))

\* The intervals that put a deadline into the future, at their distance.
Paced == 1 .. Longest

\* Time left to the deadline now + interval: none for an interval that is not
\* positive; anything where the sum, which is in nanoseconds, overflows.
TimeLeft(interval) ==
    IF interval \in Paced THEN {interval}
    ELSE IF interval \in -Longest .. 0 THEN {0}
    ELSE 0 .. Longest

-----------------------------------------------------------------------------
(* The owning thread. *)

startThread == IF thread = "none" THEN "starting" ELSE thread

\* Without an endpoint the client stays as it is created.  The intervals of
\* the options are taken as they are.
startCommunication(options) ==
    /\ owner = "created"
    /\ owner' = "running"
    /\ \/ UNCHANGED <<thread, intervalVars, inFlight>>
       \/ /\ heartbeatInterval' = options.heartbeat
          /\ pollingInterval' = options.poll
          /\ unpaced' = (unpaced \/ ~({options.heartbeat, options.poll} \subseteq Paced))
          /\ thread' = startThread
          /\ inFlight' = Enqueued      \* sendInitialAgentToServer
    /\ UNCHANGED <<keep, working, mutex, toHeartbeat, toPoll, toWake, handlerVars, stuck, history>>

prefork ==
    /\ owner = "running"
    /\ owner' = "stopping" /\ keep' = TRUE
    /\ UNCHANGED <<threadVars, handlerVars, intervalVars, inFlight, stuck, history>>

postfork ==
    /\ owner = "stopped" /\ keep
    /\ owner' = "running" /\ keep' = FALSE
    /\ working' = TRUE
    /\ thread' = startThread
    /\ UNCHANGED <<mutex, toHeartbeat, toPoll, toWake, handlerVars, intervalVars, inFlight, stuck, history>>

\* The coordinator drops its reference.  A callback that runs holds another
\* one; the destructor then runs on the thread of the callback, after it.
Release ==
    /\ owner = "running"
    /\ owner' = IF handler = "idle" THEN "stopping" ELSE "released"
    /\ UNCHANGED <<keep, threadVars, handlerVars, intervalVars, inFlight, stuck, history>>

\* shutdownThread, first part: under the mutex.
shutdownThread ==
    /\ owner = "stopping"
    /\ mutex = None
    /\ working' = FALSE
    /\ owner' = "joining"
    /\ UNCHANGED <<keep, thread, mutex, toHeartbeat, toPoll, toWake, handlerVars,
                   intervalVars, inFlight, stuck, history>>

\* Mutant: the thread is not waited for.
JoinableAtOnce == TRUE

Joinable == thread \in {"none", "over"}

Join ==
    /\ owner = "joining"
    /\ Joinable
    /\ thread' = IF thread = "over" THEN "none" ELSE thread
    /\ owner' = "stopped"
    /\ UNCHANGED <<keep, working, mutex, toHeartbeat, toPoll, toWake, handlerVars,
                   intervalVars, inFlight, stuck, history>>

-----------------------------------------------------------------------------
(* The heartbeat thread. *)

Min2(a, b) == IF a <= b THEN a ELSE b

\* The first deadlines are computed before the mutex is taken.
TaskStarts ==
    /\ thread = "starting"
    /\ thread' = "loop"
    /\ toHeartbeat' \in TimeLeft(heartbeatInterval)
    /\ toPoll' \in TimeLeft(pollingInterval)
    /\ UNCHANGED <<ownerVars, working, mutex, toWake, handlerVars, intervalVars, inFlight, stuck, history>>

\* Mutant: only the heartbeat makes the thread send and look at its deadlines.
HeartbeatOnly ==
    /\ IF toHeartbeat = 0 THEN toHeartbeat' \in TimeLeft(heartbeatInterval)
       ELSE toHeartbeat' = toHeartbeat
    /\ toPoll' = toPoll
    /\ thread' = IF toHeartbeat = 0 THEN "sending" ELSE "loop"
    /\ idle' = (idle /\ toHeartbeat # 0)
    /\ burst' = (burst \/ (toHeartbeat = 0 /\ ~idle))

Reschedule ==
    LET shouldSend == 0 \in {toHeartbeat, toPoll}
    IN  /\ IF toHeartbeat = 0 THEN toHeartbeat' \in TimeLeft(heartbeatInterval)
           ELSE toHeartbeat' = toHeartbeat
        /\ IF toPoll = 0 THEN toPoll' \in TimeLeft(pollingInterval) ELSE toPoll' = toPoll
        /\ thread' = IF shouldSend THEN "sending" ELSE "loop"
        /\ idle' = (idle /\ ~shouldSend)
        /\ burst' = (burst \/ (shouldSend /\ ~idle))

\* The head of the loop, with the mutex.  The wait gives it back, unless its
\* deadline has passed already: then it returns at once and the mutex is kept.
LoopHead ==
    /\ thread = "loop"
    /\ mutex \in {None, "heartbeat"}
    /\ \/ /\ ~working
          /\ thread' = "over" /\ mutex' = None
          /\ UNCHANGED <<toHeartbeat, toPoll, toWake, history>>
       \/ /\ working /\ 0 \notin {toHeartbeat, toPoll}
          /\ thread' = "waiting" /\ mutex' = None
          /\ toWake' = Min2(toHeartbeat, toPoll)
          /\ UNCHANGED <<toHeartbeat, toPoll, history>>
       \/ /\ working /\ 0 \in {toHeartbeat, toPoll}
          /\ mutex' = "heartbeat" /\ toWake' = 0
          /\ Reschedule
    /\ UNCHANGED <<ownerVars, working, handlerVars, intervalVars, inFlight, stuck>>

\* The predicate of the wait looks at the deadline of its start only.
WaitEnds ==
    /\ thread = "waiting"
    /\ mutex = None
    /\ ~working \/ toWake = 0
    /\ IF ~working
       THEN thread' = "over" /\ UNCHANGED <<mutex, toHeartbeat, toPoll, history>>
       ELSE mutex' = "heartbeat" /\ Reschedule
    /\ UNCHANGED <<ownerVars, working, toWake, handlerVars, intervalVars, inFlight, stuck>>

\* sendHeartbeat holds both mutexes for a moment.
sendHeartbeat ==
    /\ thread = "sending"
    /\ configAccessMutex = None
    /\ thread' = "loop"
    /\ inFlight' = Enqueued
    /\ UNCHANGED <<ownerVars, working, mutex, toHeartbeat, toPoll, toWake, handlerVars, intervalVars,
                   stuck, history>>

-----------------------------------------------------------------------------
(* Answers of the server. *)

\* A request without an answer, or an answer that cannot be parsed, or one
\* that comes when the client is gone: no effect.
NoAnswer ==
    /\ inFlight > 0
    /\ inFlight' = inFlight - 1
    /\ UNCHANGED <<ownerVars, threadVars, handlerVars, intervalVars, stuck, history>>

\* The interval of connection settings is taken as it is converted; agent identification and
\* retry delays touch nothing that is modelled.
handleServerToAgent(m) ==
    /\ inFlight > 0
    /\ handler = "idle"
    /\ owner = "running" \/ keep      \* the weak reference still leads to the object
    /\ inFlight' = inFlight - 1
    /\ handler' = IF m.hash = None THEN "end" ELSE "config"
    /\ message' = m
    /\ heartbeatInterval' = IF m.seconds = None THEN heartbeatInterval
                            ELSE Milliseconds(m.seconds)
    /\ unpaced' = (unpaced \/ heartbeatInterval' \notin Paced)
    /\ UNCHANGED <<ownerVars, threadVars, configAccessMutex, currentConfigHash, pollingInterval, stuck, history>>

LockConfig ==
    /\ handler = "config"
    /\ configAccessMutex = None
    /\ configAccessMutex' = "http"
    /\ currentConfigHash' = message.hash
    /\ handler' = IF currentConfigHash # message.hash THEN "watchers" ELSE "unlock"
    /\ UNCHANGED <<ownerVars, threadVars, message, intervalVars, inFlight, stuck, history>>

\* storeConfigFiles needs the lock in shared memory.
StoreConfigFiles ==
    /\ handler = "watchers"
    /\ ~stuck
    /\ handler' = "intervals"
    /\ UNCHANGED <<ownerVars, threadVars, message, configAccessMutex, currentConfigHash,
                   intervalVars, inFlight, stuck, history>>

\* Mutant: the option is taken unchecked.
UncheckedInterval(old, new) == new

UpdatedInterval(old, new) == IF new > 0 THEN new ELSE old

\* Mutant: the update waits for the mutex, as a setter often does.
UpdatesUnderMutex ==
    /\ mutex = None
    /\ heartbeatInterval' = UpdatedInterval(heartbeatInterval, OptionsOf[message.hash].heartbeat)
    /\ pollingInterval' = UpdatedInterval(pollingInterval, OptionsOf[message.hash].poll)

\* updateHeartbeatInterval and updatePollingInterval, called by the watcher.
IntervalsFromConfig ==
    /\ heartbeatInterval' = UpdatedInterval(heartbeatInterval, OptionsOf[message.hash].heartbeat)
    /\ pollingInterval' = UpdatedInterval(pollingInterval, OptionsOf[message.hash].poll)

\* Neither needs the mutex of the heartbeat thread, which may be waiting for
\* configAccessMutex.  An interval is looked at for its sign, not for its length.
UpdateIntervals ==
    /\ handler = "intervals"
    /\ IntervalsFromConfig
    /\ handler' = "unlock"
    /\ unpaced' = (unpaced \/ \E i \in {OptionsOf[message.hash].heartbeat, OptionsOf[message.hash].poll} :
                                i > Longest)
    /\ UNCHANGED <<ownerVars, threadVars, message, configAccessMutex, currentConfigHash,
                   inFlight, stuck, history>>

UnlockConfig ==
    /\ handler = "unlock"
    /\ configAccessMutex' = None
    /\ handler' = "end"
    /\ UNCHANGED <<ownerVars, threadVars, message, currentConfigHash, intervalVars, inFlight, stuck, history>>

\* The callback gives its reference back, perhaps the last one.
HandlerEnds ==
    /\ handler = "end"
    /\ handler' = "idle"
    /\ message' = None
    /\ owner' = IF owner = "released" THEN "stopping" ELSE owner
    /\ UNCHANGED <<keep, threadVars, configAccessMutex, currentConfigHash, intervalVars, inFlight, stuck, history>>

-----------------------------------------------------------------------------
Less(n) == IF n > 0 THEN n - 1 ELSE 0

Tick ==
    /\ toHeartbeat' = Less(toHeartbeat)
    /\ toPoll' = Less(toPoll)
    /\ toWake' = Less(toWake)
    /\ idle' = TRUE
    /\ UNCHANGED <<ownerVars, working, thread, mutex, handlerVars, intervalVars, inFlight, stuck, burst>>

\* RemoteConfig has the details: a PHP process is killed with the lock.
WorkerDies ==
    /\ ~stuck
    /\ stuck' = TRUE
    /\ UNCHANGED <<ownerVars, threadVars, handlerVars, intervalVars, inFlight, history>>

Next ==
    \/ \E options \in StartOptions : startCommunication(options)
    \/ prefork \/ postfork \/ Release
    \/ shutdownThread \/ Join
    \/ TaskStarts \/ LoopHead \/ WaitEnds \/ sendHeartbeat
    \/ NoAnswer
    \/ \E m \in Answers : handleServerToAgent(m)
    \/ LockConfig \/ StoreConfigFiles \/ UpdateIntervals \/ UnlockConfig \/ HandlerEnds
    \/ Tick
    \/ WorkerDies

Spec == Init /\ [][Next]_vars

\* Threads run, time passes; a mutex that others give back again and again is had
\* in the end (the heartbeat thread gives its own back when it sleeps).
Fairness ==
    /\ WF_vars(TaskStarts) /\ SF_vars(LoopHead) /\ SF_vars(WaitEnds) /\ SF_vars(sendHeartbeat)
    /\ SF_vars(LockConfig) /\ WF_vars(StoreConfigFiles \/ UpdateIntervals \/ UnlockConfig \/ HandlerEnds)
    /\ SF_vars(shutdownThread) /\ WF_vars(Join)
    /\ WF_vars(Tick)

FairSpec == Spec /\ Fairness

-----------------------------------------------------------------------------
(* A stopped client has no thread: whoever stopped it, and however far the *)
(* thread had come (before its first lock, waiting, or about to send).     *)
StoppedMeansSilent == owner = "stopped" => thread = "none" /\ mutex # "heartbeat"

(* Between two heartbeats time passes.  What makes the thread send without *)
(* pause is an interval that came in unchecked, from the server or with    *)
(* the options of startCommunication, and is not positive or too long to   *)
(* be added to the time, or a too long one in the options of a remote      *)
(* configuration; an interval of these that is not positive never does.    *)
HeartbeatsAreSpaced == burst => unpaced

\* The thread is back at its wait with the mutex and finds a deadline passed.
Late == thread = "loop" /\ mutex = "heartbeat" /\ 0 \in {toHeartbeat, toPoll}

(* The mutexes, which two threads take in different orders with calls in   *)
(* between, never lock each other out: prefork and the destructor return,  *)
(* unless a dead PHP process has taken the lock in shared memory with it,  *)
(* or the heartbeat thread is late for ever: with an interval that is not  *)
(* positive, or answers that take as long as the interval, it may never    *)
(* give back the mutex that shutdownThread waits for.                      *)
StopReturns == <>[]~Late => (owner = "stopping" ~> owner = "stopped" \/ stuck)

(* A polling deadline that has passed is served, whatever the heartbeat    *)
(* interval is and whatever the server does to it.                         *)
PollsContinue ==
    thread \in {"loop", "waiting"} /\ toPoll = 0 ~>
        toPoll > 0 \/ pollingInterval \notin Paced \/ ~working \/ stuck
=============================================================================
