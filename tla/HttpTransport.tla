---------------------------- MODULE HttpTransport ----------------------------
(***************************************************************************)
(* HttpTransportAsync: one object in one process.  Its owner adds          *)
(* endpoints, enqueues payloads, stops the sending thread around fork()    *)
(* and destroys the object; the sending thread takes payloads from the     *)
(* queue and posts them, with retries, while the mutex is released.        *)
(*                                                                         *)
(* At a fork the specification goes on as the parent or as the child.      *)
(* What a server answers and when time runs out is left open; delays are   *)
(* not modelled.                                                           *)
(***************************************************************************)
EXTENDS Integers, Sequences

CONSTANTS Endpoints,         \* endpoint hashes
          Retries,           \* values of maxRetries given to initializeConnection
          Sizes,             \* payload sizes
          MaxSendQueueSize,  \* OTEL_PHP_MAX_SEND_QUEUE_SIZE
          HasShutdownTimeout,\* OTEL_PHP_ASYNC_TRANSPORT_SHUTDOWN_TIMEOUT is positive
          MaxPayloads,       \* bound: calls of enqueue that are accepted
          MaxForks           \* bound: calls of fork

ASSUME RetriesAssumption == Retries \subseteq Nat
ASSUME SizesAssumption == Sizes \subseteq Nat
ASSUME LimitAssumption == MaxSendQueueSize \in Nat
ASSUME TimeoutAssumption == HasShutdownTimeout \in BOOLEAN
ASSUME BoundsAssumption == MaxPayloads \in Nat /\ MaxForks \in Nat

VARIABLES
    endpoints,         \* endpoints_: hash -> maxRetries of the first add
    payloadsToSend,    \* the queue
    payloadsByteUsage, \* bytes accounted to the queue
    working,           \* working_
    forceFlush,        \* forceFlushOnDestruction_
    thread,            \* thread_ is set
    spc,               \* where the sending thread is
    opc,               \* where the owner is
    current,           \* the payload taken by send()
    retry,             \* attempts of it that may be repeated
    elapsed,           \* the shutdown timeout is over
    accepted,          \* history: number of payloads accepted; the ids are 1..accepted
    handled,           \* history: outcomes of send(), in order
    discarded,         \* history: ids a forked child dropped from its queue
    leaked,            \* history: bytes of those, still in payloadsByteUsage
    entered,           \* history: the current thread found working_ set at its start
    forks              \* history: number of forks

queueVars == <<payloadsToSend, payloadsByteUsage, current, retry>>
ownerVars == <<endpoints, working, forceFlush, thread, opc, elapsed, accepted,
               discarded, leaked, forks>>
vars == <<endpoints, payloadsToSend, payloadsByteUsage, working, forceFlush, thread,
          spc, opc, current, retry, elapsed, accepted, handled, discarded, leaked,
          entered, forks>>

FinalOutcomes == {"sent", "refused", "failed"}
Outcomes == FinalOutcomes \cup {"exhausted", "unknown"}

NoPayload == [id |-> 0, endpoint |-> "none", size |-> 0]

-----------------------------------------------------------------------------
(* The owner *)

\* initializeConnection: endpoints_.add keeps the first definition of a hash.  For a
\* URL that cannot be parsed it throws, which is only logged: no endpoint is added and
\* no thread started, so that this outcome is a stutter.
InitializeConnection(e, n) ==
    /\ opc = "ready"
    /\ endpoints' = IF e \in DOMAIN endpoints THEN endpoints
                    ELSE [f \in DOMAIN endpoints \cup {e} |->
                              IF f = e THEN n ELSE endpoints[f]]
    /\ thread' = TRUE
    /\ IF thread THEN UNCHANGED <<spc, entered>>
       ELSE spc' = "starting" /\ entered' = FALSE
    /\ UNCHANGED <<queueVars, working, forceFlush, opc, elapsed, accepted, handled,
                   discarded, leaked, forks>>

Fits(size) == payloadsByteUsage + size <= MaxSendQueueSize

\* enqueue, when the payload fits.
Enqueue(e, size) ==
    /\ opc = "ready"
    /\ accepted < MaxPayloads
    /\ Fits(size)
    /\ accepted' = accepted + 1
    /\ payloadsToSend' = Append(payloadsToSend,
                                [id |-> accepted', endpoint |-> e, size |-> size])
    /\ payloadsByteUsage' = payloadsByteUsage + size
    /\ UNCHANGED <<endpoints, working, forceFlush, thread, spc, opc, current, retry,
                   elapsed, handled, discarded, leaked, entered, forks>>

\* shutdownThread, up to the join: the locked section that clears working_.
Prefork ==
    /\ opc = "ready"
    /\ forks < MaxForks
    /\ working' = FALSE
    /\ opc' = "joining"
    /\ UNCHANGED <<endpoints, queueVars, forceFlush, thread, spc, elapsed, accepted,
                   handled, discarded, leaked, entered, forks>>

\* The join in shutdownThread, and thread_.reset().
ThreadOver == ~thread \/ spc = "done"

PreforkJoin ==
    /\ opc = "joining"
    /\ ThreadOver
    /\ thread' = FALSE
    /\ spc' = IF spc = "done" THEN "none" ELSE spc
    /\ opc' = "forking"
    /\ UNCHANGED <<endpoints, queueVars, working, forceFlush, elapsed, accepted, handled,
                   discarded, leaked, entered, forks>>

Ids(q) == {q[i].id : i \in 1 .. Len(q)}

\* Bytes of the payloads in a queue.
QueueBytes(q) ==
    LET bytes[i \in 0 .. Len(q)] == IF i = 0 THEN 0 ELSE bytes[i - 1] + q[i].size
    IN  bytes[Len(q)]

\* Mutant of EmptyChildQueue: the child keeps what its parent will send.
ChildKeepsQueue ==
    /\ UNCHANGED <<payloadsToSend, payloadsByteUsage, leaked>>
    /\ discarded' = discarded \cup Ids(payloadsToSend)

\* postfork in the child empties the queue, and leaves the byte count as it is.
EmptyChildQueue ==
    /\ payloadsToSend' = << >>
    /\ UNCHANGED payloadsByteUsage
    /\ discarded' = discarded \cup Ids(payloadsToSend)
    /\ leaked' = leaked + QueueBytes(payloadsToSend)

\* Mutant of Postfork: working_ stays cleared.
PostforkNotWorking(child) ==
    /\ opc = "forking"
    /\ IF child THEN EmptyChildQueue
       ELSE UNCHANGED <<payloadsToSend, payloadsByteUsage, discarded, leaked>>
    /\ thread' = TRUE
    /\ spc' = "starting"
    /\ entered' = FALSE
    /\ opc' = "ready"
    /\ forks' = forks + 1
    /\ UNCHANGED <<endpoints, current, retry, working, forceFlush, elapsed, accepted, handled>>

\* postfork: the child starts with an empty queue, both start a new thread.
Postfork(child) ==
    /\ opc = "forking"
    /\ IF child THEN EmptyChildQueue
       ELSE UNCHANGED <<payloadsToSend, payloadsByteUsage, discarded, leaked>>
    /\ working' = TRUE
    /\ thread' = TRUE
    /\ spc' = "starting"
    /\ entered' = FALSE
    /\ opc' = "ready"
    /\ forks' = forks + 1
    /\ UNCHANGED <<endpoints, current, retry, forceFlush, elapsed, accepted, handled>>

\* The destructor marks the start of the shutdown ...
Destroy ==
    /\ opc = "ready"
    /\ forceFlush' = TRUE
    /\ opc' = "destroying"
    /\ UNCHANGED <<endpoints, queueVars, working, thread, spc, elapsed, accepted, handled,
                   discarded, leaked, entered, forks>>

\* ... stops the thread ...
DestroyStop ==
    /\ opc = "destroying"
    /\ working' = FALSE
    /\ opc' = "closing"
    /\ UNCHANGED <<endpoints, queueVars, forceFlush, thread, spc, elapsed, accepted,
                   handled, discarded, leaked, entered, forks>>

\* ... and waits for it.
DestroyJoin ==
    /\ opc = "closing"
    /\ ThreadOver
    /\ thread' = FALSE
    /\ spc' = IF spc = "done" THEN "none" ELSE spc
    /\ opc' = "destroyed"
    /\ UNCHANGED <<endpoints, queueVars, working, forceFlush, elapsed, accepted, handled,
                   discarded, leaked, entered, forks>>

\* The shutdown timeout passes while the destructor runs.
TimeoutElapses ==
    /\ opc \in {"destroying", "closing"}
    /\ HasShutdownTimeout
    /\ ~elapsed
    /\ elapsed' = TRUE
    /\ UNCHANGED <<endpoints, queueVars, working, forceFlush, thread, spc, opc, accepted,
                   handled, discarded, leaked, entered, forks>>

-----------------------------------------------------------------------------
(* The sending thread.  Its steps between two releases of the mutex are atomic. *)

\* Mutant of Pop: the payload's bytes stay counted.
PopUncounted ==
    /\ payloadsToSend # << >>
    /\ current' = Head(payloadsToSend)
    /\ payloadsToSend' = Tail(payloadsToSend)
    /\ UNCHANGED payloadsByteUsage
    /\ retry' = 0
    /\ spc' = "sending"

\* send() takes the first payload and releases the mutex.
Pop ==
    /\ payloadsToSend # << >>
    /\ current' = Head(payloadsToSend)
    /\ payloadsToSend' = Tail(payloadsToSend)
    /\ payloadsByteUsage' = payloadsByteUsage - Head(payloadsToSend).size
    /\ retry' = 0
    /\ spc' = "sending"

Leave(st) == spc' = st /\ UNCHANGED <<payloadsToSend, payloadsByteUsage>>
                       /\ current' = NoPayload /\ retry' = 0

\* The head of the while loop of asyncSender, and the wait if it blocks.
LoopHead ==
    \/ ~working /\ Leave("done")
    \/ working /\ payloadsToSend = << >> /\ Leave("waiting")
    \/ working /\ Pop

ThreadStarts ==
    /\ spc = "starting"
    /\ entered' = working
    /\ LoopHead
    /\ UNCHANGED <<ownerVars, handled>>

\* The wait returns.
ThreadWakes ==
    /\ spc = "waiting"
    /\ \/ ~working /\ (~forceFlush \/ payloadsToSend = << >>) /\ Leave("done")
       \/ (working \/ forceFlush) /\ Pop
    /\ UNCHANGED <<ownerVars, handled, entered>>

TimedOut == forceFlush /\ payloadsToSend # << >> /\ HasShutdownTimeout /\ elapsed

\* send() is done with the current payload and takes the mutex again.
Finish(outcome) ==
    /\ handled' = Append(handled, [id |-> current.id, outcome |-> outcome])
    /\ \/ ~TimedOut /\ payloadsToSend # << >> /\ Pop
       \/ (TimedOut \/ payloadsToSend = << >>) /\ LoopHead
    /\ UNCHANGED <<ownerVars, entered>>

\* getConnection: a configured number of retries of zero still means one attempt.
Attempts(e) == IF endpoints[e] < 1 THEN 1 ELSE endpoints[e]

Known == current.endpoint \in DOMAIN endpoints

\* getConnection throws.
UnknownEndpoint ==
    /\ spc = "sending" /\ ~Known
    /\ Finish("unknown")

\* The server answers 2xx ("sent") or 4xx but for 408 and 429 ("refused"), or the
\* transfer fails and sendPayload throws ("failed").
FinalAnswer(outcome) ==
    /\ spc = "sending" /\ Known
    /\ Finish(outcome)

\* Mutant of RetryableAnswer: the number of attempts is not limited.
RetryForever ==
    /\ spc = "sending" /\ Known
    /\ retry' = (retry + 1) % 2
    /\ UNCHANGED <<ownerVars, payloadsToSend, payloadsByteUsage, current, spc,
                   handled, entered>>

\* Any other answer: the payload is tried again, as often as the endpoint allows.
RetryableAnswer ==
    /\ spc = "sending" /\ Known
    /\ \/ /\ retry + 1 < Attempts(current.endpoint)
          /\ retry' = retry + 1
          /\ UNCHANGED <<ownerVars, payloadsToSend, payloadsByteUsage, current, spc,
                         handled, entered>>
       \/ /\ retry + 1 >= Attempts(current.endpoint)
          /\ Finish("exhausted")

-----------------------------------------------------------------------------
Init ==
    /\ endpoints = [e \in {} |-> 0]
    /\ payloadsToSend = << >>
    /\ payloadsByteUsage = 0
    /\ working = TRUE
    /\ forceFlush = FALSE
    /\ thread = FALSE
    /\ spc = "none"
    /\ opc = "ready"
    /\ current = NoPayload
    /\ retry = 0
    /\ elapsed = FALSE
    /\ accepted = 0
    /\ handled = << >>
    /\ discarded = {}
    /\ leaked = 0
    /\ entered = FALSE
    /\ forks = 0

OwnerStep ==
    \/ \E e \in Endpoints, n \in Retries : InitializeConnection(e, n)
    \/ \E e \in Endpoints, s \in Sizes : Enqueue(e, s)
    \/ Prefork \/ PreforkJoin
    \/ \E child \in BOOLEAN : Postfork(child)
    \/ Destroy \/ DestroyStop \/ DestroyJoin

ThreadStep ==
    \/ ThreadStarts
    \/ ThreadWakes
    \/ UnknownEndpoint
    \/ \E o \in FinalOutcomes : FinalAnswer(o)
    \/ RetryableAnswer

\* The object is gone.
Gone == opc = "destroyed" /\ UNCHANGED vars

Next == OwnerStep \/ ThreadStep \/ TimeoutElapses \/ Gone

Spec == Init /\ [][Next]_vars

\* The sending thread runs, transfers end, and an owner inside prefork, fork or
\* the destructor goes on.
FairSpec ==
    /\ Spec
    /\ WF_vars(ThreadStep)
    /\ WF_vars(PreforkJoin) /\ WF_vars(\E child \in BOOLEAN : Postfork(child))
    /\ WF_vars(DestroyStop) /\ WF_vars(DestroyJoin)

-----------------------------------------------------------------------------
(* Properties *)

Payload == [id : Nat \ {0}, endpoint : Endpoints, size : Sizes]

\* Types of the object's fields and of the two threads' control states; the
\* byte count, an unsigned number in the code, never goes below zero.
TypeOK ==
    /\ DOMAIN endpoints \subseteq Endpoints
    /\ \A e \in DOMAIN endpoints : endpoints[e] \in Retries
    /\ payloadsToSend \in Seq(Payload)
    /\ payloadsByteUsage \in Nat
    /\ working \in BOOLEAN /\ forceFlush \in BOOLEAN /\ thread \in BOOLEAN
    /\ spc \in {"none", "starting", "waiting", "sending", "done"}
    /\ opc \in {"ready", "joining", "forking", "destroying", "closing", "destroyed"}
    /\ current \in Payload \cup {NoPayload}
    /\ retry \in Nat
    /\ elapsed \in BOOLEAN
    /\ accepted \in 0 .. MaxPayloads
    /\ handled \in Seq([id : Nat \ {0}, outcome : Outcomes])
    /\ discarded \subseteq 1 .. accepted
    /\ leaked \in Nat
    /\ entered \in BOOLEAN
    /\ forks \in 0 .. MaxForks

\* enqueue and send keep payloadsByteUsage_ equal to the bytes in the queue, but
\* for what a forked child threw away: so the limit bounds the queue, and the
\* unsigned subtraction in send never wraps around.
UsageAccounted ==
    /\ payloadsByteUsage = QueueBytes(payloadsToSend) + leaked
    /\ payloadsByteUsage <= MaxSendQueueSize

HandledIds == {handled[i].id : i \in 1 .. Len(handled)}
CurrentIds == IF spc = "sending" THEN {current.id} ELSE {}

\* Every payload that enqueue accepted is in exactly one place: in the queue,
\* with the sending thread, finished by send with one outcome, or thrown away by
\* a forked child, whose parent still has it.  And send finishes payloads in the
\* order in which they were enqueued, through stops, restarts and forks; a thread
\* that has reached its loop leaves nothing in the queue when the destructor
\* returns, unless the shutdown timeout was reached.
EachPayloadOnce ==
    /\ Ids(payloadsToSend) \cup CurrentIds \cup HandledIds \cup discarded = 1 .. accepted
    /\ \A i, j \in 1 .. Len(handled) : i < j => handled[i].id < handled[j].id
    /\ \A i, j \in 1 .. Len(payloadsToSend) :
           i < j => payloadsToSend[i].id < payloadsToSend[j].id
    /\ \A h \in HandledIds : \A c \in CurrentIds \cup Ids(payloadsToSend) : h < c
    /\ \A c \in CurrentIds : \A q \in Ids(payloadsToSend) : c < q
    /\ discarded \cap (HandledIds \cup CurrentIds \cup Ids(payloadsToSend)) = {}
    /\ opc = "destroyed" /\ entered => payloadsToSend = << >> \/ elapsed

\* A payload queued while there is a sending thread is finished by send, also
\* when the thread is stopped for a fork and started again, unless the process
\* goes on as a forked child or the object is destroyed.
QueuedIsHandled ==
    \A id \in 1 .. MaxPayloads :
        (id \in Ids(payloadsToSend) /\ thread)
            ~> (id \in HandledIds \cup discarded \/ opc = "destroyed")

\* Neither prefork nor the destructor waits forever for the sending thread.
JoinsReturn ==
    /\ (opc = "joining") ~> (opc = "ready")
    /\ (opc \in {"destroying", "closing"}) ~> (opc = "destroyed")
=============================================================================
