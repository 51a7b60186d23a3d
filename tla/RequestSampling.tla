-------------------------- MODULE RequestSampling --------------------------
(***************************************************************************)
(* The sampling of PHP code for inferred spans in one PHP process:         *)
(* RequestScope on the PHP thread starts and stops it with each request,   *)
(* the thread of PeriodicTaskExecutor asks the engine for an interrupt     *)
(* every interval (InferredSpans::tryRequestInterrupt), and the PHP thread *)
(* captures a stack trace when it meets the interrupt or leaves an         *)
(* internal function (attachBacktraceIfInterrupted).  The process may fork *)
(* inside a request, and a fatal error may unwind the PHP thread.          *)
(*                                                                         *)
(* Whether the sampling interval has passed is left open.                  *)
(***************************************************************************)
EXTENDS Integers

CONSTANTS MaxRequests,   \* bound: requests
          MaxForks,      \* bound: forks
          MaxInterrupts  \* bound: interrupts asked for

ASSUME BoundsAssumption ==
    MaxRequests \in Nat /\ MaxForks \in Nat /\ MaxInterrupts \in Nat

VARIABLES
    ppc,           \* where the PHP thread is
    back,          \* where it goes on after a capture or a fork
    inferred,      \* the snapshot's inferred_spans_enabled
    requestCounter,
    bootstrapped,  \* bootstrapSuccessfull_
    preloadDetected,
    hooked,        \* the engine's hooks for inferred spans are installed
    created,       \* the executor exists
    working,       \* its working_
    resumed,       \* its resumed_
    epc,           \* where its thread is
    requested,     \* interruptedRequested_
    pending,       \* phpSideBacktracePending_
    vmInterrupt,   \* EG(vm_interrupt)
    bailed,        \* history: a fatal error unwound a capture
    requests,      \* history: number of requests
    interrupts,    \* history: interrupts asked for
    captures,      \* history: captures started
    late,          \* history: interrupts asked for since the last suspension
    forks          \* history: number of forks

scopeVars == <<inferred, requestCounter, bootstrapped, preloadDetected, hooked, requests>>
executorVars == <<created, working, resumed>>
samplerVars == <<requested, pending, vmInterrupt>>
historyVars == <<bailed, interrupts, captures, late, forks>>
vars == <<ppc, back, scopeVars, executorVars, epc, samplerVars, historyVars>>

-----------------------------------------------------------------------------
(* RequestScope on the PHP thread *)

\* requestCounter_ after onRequestInit; a disabled distro does not count.
NextCounter(enabled) == requestCounter + IF enabled THEN 1 ELSE 0

\* Request startup in the engine and onRequestInit, up to the bootstrap of the
\* PHP side.  The configuration is taken over first; the distro may be disabled,
\* the first request may be the one of opcache.preload, and an opcache reset may
\* be pending.  Unless there is more to do, the module's request startup then
\* installs the hooks for inferred spans.
RequestInit(enabled, inferredEnabled, preload, restartPending) ==
    /\ ppc = "outside"
    /\ requests < MaxRequests
    /\ requests' = requests + 1
    /\ vmInterrupt' = FALSE
    /\ inferred' = inferredEnabled
    /\ requestCounter' = NextCounter(enabled)
    /\ preloadDetected' = IF enabled THEN requestCounter = 0 /\ preload
                          ELSE preloadDetected
    /\ ppc' = IF enabled /\ ~preloadDetected' /\ ~restartPending THEN "bootstrapping"
              ELSE "running"
    /\ hooked' = (hooked \/ (inferredEnabled /\ ppc' = "running"))
    /\ UNCHANGED <<back, bootstrapped, executorVars, epc, requested, pending, historyVars>>

\* The rest of onRequestInit, when the bootstrap has run: if it succeeded, the
\* executor is created if need be, and resumed.
Bootstrap(success) ==
    /\ ppc = "bootstrapping"
    /\ ppc' = "running"
    /\ bootstrapped' = success
    /\ hooked' = (hooked \/ inferred)
    /\ IF success /\ inferred
       THEN /\ created' = TRUE
            /\ resumed' = TRUE
            /\ epc' = IF created THEN epc ELSE "starting"
            /\ late' = 0
       ELSE UNCHANGED <<created, resumed, epc, late>>
    /\ UNCHANGED <<back, inferred, requestCounter, preloadDetected, requests, working,
                   samplerVars, bailed, interrupts, captures, forks>>

\* Mutant of SuspendsSampling: the first request is taken for the preload.
SuspendsUnlessFirst == requestCounter > 1 /\ bootstrapped /\ inferred

\* onRequestShutdown gets as far as suspendPeriodicTasks.
SuspendsSampling == ~preloadDetected /\ bootstrapped /\ inferred

RequestShutdown ==
    /\ ppc = "running"
    /\ ppc' = "ended"
    /\ resumed' = (resumed /\ ~SuspendsSampling)
    /\ UNCHANGED <<back, scopeVars, created, working, epc, samplerVars, historyVars>>

\* onRequestPostDeactivate.
PostDeactivate ==
    /\ ppc = "ended"
    /\ ppc' = "outside"
    /\ bootstrapped' = FALSE
    /\ UNCHANGED <<back, inferred, requestCounter, preloadDetected, hooked, requests,
                   executorVars, epc, samplerVars, historyVars>>

-----------------------------------------------------------------------------
(* InferredSpans on the PHP thread *)

\* PHP code runs inside a request, also in the PHP side's entry and exit points.
RunsPhp == ppc \in {"bootstrapping", "running", "ended"}

\* Mutant of AttachBacktraceIfInterrupted: the flag is read and not reset.
AttachBacktraceAgain ==
    IF ~pending /\ requested
    THEN /\ pending' = TRUE
         /\ captures' = captures + 1
         /\ back' = ppc
         /\ ppc' = "capturing"
         /\ UNCHANGED requested
    ELSE UNCHANGED <<requested, pending, captures, back, ppc>>

\* attachBacktraceIfInterrupted, up to the call of the PHP side.
AttachBacktraceIfInterrupted ==
    IF ~pending /\ requested
    THEN /\ requested' = FALSE
         /\ pending' = TRUE
         /\ captures' = captures + 1
         /\ back' = ppc
         /\ ppc' = "capturing"
    ELSE UNCHANGED <<requested, pending, captures, back, ppc>>

\* An internal function returns to otel_execute_internal.
InternalFunction ==
    /\ RunsPhp /\ hooked
    /\ AttachBacktraceIfInterrupted
    /\ UNCHANGED <<scopeVars, executorVars, epc, vmInterrupt, bailed, interrupts, late,
                   forks>>

\* The engine meets the interrupt flag and calls otel_interrupt_function.
VmInterrupt ==
    /\ RunsPhp /\ hooked
    /\ vmInterrupt
    /\ vmInterrupt' = FALSE
    /\ AttachBacktraceIfInterrupted
    /\ UNCHANGED <<scopeVars, executorVars, epc, bailed, interrupts, late, forks>>

\* The PHP side has captured the stack; while it did, the hooks found pending set.
CaptureDone ==
    /\ ppc = "capturing"
    /\ pending' = FALSE
    /\ ppc' = back
    /\ \/ UNCHANGED vmInterrupt
       \/ vmInterrupt' = FALSE
    /\ UNCHANGED <<back, scopeVars, executorVars, epc, requested, historyVars>>

\* A fatal error in the PHP side's code: the engine jumps out of the capture, past
\* the reset of the flag, to an enclosing call of an internal function or to the
\* end of the request.
CaptureBails ==
    /\ ppc = "capturing"
    /\ ppc' \in {back, IF back = "ended" THEN "ended" ELSE "running"}
    /\ bailed' = TRUE
    /\ UNCHANGED <<back, scopeVars, executorVars, epc, samplerVars, interrupts, captures,
                   late, forks>>

-----------------------------------------------------------------------------
(* The executor's thread *)

\* Mutant of TaskLoop: only a suspended thread finds that it is to stop.
TaskLoopRunsOn ==
    /\ epc \in {"starting", "paused"}
    /\ \/ ~working /\ ~resumed /\ epc' = "done"
       \/ resumed /\ epc' = "sleeping"
       \/ working /\ ~resumed /\ epc = "starting" /\ epc' = "paused"
    /\ UNCHANGED <<ppc, back, scopeVars, executorVars, samplerVars, historyVars>>

\* The head of the loop in work: it ends, waits, or starts a turn.
TaskLoop ==
    /\ epc \in {"starting", "paused"}
    /\ \/ ~working /\ epc' = "done"
       \/ working /\ resumed /\ epc' = "sleeping"
       \/ working /\ ~resumed /\ epc = "starting" /\ epc' = "paused"
    /\ UNCHANGED <<ppc, back, scopeVars, executorVars, samplerVars, historyVars>>

\* The interval is over; tryRequestInterrupt finds an interrupt asked for before,
\* or finds the interval too short, or ...
SkipInterrupt ==
    /\ epc = "sleeping"
    /\ epc' = "starting"
    /\ UNCHANGED <<ppc, back, scopeVars, executorVars, samplerVars, historyVars>>

\* ... notes the request and releases the mutex ...
RequestInterrupt ==
    /\ epc = "sleeping"
    /\ ~requested
    /\ interrupts < MaxInterrupts
    /\ requested' = TRUE
    /\ interrupts' = interrupts + 1
    /\ late' = IF resumed THEN late ELSE late + 1
    /\ epc' = "interrupting"
    /\ UNCHANGED <<ppc, back, scopeVars, executorVars, pending, vmInterrupt, bailed,
                   captures, forks>>

\* ... and then sets the engine's flag.
Interrupt ==
    /\ epc = "interrupting"
    /\ vmInterrupt' = TRUE
    /\ epc' = "starting"
    /\ UNCHANGED <<ppc, back, scopeVars, executorVars, requested, pending, historyVars>>

-----------------------------------------------------------------------------
(* Forking, and the end of the process *)

\* fork() in PHP code: prefork tells the thread to stop ...
Prefork ==
    /\ ppc = "running"
    /\ forks < MaxForks
    /\ forks' = forks + 1
    /\ back' = ppc
    /\ ppc' = "joining"
    /\ working' = IF created THEN FALSE ELSE working
    /\ UNCHANGED <<scopeVars, created, resumed, epc, samplerVars, bailed, interrupts,
                   captures, late>>

\* Mutant of Joinable: the thread is not waited for.
JoinableAtOnce == TRUE

Joinable == ~created \/ epc = "done"

\* ... and joins it.
PreforkJoin ==
    /\ ppc = "joining"
    /\ Joinable
    /\ epc' = IF epc = "done" THEN "none" ELSE epc
    /\ ppc' = "forking"
    /\ UNCHANGED <<back, scopeVars, executorVars, samplerVars, historyVars>>

\* postfork, in the parent and in the child.
Postfork ==
    /\ ppc = "forking"
    /\ working' = TRUE
    /\ epc' = IF created THEN "starting" ELSE "none"
    /\ ppc' = back
    /\ UNCHANGED <<back, scopeVars, created, resumed, samplerVars, historyVars>>

\* The process deletes its globals: the executor's destructor stops the thread ...
Destroy ==
    /\ ppc = "outside"
    /\ ppc' = "destroying"
    /\ working' = IF created THEN FALSE ELSE working
    /\ UNCHANGED <<back, scopeVars, created, resumed, epc, samplerVars, historyVars>>

\* ... and joins it.
DestroyJoin ==
    /\ ppc = "destroying"
    /\ Joinable
    /\ epc' = IF epc = "done" THEN "none" ELSE epc
    /\ ppc' = "gone"
    /\ UNCHANGED <<back, scopeVars, executorVars, samplerVars, historyVars>>

-----------------------------------------------------------------------------
Init ==
    /\ ppc = "outside" /\ back = "outside"
    /\ inferred = FALSE
    /\ requestCounter = 0
    /\ bootstrapped = FALSE
    /\ preloadDetected = FALSE
    /\ hooked \in BOOLEAN
    /\ created = FALSE /\ working = TRUE /\ resumed = FALSE
    /\ epc = "none"
    /\ requested = FALSE /\ pending = FALSE /\ vmInterrupt = FALSE
    /\ bailed = FALSE
    /\ requests = 0 /\ interrupts = 0 /\ captures = 0 /\ late = 0 /\ forks = 0

ScopeStep ==
    \/ \E enabled, inf, preload, restart \in BOOLEAN :
           RequestInit(enabled, inf, preload, restart)
    \/ \E success \in BOOLEAN : Bootstrap(success)
    \/ RequestShutdown
    \/ PostDeactivate

CaptureStep == CaptureDone \/ CaptureBails

ExecutorStep == TaskLoop \/ SkipInterrupt \/ RequestInterrupt \/ Interrupt

ForkStep == PreforkJoin \/ Postfork

Gone == ppc = "gone" /\ UNCHANGED vars

Next == \/ ScopeStep
        \/ InternalFunction \/ VmInterrupt \/ CaptureStep
        \/ ExecutorStep
        \/ Prefork \/ ForkStep
        \/ Destroy \/ DestroyJoin \/ Gone

Spec == Init /\ [][Next]_vars

\* The executor's thread runs, captures end, and a fork or the destructor goes on.
FairSpec == /\ Spec
            /\ WF_vars(ExecutorStep) /\ WF_vars(CaptureStep) /\ WF_vars(ForkStep)
            /\ WF_vars(DestroyJoin)

-----------------------------------------------------------------------------
(* Properties *)

\* Types of the fields of RequestScope, PeriodicTaskExecutor and InferredSpans;
\* there is an executor thread unless the process is about to fork.
TypeOK ==
    /\ ppc \in {"outside", "bootstrapping", "running", "capturing", "joining", "forking",
               "ended", "destroying", "gone"}
    /\ back \in {"outside", "bootstrapping", "running", "ended"}
    /\ inferred \in BOOLEAN /\ bootstrapped \in BOOLEAN /\ preloadDetected \in BOOLEAN
    /\ hooked \in BOOLEAN
    /\ requestCounter \in 0 .. requests
    /\ created \in BOOLEAN /\ working \in BOOLEAN /\ resumed \in BOOLEAN
    /\ epc \in {"none", "starting", "paused", "sleeping", "interrupting", "done"}
    /\ requested \in BOOLEAN /\ pending \in BOOLEAN /\ vmInterrupt \in BOOLEAN
    /\ bailed \in BOOLEAN
    /\ requests \in 0 .. MaxRequests
    /\ interrupts \in 0 .. MaxInterrupts
    /\ captures \in Nat /\ late \in Nat /\ forks \in 0 .. MaxForks

\* Whatever way onRequestInit took and whatever the remote configuration changed
\* from one request to the next, the executor is resumed only inside a request
\* that was bootstrapped with inferred spans enabled.
SampledOnlyInRequests ==
    resumed => /\ ppc \notin {"outside", "bootstrapping", "ended"}
               /\ bootstrapped /\ inferred /\ created

\* Interrupts and captures stay in step.  suspendPeriodicTasks does not wait for
\* the thread: after it, and until the next request resumes the executor, at most
\* one more interrupt is asked for.  Every interrupt is captured at most once,
\* whether the engine's flag or the return of an internal function comes first.
\* The flag that keeps a capture from starting inside a capture ("avoid triggers
\* from agent side with low interval", InferredSpans.h:21) is set during a
\* capture and only then, but for a fatal error in one: that skips the reset, and
\* from then on the process captures nothing.
InterruptsAccounted ==
    /\ late <= 1
    /\ captures + (IF requested THEN 1 ELSE 0) = interrupts
    /\ ppc = "capturing" => pending
    /\ pending => ppc = "capturing" \/ bailed

\* When the process forks, there is no executor thread and so no lock that the
\* child could inherit, and none outlives the executor; in between, a created
\* executor has a thread, which only ends to be joined.
NoThreadAtFork ==
    /\ ppc \in {"forking", "gone"} => epc = "none"
    /\ created /\ ppc \notin {"forking", "gone"} => epc # "none"
    /\ epc = "done" => ppc \in {"joining", "destroying"}

\* Neither prefork nor the executor's destructor waits forever for its thread,
\* whether it sleeps, is suspended or is asking for an interrupt.
JoinsReturn ==
    /\ (ppc = "joining") ~> (ppc = "running")
    /\ (ppc = "destroying") ~> (ppc = "gone")
=============================================================================
