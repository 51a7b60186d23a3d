------------------------ MODULE RequestSamplingProofs ------------------------
(***************************************************************************)
(* Inferred spans, for any number of requests, forks, interrupts, frames   *)
(* and spans.  On the thread's side: the sampling thread is resumed only   *)
(* inside requests that want it, interrupts and captures stay in step, and *)
(* there is no thread at a fork (RequestSampling).  On the PHP side: the   *)
(* spans follow the stack traces, and those that are reported form a tree  *)
(* (InferredSpanTree).                                                     *)
(***************************************************************************)
EXTENDS RequestSampling, InferredSpanTree, SequenceTheorems, NaturalsInduction,
        WellFoundedInduction, TLAPS

-----------------------------------------------------------------------------
(* The inductive invariant of the sampling thread *)

\* Where the PHP thread is, or will be again after a capture or a fork.
Away == ppc \in {"capturing", "joining", "forking"}
Place == IF Away THEN back ELSE ppc

\* A capture returns into PHP code, a fork into the running request.
ReturnInv ==
    /\ ppc = "capturing" => back \in {"bootstrapping", "running", "ended"}
    /\ ppc \in {"joining", "forking"} => back = "running"

\* What a request's flags say depends on how far the request has come, not on
\* whether it is interrupted by a capture or a fork.
RequestInv ==
    /\ Place \in {"outside", "bootstrapping", "destroying", "gone"} => ~bootstrapped
    /\ Place = "bootstrapping" \/ bootstrapped => ~preloadDetected
    /\ resumed => Place = "running" /\ bootstrapped /\ inferred /\ created

\* A thread that is suspended takes no further turn: it can only be in the one
\* it had begun.
LateInv ==
    /\ late <= 1
    /\ resumed \/ epc = "sleeping" => late = 0

\* Where an interrupt that was asked for is.
CaptureInv ==
    /\ captures + (IF requested THEN 1 ELSE 0) = interrupts
    /\ ppc = "capturing" => pending
    /\ pending => ppc = "capturing" \/ bailed

\* The thread exists as long as the executor does, but for a fork; it leaves its
\* loop only when it was told to, which only prefork and the destructor do.
ThreadInv ==
    /\ ~created => epc = "none"
    /\ created /\ ppc \notin {"forking", "gone"} => epc # "none"
    /\ ppc \in {"forking", "gone"} => epc = "none"
    /\ ~working => created /\ ppc \in {"joining", "forking", "destroying", "gone"}
    /\ epc = "done" => ~working

IInv == TypeOK /\ ReturnInv /\ RequestInv /\ LateInv /\ CaptureInv /\ ThreadInv

\* The type invariant by parts: control states, flags, counters.
Places ==
    /\ ppc \in {"outside", "bootstrapping", "running", "capturing", "joining", "forking",
               "ended", "destroying", "gone"}
    /\ back \in {"outside", "bootstrapping", "running", "ended"}
    /\ epc \in {"none", "starting", "paused", "sleeping", "interrupting", "done"}
Flags ==
    /\ inferred \in BOOLEAN /\ bootstrapped \in BOOLEAN /\ preloadDetected \in BOOLEAN
    /\ hooked \in BOOLEAN /\ bailed \in BOOLEAN
    /\ created \in BOOLEAN /\ working \in BOOLEAN /\ resumed \in BOOLEAN
    /\ requested \in BOOLEAN /\ pending \in BOOLEAN /\ vmInterrupt \in BOOLEAN
Counters ==
    /\ requestCounter \in 0 .. requests
    /\ requests \in 0 .. MaxRequests
    /\ interrupts \in 0 .. MaxInterrupts
    /\ captures \in Nat /\ late \in Nat /\ forks \in 0 .. MaxForks

\* The type invariant in three parts.
LEMMA TypeParts == TypeOK <=> Places /\ Flags /\ Counters
  BY DEF TypeOK, Places, Flags, Counters

\* Every step of the PHP thread and of the executor's thread keeps the invariant.
LEMMA Step ==
    ASSUME IInv, [Next]_vars
    PROVE  IInv'
  <1> USE BoundsAssumption DEF IInv, scopeVars, executorVars, samplerVars, historyVars
  <1>1. CASE \E enabled, inf, preload, restart \in BOOLEAN : RequestInit(enabled, inf, preload, restart)
    <2>0. PICK enabled, inf, preload, restart \in BOOLEAN : RequestInit(enabled, inf, preload, restart)
      BY <1>1
    <2>1. TypeOK'
      <3>1. Places'
        BY <2>0, TypeParts DEF RequestInit, NextCounter, Places
      <3>2. Flags'
        BY <2>0, TypeParts DEF RequestInit, NextCounter, Flags
      <3>3. Counters'
        BY <2>0, TypeParts DEF RequestInit, NextCounter, Counters
      <3>4. QED
        BY <3>1, <3>2, <3>3 DEF TypeOK, Places, Flags, Counters
    <2>2. ReturnInv'
      BY <2>0 DEF RequestInit, NextCounter, TypeOK, ReturnInv
    <2>3. RequestInv'
      BY <2>0 DEF RequestInit, NextCounter, TypeOK, ReturnInv, RequestInv, Place, Away
    <2>4. LateInv'
      BY <2>0 DEF RequestInit, NextCounter, TypeOK, RequestInv, LateInv
    <2>5. CaptureInv'
      BY <2>0 DEF RequestInit, NextCounter, TypeOK, CaptureInv
    <2>6. ThreadInv'
      BY <2>0 DEF RequestInit, NextCounter, TypeOK, ReturnInv, ThreadInv
    <2>7. QED
      BY <2>1, <2>2, <2>3, <2>4, <2>5, <2>6
  <1>2. CASE \E success \in BOOLEAN : Bootstrap(success)
    <2>0. PICK success \in BOOLEAN : Bootstrap(success)
      BY <1>2
    <2>1. TypeOK'
      <3>1. Places'
        BY <2>0, TypeParts DEF Bootstrap, Places
      <3>2. Flags'
        BY <2>0, TypeParts DEF Bootstrap, Flags
      <3>3. Counters'
        BY <2>0, TypeParts DEF Bootstrap, Counters
      <3>4. QED
        BY <3>1, <3>2, <3>3 DEF TypeOK, Places, Flags, Counters
    <2>2. ReturnInv'
      BY <2>0 DEF Bootstrap, TypeOK, ReturnInv
    <2>3. RequestInv'
      BY <2>0 DEF Bootstrap, TypeOK, ReturnInv, RequestInv, Place, Away
    <2>4. LateInv'
      BY <2>0 DEF Bootstrap, TypeOK, RequestInv, LateInv
    <2>5. CaptureInv'
      BY <2>0 DEF Bootstrap, TypeOK, CaptureInv
    <2>6. ThreadInv'
      BY <2>0 DEF Bootstrap, TypeOK, ReturnInv, ThreadInv
    <2>7. QED
      BY <2>1, <2>2, <2>3, <2>4, <2>5, <2>6
  <1>3. CASE RequestShutdown
    BY <1>3 DEF RequestShutdown, SuspendsSampling, TypeOK, ReturnInv, RequestInv, LateInv, CaptureInv, ThreadInv, Place, Away
  <1>4. CASE PostDeactivate
    <2>1. TypeOK'
      <3>1. Places'
        BY <1>4, TypeParts DEF PostDeactivate, Places
      <3>2. Flags'
        BY <1>4, TypeParts DEF PostDeactivate, Flags
      <3>3. Counters'
        BY <1>4, TypeParts DEF PostDeactivate, Counters
      <3>4. QED
        BY <3>1, <3>2, <3>3 DEF TypeOK, Places, Flags, Counters
    <2>2. ReturnInv'
      BY <1>4 DEF PostDeactivate, TypeOK, ReturnInv
    <2>3. RequestInv'
      BY <1>4 DEF PostDeactivate, TypeOK, ReturnInv, RequestInv, Place, Away
    <2>4. LateInv'
      BY <1>4 DEF PostDeactivate, TypeOK, RequestInv, LateInv
    <2>5. CaptureInv'
      BY <1>4 DEF PostDeactivate, TypeOK, CaptureInv
    <2>6. ThreadInv'
      BY <1>4 DEF PostDeactivate, TypeOK, ReturnInv, ThreadInv
    <2>7. QED
      BY <2>1, <2>2, <2>3, <2>4, <2>5, <2>6
  <1>5. CASE InternalFunction
    <2>1. TypeOK'
      <3>1. Places'
        BY <1>5, TypeParts DEF InternalFunction, AttachBacktraceIfInterrupted, RunsPhp, Places
      <3>2. Flags'
        BY <1>5, TypeParts DEF InternalFunction, AttachBacktraceIfInterrupted, RunsPhp, Flags
      <3>3. Counters'
        BY <1>5, TypeParts DEF InternalFunction, AttachBacktraceIfInterrupted, RunsPhp, Counters
      <3>4. QED
        BY <3>1, <3>2, <3>3 DEF TypeOK, Places, Flags, Counters
    <2>2. ReturnInv'
      BY <1>5 DEF InternalFunction, AttachBacktraceIfInterrupted, RunsPhp, TypeOK, ReturnInv
    <2>3. RequestInv'
      BY <1>5 DEF InternalFunction, AttachBacktraceIfInterrupted, RunsPhp, TypeOK, ReturnInv, RequestInv, Place, Away
    <2>4. LateInv'
      BY <1>5 DEF InternalFunction, AttachBacktraceIfInterrupted, RunsPhp, TypeOK, RequestInv, LateInv
    <2>5. CaptureInv'
      BY <1>5 DEF InternalFunction, AttachBacktraceIfInterrupted, RunsPhp, TypeOK, CaptureInv
    <2>6. ThreadInv'
      BY <1>5 DEF InternalFunction, AttachBacktraceIfInterrupted, RunsPhp, TypeOK, ReturnInv, ThreadInv
    <2>7. QED
      BY <2>1, <2>2, <2>3, <2>4, <2>5, <2>6
  <1>6. CASE VmInterrupt
    <2>1. TypeOK'
      <3>1. Places'
        BY <1>6, TypeParts DEF VmInterrupt, AttachBacktraceIfInterrupted, RunsPhp, Places
      <3>2. Flags'
        BY <1>6, TypeParts DEF VmInterrupt, AttachBacktraceIfInterrupted, RunsPhp, Flags
      <3>3. Counters'
        BY <1>6, TypeParts DEF VmInterrupt, AttachBacktraceIfInterrupted, RunsPhp, Counters
      <3>4. QED
        BY <3>1, <3>2, <3>3 DEF TypeOK, Places, Flags, Counters
    <2>2. ReturnInv'
      BY <1>6 DEF VmInterrupt, AttachBacktraceIfInterrupted, RunsPhp, TypeOK, ReturnInv
    <2>3. RequestInv'
      BY <1>6 DEF VmInterrupt, AttachBacktraceIfInterrupted, RunsPhp, TypeOK, ReturnInv, RequestInv, Place, Away
    <2>4. LateInv'
      BY <1>6 DEF VmInterrupt, AttachBacktraceIfInterrupted, RunsPhp, TypeOK, RequestInv, LateInv
    <2>5. CaptureInv'
      BY <1>6 DEF VmInterrupt, AttachBacktraceIfInterrupted, RunsPhp, TypeOK, CaptureInv
    <2>6. ThreadInv'
      BY <1>6 DEF VmInterrupt, AttachBacktraceIfInterrupted, RunsPhp, TypeOK, ReturnInv, ThreadInv
    <2>7. QED
      BY <2>1, <2>2, <2>3, <2>4, <2>5, <2>6
  <1>7. CASE CaptureDone
    <2>1. TypeOK'
      <3>1. Places'
        BY <1>7, TypeParts DEF CaptureDone, Places
      <3>2. Flags'
        BY <1>7, TypeParts DEF CaptureDone, Flags
      <3>3. Counters'
        BY <1>7, TypeParts DEF CaptureDone, Counters
      <3>4. QED
        BY <3>1, <3>2, <3>3 DEF TypeOK, Places, Flags, Counters
    <2>2. ReturnInv'
      BY <1>7 DEF CaptureDone, TypeOK, ReturnInv
    <2>3. RequestInv'
      BY <1>7 DEF CaptureDone, TypeOK, ReturnInv, RequestInv, Place, Away
    <2>4. LateInv'
      BY <1>7 DEF CaptureDone, TypeOK, RequestInv, LateInv
    <2>5. CaptureInv'
      BY <1>7 DEF CaptureDone, TypeOK, CaptureInv
    <2>6. ThreadInv'
      BY <1>7 DEF CaptureDone, TypeOK, ReturnInv, ThreadInv
    <2>7. QED
      BY <2>1, <2>2, <2>3, <2>4, <2>5, <2>6
  <1>8. CASE CaptureBails
    <2>1. TypeOK'
      BY <1>8 DEF CaptureBails, TypeOK
    <2>2. ReturnInv'
      BY <1>8 DEF CaptureBails, TypeOK, ReturnInv
    <2>3. RequestInv'
      BY <1>8 DEF CaptureBails, TypeOK, ReturnInv, RequestInv, Place, Away
    <2>4. LateInv'
      BY <1>8 DEF CaptureBails, TypeOK, RequestInv, LateInv
    <2>5. CaptureInv'
      BY <1>8 DEF CaptureBails, TypeOK, CaptureInv
    <2>6. ThreadInv'
      BY <1>8 DEF CaptureBails, TypeOK, ReturnInv, ThreadInv
    <2>7. QED
      BY <2>1, <2>2, <2>3, <2>4, <2>5, <2>6
  <1>9. CASE TaskLoop
    BY <1>9 DEF TaskLoop, TypeOK, ReturnInv, RequestInv, LateInv, CaptureInv, ThreadInv, Place, Away
  <1>10. CASE SkipInterrupt
    BY <1>10 DEF SkipInterrupt, TypeOK, ReturnInv, RequestInv, LateInv, CaptureInv, ThreadInv, Place, Away
  <1>11. CASE RequestInterrupt
    BY <1>11 DEF RequestInterrupt, TypeOK, ReturnInv, RequestInv, LateInv, CaptureInv, ThreadInv, Place, Away
  <1>12. CASE Interrupt
    BY <1>12 DEF Interrupt, TypeOK, ReturnInv, RequestInv, LateInv, CaptureInv, ThreadInv, Place, Away
  <1>13. CASE Prefork
    <2>1. TypeOK'
      <3>1. Places'
        BY <1>13, TypeParts DEF Prefork, Places
      <3>2. Flags'
        BY <1>13, TypeParts DEF Prefork, Flags
      <3>3. Counters'
        BY <1>13, TypeParts DEF Prefork, Counters
      <3>4. QED
        BY <3>1, <3>2, <3>3 DEF TypeOK, Places, Flags, Counters
    <2>2. ReturnInv'
      BY <1>13 DEF Prefork, TypeOK, ReturnInv
    <2>3. RequestInv'
      BY <1>13 DEF Prefork, TypeOK, ReturnInv, RequestInv, Place, Away
    <2>4. LateInv'
      BY <1>13 DEF Prefork, TypeOK, RequestInv, LateInv
    <2>5. CaptureInv'
      BY <1>13 DEF Prefork, TypeOK, CaptureInv
    <2>6. ThreadInv'
      BY <1>13 DEF Prefork, TypeOK, ReturnInv, ThreadInv
    <2>7. QED
      BY <2>1, <2>2, <2>3, <2>4, <2>5, <2>6
  <1>14. CASE PreforkJoin
    <2>1. TypeOK'
      BY <1>14 DEF PreforkJoin, Joinable, TypeOK
    <2>2. ReturnInv'
      BY <1>14 DEF PreforkJoin, Joinable, TypeOK, ReturnInv
    <2>3. RequestInv'
      BY <1>14 DEF PreforkJoin, Joinable, TypeOK, ReturnInv, RequestInv, Place, Away
    <2>4. LateInv'
      BY <1>14 DEF PreforkJoin, Joinable, TypeOK, RequestInv, LateInv
    <2>5. CaptureInv'
      BY <1>14 DEF PreforkJoin, Joinable, TypeOK, CaptureInv
    <2>6. ThreadInv'
      BY <1>14 DEF PreforkJoin, Joinable, TypeOK, ReturnInv, ThreadInv
    <2>7. QED
      BY <2>1, <2>2, <2>3, <2>4, <2>5, <2>6
  <1>15. CASE Postfork
    BY <1>15 DEF Postfork, TypeOK, ReturnInv, RequestInv, LateInv, CaptureInv, ThreadInv, Place, Away
  <1>16. CASE Destroy
    <2>1. TypeOK'
      <3>1. Places'
        BY <1>16, TypeParts DEF Destroy, Places
      <3>2. Flags'
        BY <1>16, TypeParts DEF Destroy, Flags
      <3>3. Counters'
        BY <1>16, TypeParts DEF Destroy, Counters
      <3>4. QED
        BY <3>1, <3>2, <3>3 DEF TypeOK, Places, Flags, Counters
    <2>2. ReturnInv'
      BY <1>16 DEF Destroy, TypeOK, ReturnInv
    <2>3. RequestInv'
      BY <1>16 DEF Destroy, TypeOK, ReturnInv, RequestInv, Place, Away
    <2>4. LateInv'
      BY <1>16 DEF Destroy, TypeOK, RequestInv, LateInv
    <2>5. CaptureInv'
      BY <1>16 DEF Destroy, TypeOK, CaptureInv
    <2>6. ThreadInv'
      BY <1>16 DEF Destroy, TypeOK, ReturnInv, ThreadInv
    <2>7. QED
      BY <2>1, <2>2, <2>3, <2>4, <2>5, <2>6
  <1>17. CASE DestroyJoin
    <2>1. TypeOK'
      BY <1>17 DEF DestroyJoin, Joinable, TypeOK
    <2>2. ReturnInv'
      BY <1>17 DEF DestroyJoin, Joinable, TypeOK, ReturnInv
    <2>3. RequestInv'
      BY <1>17 DEF DestroyJoin, Joinable, TypeOK, ReturnInv, RequestInv, Place, Away
    <2>4. LateInv'
      BY <1>17 DEF DestroyJoin, Joinable, TypeOK, RequestInv, LateInv
    <2>5. CaptureInv'
      BY <1>17 DEF DestroyJoin, Joinable, TypeOK, CaptureInv
    <2>6. ThreadInv'
      BY <1>17 DEF DestroyJoin, Joinable, TypeOK, ReturnInv, ThreadInv
    <2>7. QED
      BY <2>1, <2>2, <2>3, <2>4, <2>5, <2>6
  <1>18. CASE UNCHANGED vars
    BY <1>18 DEF vars, TypeOK, ReturnInv, RequestInv, LateInv, CaptureInv, ThreadInv, Place, Away
  <1>19. QED
    BY <1>1, <1>2, <1>3, <1>4, <1>5, <1>6, <1>7, <1>8, <1>9, <1>10,
       <1>11, <1>12, <1>13, <1>14, <1>15, <1>16, <1>17, <1>18
    DEF Next, ScopeStep, CaptureStep, ExecutorStep, ForkStep, Gone, vars

\* All behaviours of the process satisfy the invariant.
THEOREM Invariance == Spec => []IInv
  <1>1. Init => IInv
    <2> SUFFICES ASSUME Init PROVE IInv
      OBVIOUS
    <2>1. Places /\ Counters
      BY BoundsAssumption DEF Init, Places, Counters
    <2>2. Flags
      BY DEF Init, Flags
    <2>3. ReturnInv /\ RequestInv /\ LateInv /\ CaptureInv /\ ThreadInv
      BY DEF Init, ReturnInv, RequestInv, LateInv, CaptureInv, ThreadInv, Place, Away
    <2>4. QED
      BY <2>1, <2>2, <2>3, TypeParts DEF IInv
  <1>2. IInv /\ [Next]_vars => IInv'
    BY Step
  <1>3. QED
    BY <1>1, <1>2, PTL DEF Spec

\* The fields of RequestScope, PeriodicTaskExecutor and InferredSpans have their
\* types; a disabled request is not counted.
THEOREM TypeCorrect == Spec => []TypeOK
  <1>1. IInv => TypeOK
    BY DEF IInv
  <1>2. QED
    BY <1>1, Invariance, PTL

\* The executor is resumed only inside a request that was bootstrapped with
\* inferred spans enabled, whatever way onRequestInit took.
THEOREM ResumedInRequests == Spec => []SampledOnlyInRequests
  <1>1. IInv => SampledOnlyInRequests
    BY DEF IInv, ReturnInv, RequestInv, Place, Away, SampledOnlyInRequests
  <1>2. QED
    BY <1>1, Invariance, PTL

\* After suspendPeriodicTasks at most one more interrupt is asked for, every
\* interrupt is captured at most once, and phpSideBacktracePending_ is set during
\* captures only, but for a fatal error in one.
THEOREM InterruptsInStep == Spec => []InterruptsAccounted
  <1>1. IInv => InterruptsAccounted
    BY DEF IInv, LateInv, CaptureInv, InterruptsAccounted
  <1>2. QED
    BY <1>1, Invariance, PTL

\* At fork() there is no executor thread, and none outlives the executor.
THEOREM ThreadlessFork == Spec => []NoThreadAtFork
  <1>1. IInv => NoThreadAtFork
    BY DEF IInv, TypeOK, ThreadInv, NoThreadAtFork
  <1>2. QED
    BY <1>1, Invariance, PTL

-----------------------------------------------------------------------------
(* Induction over the naturals *)

\* The order of the naturals, as a set of pairs.
Less == {p \in Nat \X Nat : p[1] < p[2]}

\* A nonempty set of naturals has a least element.
LEMMA LeastElement ==
    ASSUME NEW T, T \subseteq Nat, T # {}
    PROVE  \E x \in T : \A y \in T : x <= y
<1>1. IsWellFoundedOn(Less, Nat)
  BY NatLessThanWellFounded, Zenon DEF OpToRel, Less
<1>2. \E x \in T : \A y \in T : <<y, x>> \notin Less
  BY <1>1, WFMin
<1>3. \A x, y \in Nat : <<y, x>> \in Less <=> y < x
  BY DEF Less
<1>4. PICK x \in T : \A y \in T : <<y, x>> \notin Less
  BY <1>2
<1>5. ASSUME NEW y \in T PROVE x <= y
  <2>1. x \in Nat /\ y \in Nat /\ ~ (y < x)
    BY <1>3, <1>4
  <2> QED
    BY <2>1
<1> QED
  BY <1>4, <1>5

\* Induction, for the set of the naturals that have a property.
LEMMA Induct ==
    ASSUME NEW S, 0 \in S, \A n \in Nat : n \in S => n + 1 \in S
    PROVE  Nat \subseteq S
<1>1. SUFFICES ASSUME Nat \ S # {} PROVE FALSE
  OBVIOUS
<1>2. PICK x \in Nat \ S : \A y \in Nat \ S : x <= y
  <2> DEFINE T == Nat \ S
  <2>1. T # {} /\ T \subseteq Nat
    BY <1>1
  <2> HIDE DEF T
  <2>2. \E x \in T : \A y \in T : x <= y
    BY <2>1, LeastElement
  <2> QED
    BY <2>2 DEF T
<1>3. x # 0 /\ x - 1 \in Nat /\ ~(x <= x - 1)
  BY <1>2
<1>4. x - 1 \in S
  BY <1>2, <1>3
<1>5. (x - 1) + 1 = x
  BY <1>2
<1> QED
  BY <1>2, <1>3, <1>4, <1>5

-----------------------------------------------------------------------------
(* What a tree of spans is. *)

\* The types of what InferredSpanTree keeps.
AnyFrame == Frames \cup {ApmFrame}
SpanRecord == [inferred : BOOLEAN, parent : Nat, start : Nat, end : Nat, state : {"open", "ended", "dropped"}]
FrameRecord == [frame : AnyFrame, span : Nat, id : Nat]
ScopeRecord == [span : Nat, own : BOOLEAN]

\* The storage holds the root and the open spans, in the order of their start.
WellFormed(sp, st) ==
    /\ sp \in Seq(SpanRecord) /\ st \in Seq(ScopeRecord)
    /\ \A s \in 1 .. Len(sp) : sp[s].parent < s
    /\ Len(st) >= 1 /\ st[1].span = 0
    /\ \A p \in 1 .. Len(st) : st[p] = Scope(st[p].span, TRUE)
    /\ \A p, q \in 1 .. Len(st) : p < q => st[p].span < st[q].span
    /\ \A p \in 1 .. Len(st) : st[p].span = 0 \/ (st[p].span \in 1 .. Len(sp) /\ sp[st[p].span].state = "open")
    /\ \A s \in 1 .. Len(sp) : sp[s].state = "open" => \E p \in 1 .. Len(st) : st[p].span = s

\* The frames after the first lo are those of the open inferred spans.
OnStack(sp, fr, lo) ==
    /\ fr \in Seq(FrameRecord)
    /\ \A i \in 1 .. Len(fr) : fr[i].id >= 1 /\ fr[i].span \in 1 .. Len(sp)
    /\ \A i \in lo + 1 .. Len(fr) : sp[fr[i].span].inferred /\ sp[fr[i].span].state = "open"
    /\ \A i, j \in 1 .. Len(fr) : i < j => fr[i].span > fr[j].span /\ fr[i].id >= fr[j].id
    /\ \A s \in 1 .. Len(sp) : sp[s].inferred /\ sp[s].state = "open" => \E i \in lo + 1 .. Len(fr) : fr[i].span = s

\* A frame hangs under the one below it, under a span of the application or under
\* the root; frames of one capture start together, and nothing but the frame above
\* hangs under one with a frame of its own capture above it.  For the frame above
\* the n-th that is left out.
Hanging(sp, fr, lo, n) ==
    /\ \A i \in lo + 1 .. Len(fr) :
         LET p == sp[fr[i].span].parent
         IN  p = 0 \/ ~sp[p].inferred \/ (i < Len(fr) /\ p = fr[i + 1].span)
    /\ \A i, j \in 1 .. Len(fr) : fr[i].id = fr[j].id => sp[fr[i].span].start = sp[fr[j].span].start
    /\ \A i \in lo + 1 .. Len(fr) - 1 :
         i # n /\ fr[i].id = fr[i + 1].id =>
            \A c \in 1 .. Len(sp) : sp[c].parent = fr[i + 1].span => c = fr[i].span

\* The times of inferred spans: starts up to a, ends up to b.
Timed(sp, a, b) ==
    \A s \in 1 .. Len(sp) : sp[s].inferred =>
        /\ sp[s].start <= a
        /\ sp[s].state = "ended" => sp[s].end <= b /\ sp[s].start + opt.minDuration <= sp[s].end

\* Parents and children.
Nested(sp) ==
    /\ \A s \in 1 .. Len(sp) :
         LET p == sp[s].parent
         IN  sp[s].inferred /\ p # 0 /\ sp[p].inferred =>
                /\ sp[p].start <= sp[s].start
                /\ sp[s].state = "open" => sp[p].state = "open"
                /\ sp[s].state = "ended" /\ sp[p].state = "ended" => sp[s].end <= sp[p].end
    /\ \A s \in 1 .. Len(sp) :
         LET p == sp[s].parent
         IN  p # 0 /\ sp[s].state # "dropped" /\ (sp[s].inferred \/ opt.minDuration = 0) => sp[p].state # "dropped"
    /\ \A s \in 1 .. Len(sp) : ~sp[s].inferred => sp[s].state # "dropped"

\* All of it: the first lo frames have ended, n of them are to end.
IsTree(sp, st, fr, lo, n, a, b) ==
    WellFormed(sp, st) /\ OnStack(sp, fr, lo) /\ Hanging(sp, fr, lo, n) /\ Timed(sp, a, b) /\ Nested(sp)

\* d is st without its k-th element.
Without(S, d, st, k) ==
    /\ d \in Seq(S)
    /\ Len(d) = Len(st) - 1
    /\ \A p \in 1 .. Len(st) - 1 : d[p] = IF p < k THEN st[p] ELSE st[p + 1]

\* Removing an element.
LEMMA Removed ==
  ASSUME NEW S, NEW st \in Seq(S), NEW k \in 1 .. Len(st)
  PROVE  Without(S, RemoveAt(st, k), st, k)
<1> DEFINE a == SubSeq(st, 1, k - 1)
           b == SubSeq(st, k + 1, Len(st))
<1>1. RemoveAt(st, k) = a \o b
  BY Zenon DEF RemoveAt
<1>2. a \in Seq(S) /\ Len(a) = k - 1 /\ \A i \in 1 .. k - 1 : a[i] = st[i]
  BY SMT
<1>3. b \in Seq(S) /\ Len(b) = Len(st) - k /\ \A i \in 1 .. Len(st) - k : b[i] = st[k + i]
  BY SMT
<1> HIDE DEF a, b
<1>4. a \o b \in Seq(S) /\ Len(a \o b) = Len(a) + Len(b)
  BY <1>2, <1>3, ConcatProperties, Zenon
<1>5. ASSUME NEW p \in 1 .. Len(st) - 1
      PROVE  (a \o b)[p] = IF p < k THEN st[p] ELSE st[p + 1]
  <2>1. (a \o b)[p] = IF p <= Len(a) THEN a[p] ELSE b[p - Len(a)]
    BY <1>2, <1>3, ConcatProperties, SMT
  <2>2. CASE p < k
    BY <2>1, <2>2, <1>2, SMT
  <2>3. CASE ~(p < k)
    <3>1. p - Len(a) = p - k + 1 /\ p - k + 1 \in 1 .. Len(st) - k /\ ~(p <= Len(a))
      BY <2>3, <1>2, SMT
    <3>2. b[p - k + 1] = st[k + (p - k + 1)] /\ k + (p - k + 1) = p + 1
      BY <3>1, <1>3, SMT
    <3>3. QED
      BY <3>1, <3>2, <2>1, <2>3, Zenon
  <2>4. QED
    BY <2>2, <2>3, Zenon
<1>6. QED
  <2>1. Len(a) + Len(b) = Len(st) - 1
    BY <1>2, <1>3, SMT
  <2>2. QED
    BY <1>1, <1>4, <1>5, <2>1, Zenon DEF Without

\* The scope of an open span is taken out, the others stay in order.
LEMMA Detached ==
  ASSUME NEW sp, NEW st, WellFormed(sp, st), NEW s \in 1 .. Len(sp), sp[s].state = "open"
  PROVE  \E k \in 2 .. Len(st) :
            /\ st[k].span = s /\ IsAttached(st, s)
            /\ Without(ScopeRecord, Detach(st, s), st, k)
<1> DEFINE k == CHOOSE i \in DOMAIN st : st[i] = Scope(s, TRUE)
<1>1. st \in Seq(ScopeRecord) /\ sp \in Seq(SpanRecord) /\ DOMAIN st = 1 .. Len(st) /\ Len(sp) \in Nat /\ Len(st) \in Nat
  BY SMT DEF WellFormed
<1>2. \E i \in DOMAIN st : st[i] = Scope(s, TRUE)
  <2>1. PICK p \in 1 .. Len(st) : st[p].span = s
    BY Zenon DEF WellFormed
  <2>2. st[p] = Scope(st[p].span, TRUE)
    BY <2>1, Zenon DEF WellFormed
  <2>3. QED
    BY <2>1, <2>2, <1>1, Zenon
<1>3. k \in DOMAIN st /\ st[k] = Scope(s, TRUE)
  BY <1>2, Zenon
<1>4. Detach(st, s) = RemoveAt(st, k) /\ IsAttached(st, s)
  BY <1>2, Zenon DEF Detach, IsAttached
<1> HIDE DEF k
<1>5. st[k].span = s
  BY <1>3, SMT DEF Scope
<1>6. k \in 1 .. Len(st)
  BY <1>1, <1>3, Zenon
<1>7. k # 1
  BY <1>5, SMT DEF WellFormed
<1>8. k \in 2 .. Len(st)
  BY <1>6, <1>7, <1>1, SMT
<1>9. QED
  <2>1. Without(ScopeRecord, RemoveAt(st, k), st, k)
    BY <1>1, <1>6, Removed, Zenon
  <2>2. QED
    BY <1>4, <1>5, <1>8, <2>1, Zenon

-----------------------------------------------------------------------------
(* What a step of compareStackTraces does to its working state. *)

\* The working state of compareStackTraces, as a record.
IsWork(w) ==
    w = [spans |-> w.spans, storage |-> w.storage, frames |-> w.frames,
         previousId |-> w.previousId, failed |-> w.failed, drop |-> w.drop]

\* The working state, but for the spans and the storage.
SameRest(v, w) ==
    v.frames = w.frames /\ v.previousId = w.previousId /\ v.failed = w.failed /\ v.drop = w.drop

\* Too short, or dropped by the reduction.
Drops(sp, s, dropSpan, time) == dropSpan \/ shouldDropTooShortSpan(sp, s, time)

\* What becomes of an open span.
Outcome(sp, s, dropSpan, time) ==
    [inferred |-> sp[s].inferred, parent |-> sp[s].parent, start |-> sp[s].start,
     end |-> IF Drops(sp, s, dropSpan, time) THEN sp[s].end ELSE time,
     state |-> IF Drops(sp, s, dropSpan, time) THEN "dropped" ELSE "ended"]

\* A sequence with one element replaced.
Replaced(new, sp, s, record) ==
    /\ new = [c \in DOMAIN sp |-> new[c]]
    /\ new[s] = record
    /\ \A c \in DOMAIN sp : c # s => new[c] = sp[c]

\* Settle ends or drops an open span, and does nothing else.
LEMMA SettleEffect ==
  ASSUME NEW w, IsWork(w), w.spans \in Seq(SpanRecord), NEW s \in 1 .. Len(w.spans),
         w.spans[s].state = "open", NEW dropSpan, NEW time
  PROVE  /\ IsWork(Settle(w, s, dropSpan, time)) /\ SameRest(Settle(w, s, dropSpan, time), w)
         /\ Settle(w, s, dropSpan, time).storage = w.storage
         /\ Replaced(Settle(w, s, dropSpan, time).spans, w.spans, s, Outcome(w.spans, s, dropSpan, time))
<1> DEFINE r == w.spans[s]
<1>1. s \in DOMAIN w.spans
  BY SMT
<1>2. r \in SpanRecord
  BY SMT
<1>3. r = [inferred |-> r.inferred, parent |-> r.parent, start |-> r.start, end |-> r.end, state |-> r.state]
  BY <1>2, SMT DEF SpanRecord
<1>4. w.spans = [c \in DOMAIN w.spans |-> w.spans[c]]
  BY SMT
<1>5. CASE Drops(w.spans, s, dropSpan, time)
  <2> DEFINE x == [w.spans EXCEPT ![s].state = "dropped"]
  <2>1. Settle(w, s, dropSpan, time) = [w EXCEPT !.spans[s].state = IF @ = "open" THEN "dropped" ELSE @]
    BY <1>5, Zenon DEF Settle, Drops
  <2>2. Settle(w, s, dropSpan, time) = [w EXCEPT !.spans = x]
    BY <2>1, SMT DEF IsWork
  <2>3. x = [c \in DOMAIN w.spans |-> x[c]] /\ \A c \in DOMAIN w.spans : c # s => x[c] = w.spans[c]
    BY <1>1, SMTT(30)
  <2>4. x[s] = [r EXCEPT !.state = "dropped"]
    BY <1>1, SMT
  <2>5. x[s] = [inferred |-> r.inferred, parent |-> r.parent, start |-> r.start, end |-> r.end, state |-> "dropped"]
    BY <2>4, <1>3, SMT
  <2> HIDE DEF x
  <2>6. Outcome(w.spans, s, dropSpan, time) = x[s]
    BY <2>5, <1>5, Zenon DEF Outcome
  <2>7. QED
    BY <2>2, <2>3, <2>6, SMT DEF IsWork, SameRest, Replaced
<1>6. CASE ~Drops(w.spans, s, dropSpan, time)
  <2> DEFINE x == [w.spans EXCEPT ![s].state = "ended", ![s].end = time]
  <2>1. Settle(w, s, dropSpan, time) = [w EXCEPT !.spans = EndAt(@, s, time)]
    BY <1>6, Zenon DEF Settle, Drops
  <2>2. Settle(w, s, dropSpan, time) = [w EXCEPT !.spans = x]
    BY <2>1, SMT DEF IsWork, EndAt
  <2> DEFINE y == [w.spans EXCEPT ![s].state = "ended"]
  <2>a. y = [c \in DOMAIN w.spans |-> y[c]] /\ \A c \in DOMAIN w.spans : c # s => y[c] = w.spans[c]
    BY <1>1, SMTT(30)
  <2>b. y[s] = [r EXCEPT !.state = "ended"]
    BY <1>1, SMT
  <2>c. y[s] = [inferred |-> r.inferred, parent |-> r.parent, start |-> r.start, end |-> r.end, state |-> "ended"]
    BY <2>b, <1>3, SMT
  <2>d. x = [y EXCEPT ![s].end = time]
    OBVIOUS
  <2> HIDE DEF x, y
  <2>e. DOMAIN y = DOMAIN w.spans
    BY <2>a, SMT
  <2>f. x = [c \in DOMAIN y |-> x[c]]
    BY <2>d, Zenon
  <2>g. \A c \in DOMAIN y : c # s => x[c] = y[c]
    BY <2>d, <2>a, <2>e, <1>1, SMT
  <2>3. x = [c \in DOMAIN w.spans |-> x[c]] /\ \A c \in DOMAIN w.spans : c # s => x[c] = w.spans[c]
    BY <2>a, <2>e, <2>f, <2>g, Zenon
  <2>4. x[s] = [y[s] EXCEPT !.end = time]
    BY <1>1, <2>d, <2>e, SMT
  <2>5. x[s] = [inferred |-> r.inferred, parent |-> r.parent, start |-> r.start, end |-> time, state |-> "ended"]
    BY <2>4, <2>c, SMT
  <2> HIDE DEF x
  <2>6. Outcome(w.spans, s, dropSpan, time) = x[s]
    BY <2>5, <1>6, Zenon DEF Outcome
  <2>7. QED
    BY <2>2, <2>3, <2>6, SMT DEF IsWork, SameRest, Replaced
<1>7. QED
  BY <1>5, <1>6, Zenon

\* What endFrameSpan does to an open span in a well-formed storage.
EndsTo(e, w, s, dropSpan, time) ==
    /\ IsWork(e) /\ SameRest(e, w)
    /\ e.storage = Detach(w.storage, s)
    /\ Replaced(e.spans, w.spans, s, Outcome(w.spans, s, dropSpan, time))

\* The branch that leaves an attached span open is for a storage in which its
\* context was attached again.
LEMMA EndEffect ==
  ASSUME opt.sampled, NEW w, IsWork(w), WellFormed(w.spans, w.storage), NEW s \in 1 .. Len(w.spans),
         w.spans[s].state = "open", NEW dropSpan, NEW time
  PROVE  EndsTo(endFrameSpan(w, s, dropSpan, time), w, s, dropSpan, time)
<1> DEFINE d == Detach(w.storage, s)
           x == Settle(w, s, dropSpan, time)
<1>1. PICK k \in 2 .. Len(w.storage) :
            /\ w.storage[k].span = s
            /\ Without(ScopeRecord, d, w.storage, k)
  BY Detached, Zenon
<1>2. Current(d) # s
  <2>0. w.storage \in Seq(ScopeRecord) /\ Len(w.storage) \in Nat
    BY SMT DEF WellFormed
  <2>1. Len(d) \in 1 .. Len(w.storage) - 1 /\ d # <<>>
    BY <1>1, <2>0, SMT DEF Without
  <2>2. Current(d) = d[Len(d)].span
    BY <2>1, Zenon DEF Current, Last
  <2>3. d[Len(d)] = IF Len(d) < k THEN w.storage[Len(d)] ELSE w.storage[Len(d) + 1]
    BY <1>1, <2>1, SMT DEF Without
  <2>4. \A p \in 1 .. Len(w.storage) : p # k => w.storage[p].span # s
    BY <1>1, <2>0, SMT DEF WellFormed
  <2>5. QED
    BY <1>1, <2>0, <2>1, <2>2, <2>3, <2>4, SMT DEF Without
<1> HIDE DEF d
<1>3. endFrameSpan(w, s, dropSpan, time) = [x EXCEPT !.storage = d]
  BY <1>2, Zenon DEF endFrameSpan, d
<1>4. w.spans \in Seq(SpanRecord)
  BY Zenon DEF WellFormed
<1>5. /\ IsWork(x) /\ SameRest(x, w) /\ x.storage = w.storage
      /\ Replaced(x.spans, w.spans, s, Outcome(w.spans, s, dropSpan, time))
  BY <1>4, SettleEffect, Zenon
<1> HIDE DEF x
<1>6. /\ IsWork([x EXCEPT !.storage = d]) /\ SameRest([x EXCEPT !.storage = d], x)
      /\ [x EXCEPT !.storage = d].storage = d /\ [x EXCEPT !.storage = d].spans = x.spans
  BY <1>5, SMT DEF IsWork, SameRest
<1>7. SameRest([x EXCEPT !.storage = d], w)
  BY <1>5, <1>6, Zenon DEF SameRest
<1>8. QED
  BY <1>3, <1>5, <1>6, <1>7, Zenon DEF d, EndsTo

-----------------------------------------------------------------------------
(* The end of the span of a frame keeps the tree. *)

\* What new has kept of sp, and what became of s.
Ended(new, sp, s, drops, time) ==
    /\ new \in Seq(SpanRecord) /\ Len(new) = Len(sp)
    /\ \A c \in 1 .. Len(sp) : /\ new[c].inferred = sp[c].inferred
                               /\ new[c].parent = sp[c].parent
                               /\ new[c].start = sp[c].start
                               /\ c # s => new[c].state = sp[c].state /\ new[c].end = sp[c].end
    /\ drops => new[s].state = "dropped"
    /\ ~drops => new[s].state = "ended" /\ new[s].end = time

\* The spans after endFrameSpan, field by field.
LEMMA EndedOf ==
  ASSUME NEW sp \in Seq(SpanRecord), NEW s \in 1 .. Len(sp), NEW new, NEW drop, NEW time \in Nat,
         Replaced(new, sp, s, Outcome(sp, s, drop, time))
  PROVE  Ended(new, sp, s, Drops(sp, s, drop, time), time)
<1> DEFINE r == Outcome(sp, s, drop, time)
           y == Drops(sp, s, drop, time)
<1>1. DOMAIN sp = 1 .. Len(sp) /\ Len(sp) \in Nat /\ \A c \in 1 .. Len(sp) : sp[c] \in SpanRecord
  BY SMT
<1>2. new = [c \in 1 .. Len(sp) |-> new[c]] /\ new[s] = r /\ \A c \in 1 .. Len(sp) : c # s => new[c] = sp[c]
  BY <1>1, Zenon DEF Replaced
<1>3. sp[s] \in SpanRecord
  BY <1>1, Zenon
<1>4. r = [inferred |-> sp[s].inferred, parent |-> sp[s].parent, start |-> sp[s].start,
           end |-> IF y THEN sp[s].end ELSE time, state |-> IF y THEN "dropped" ELSE "ended"]
  BY Zenon DEF Outcome
<1> HIDE DEF r, y
<1>5. r \in SpanRecord
  BY <1>3, <1>4, SMT DEF SpanRecord
<1>6. \A c \in 1 .. Len(sp) : new[c] \in SpanRecord
  BY <1>1, <1>2, <1>5, Zenon
<1>7. new \in Seq(SpanRecord) /\ Len(new) = Len(sp)
  BY <1>1, <1>2, <1>6, SMT
<1>8. /\ r.inferred = sp[s].inferred /\ r.parent = sp[s].parent /\ r.start = sp[s].start
      /\ (y => r.state = "dropped") /\ (~y => r.state = "ended" /\ r.end = time)
  BY <1>4, SMT
<1>9. Ended(new, sp, s, y, time)
  BY <1>2, <1>7, <1>8, Zenon DEF Ended
<1>10. QED
  BY <1>9 DEF y

\* The storage stays in step when an open span ends and its scope goes.
LEMMA EndWellFormed ==
  ASSUME NEW sp, NEW st, NEW new, NEW s \in 1 .. Len(sp), NEW drops \in BOOLEAN, NEW time,
         WellFormed(sp, st), sp[s].state = "open", Ended(new, sp, s, drops, time)
  PROVE  WellFormed(new, Detach(st, s))
<1> DEFINE d == Detach(st, s)
<1>1. PICK k \in 2 .. Len(st) : st[k].span = s /\ Without(ScopeRecord, d, st, k)
  BY Detached, Zenon
<1> HIDE DEF d
<1>2. /\ st \in Seq(ScopeRecord) /\ Len(st) \in Nat /\ sp \in Seq(SpanRecord) /\ Len(sp) \in Nat
      /\ d \in Seq(ScopeRecord) /\ Len(d) = Len(st) - 1
      /\ \A p \in 1 .. Len(d) : d[p] = IF p < k THEN st[p] ELSE st[p + 1]
      /\ \A p, q \in 1 .. Len(st) : p < q => st[p].span < st[q].span
      /\ \A p \in 1 .. Len(st) : st[p].span \in Nat
  <2>1. /\ st \in Seq(ScopeRecord) /\ sp \in Seq(SpanRecord)
        /\ \A p, q \in 1 .. Len(st) : p < q => st[p].span < st[q].span
    BY Zenon DEF WellFormed
  <2>2. /\ d \in Seq(ScopeRecord) /\ Len(d) = Len(st) - 1
        /\ \A p \in 1 .. Len(st) - 1 : d[p] = IF p < k THEN st[p] ELSE st[p + 1]
    BY <1>1, Zenon DEF Without
  <2>3. Len(st) \in Nat /\ Len(sp) \in Nat /\ \A p \in 1 .. Len(st) : st[p] \in ScopeRecord
    BY <2>1, SMT
  <2>4. \A p \in 1 .. Len(st) : st[p].span \in Nat
    BY <2>3, SMT DEF ScopeRecord
  <2>5. QED
    BY <2>1, <2>2, <2>3, <2>4, Zenon
<1>3. \A p \in 1 .. Len(st) : p # k => st[p].span # s
  BY <1>1, <1>2, SMT
<1>4. new \in Seq(SpanRecord) /\ \A c \in 1 .. Len(new) : new[c].parent < c
  BY Zenon DEF WellFormed, Ended
<1>d. /\ \A p \in 1 .. Len(d) : p < k => d[p] = st[p]
      /\ \A p \in 1 .. Len(d) : ~(p < k) => d[p] = st[p + 1]
  BY <1>2, Zenon
<1>5. Len(d) >= 1 /\ d[1].span = 0
  <2>1. 1 \in 1 .. Len(d) /\ 1 < k /\ Len(d) >= 1
    BY <1>1, <1>2, SMT
  <2>2. QED
    BY <2>1, <1>d, Zenon DEF WellFormed
<1>6. \A p \in 1 .. Len(d) : \E q \in 1 .. Len(st) : q # k /\ d[p] = st[q]
  <2>1. ASSUME NEW p \in 1 .. Len(d) PROVE \E q \in 1 .. Len(st) : q # k /\ d[p] = st[q]
    <3>1. CASE p < k
      BY <1>1, <1>2, <3>1, SMTT(30)
    <3>2. CASE ~(p < k)
      <4>1. p + 1 \in 1 .. Len(st) /\ p + 1 # k /\ d[p] = st[p + 1]
        BY <1>1, <1>2, <3>2, SMT
      <4>2. QED
        BY <4>1
    <3>3. QED
      BY <3>1, <3>2
  <2>2. QED
    BY <2>1
<1>7. \A q \in 1 .. Len(st) : q # k => \E p \in 1 .. Len(d) : d[p] = st[q]
  <2>1. ASSUME NEW q \in 1 .. Len(st), q # k PROVE \E p \in 1 .. Len(d) : d[p] = st[q]
    <3>1. CASE q < k
      <4>1. q \in 1 .. Len(d) /\ d[q] = st[q]
        <5>1. q \in 1 .. Len(d)
          BY <1>1, <1>2, <2>1, <3>1, SMT
        <5>2. QED
          BY <5>1, <3>1, <1>d, Zenon
      <4>2. QED
        BY <4>1
    <3>2. CASE ~(q < k)
      <4>1. q - 1 \in 1 .. Len(d) /\ d[q - 1] = st[(q - 1) + 1] /\ (q - 1) + 1 = q
        BY <1>1, <1>2, <2>1, <3>2, SMT
      <4>2. QED
        BY <4>1
    <3>3. QED
      BY <3>1, <3>2
  <2>2. QED
    BY <2>1
<1>8. \A p \in 1 .. Len(d) : d[p] = Scope(d[p].span, TRUE)
  BY <1>6, Zenon DEF WellFormed
<1>9. \A p, q \in 1 .. Len(d) : p < q => d[p].span < d[q].span
  <2>1. ASSUME NEW p \in 1 .. Len(d), NEW q \in 1 .. Len(d), p < q PROVE d[p].span < d[q].span
    <3>1. /\ p \in 1 .. Len(st) /\ p + 1 \in 1 .. Len(st) /\ q \in 1 .. Len(st) /\ q + 1 \in 1 .. Len(st)
          /\ p < q + 1 /\ p + 1 < q + 1 /\ (q < k => p < k)
      BY <1>1, <1>2, <2>1, SMT
    <3>2. CASE q < k
      BY <3>1, <3>2, <2>1, <1>2, <1>d, Zenon
    <3>3. CASE ~(q < k) /\ p < k
      BY <3>1, <3>3, <1>2, <1>d, Zenon
    <3>4. CASE ~(q < k) /\ ~(p < k)
      BY <3>1, <3>4, <1>2, <1>d, Zenon
    <3>5. QED
      BY <3>2, <3>3, <3>4
  <2>2. QED
    BY <2>1
<1>10. \A p \in 1 .. Len(d) : d[p].span = 0 \/ (d[p].span \in 1 .. Len(new) /\ new[d[p].span].state = "open")
  <2>1. ASSUME NEW p \in 1 .. Len(d), d[p].span # 0
        PROVE  d[p].span \in 1 .. Len(new) /\ new[d[p].span].state = "open"
    <3>1. PICK q \in 1 .. Len(st) : q # k /\ d[p] = st[q]
      BY <1>6, Zenon
    <3>2. d[p].span \in 1 .. Len(sp) /\ sp[d[p].span].state = "open" /\ d[p].span # s
      BY <2>1, <3>1, <1>3, Zenon DEF WellFormed
    <3>3. QED
      BY <3>2, Zenon DEF Ended
  <2>2. QED
    BY <2>1, Zenon
<1>11. \A c \in 1 .. Len(new) : new[c].state = "open" => \E p \in 1 .. Len(d) : d[p].span = c
  <2>1. ASSUME NEW c \in 1 .. Len(new), new[c].state = "open" PROVE \E p \in 1 .. Len(d) : d[p].span = c
    <3>1. c \in 1 .. Len(sp)
      BY Zenon DEF Ended
    <3>2. new[s].state # "open"
      BY SMT DEF Ended
    <3>3. sp[c].state = "open" /\ c # s
      BY <2>1, <3>1, <3>2, Zenon DEF Ended
    <3>4. PICK q \in 1 .. Len(st) : st[q].span = c
      BY <3>1, <3>3, Zenon DEF WellFormed
    <3>5. q # k
      BY <3>3, <3>4, <1>1, Zenon
    <3>6. QED
      BY <3>4, <3>5, <1>7, Zenon
  <2>2. QED
    BY <2>1, Zenon
<1>12. WellFormed(new, d)
  BY <1>2, <1>4, <1>5, <1>8, <1>9, <1>10, <1>11, Zenon DEF WellFormed
<1>13. QED
  BY <1>12 DEF d

\* The types of a tree's parts.
LEMMA TreeTypes ==
  ASSUME NEW sp, NEW st, NEW fr, NEW lo, WellFormed(sp, st), OnStack(sp, fr, lo)
  PROVE  /\ sp \in Seq(SpanRecord) /\ Len(sp) \in Nat /\ fr \in Seq(FrameRecord) /\ Len(fr) \in Nat
         /\ \A s \in 1 .. Len(sp) : /\ sp[s].inferred \in BOOLEAN /\ sp[s].parent \in Nat /\ sp[s].start \in Nat
                                    /\ sp[s].end \in Nat /\ sp[s].state \in {"open", "ended", "dropped"}
                                    /\ sp[s].parent < s /\ (sp[s].parent # 0 => sp[s].parent \in 1 .. Len(sp))
         /\ \A i \in 1 .. Len(fr) : fr[i].span \in 1 .. Len(sp) /\ fr[i].id \in Nat
<1>1. sp \in Seq(SpanRecord) /\ fr \in Seq(FrameRecord) /\ Len(sp) \in Nat /\ Len(fr) \in Nat
  BY SMT DEF WellFormed, OnStack
<1>2. ASSUME NEW s \in 1 .. Len(sp)
      PROVE  /\ sp[s].inferred \in BOOLEAN /\ sp[s].parent \in Nat /\ sp[s].start \in Nat
             /\ sp[s].end \in Nat /\ sp[s].state \in {"open", "ended", "dropped"}
             /\ sp[s].parent < s /\ (sp[s].parent # 0 => sp[s].parent \in 1 .. Len(sp))
  <2>1. sp[s] \in SpanRecord
    BY <1>1, SMT
  <2>2. /\ sp[s].inferred \in BOOLEAN /\ sp[s].parent \in Nat /\ sp[s].start \in Nat
        /\ sp[s].end \in Nat /\ sp[s].state \in {"open", "ended", "dropped"}
    BY <2>1, SMT DEF SpanRecord
  <2>3. sp[s].parent < s
    BY Zenon DEF WellFormed
  <2>4. sp[s].parent # 0 => sp[s].parent \in 1 .. Len(sp)
    BY <2>2, <2>3, <1>1, SMT
  <2>5. QED
    BY <2>2, <2>3, <2>4
<1>3. ASSUME NEW i \in 1 .. Len(fr) PROVE fr[i].span \in 1 .. Len(sp) /\ fr[i].id \in Nat
  <2>1. fr[i] \in FrameRecord
    BY <1>1, SMT
  <2>2. QED
    BY <2>1, SMT DEF FrameRecord, OnStack
<1>4. QED
  BY <1>1, <1>2, <1>3, Zenon

\* Ending the innermost frame whose span is open keeps the tree; a span that the
\* reduction drops has no child left that is reported.
LEMMA EndStep ==
  ASSUME opt.minDuration \in Nat, NEW sp, NEW st, NEW fr, NEW new, NEW i \in 1 .. Len(fr), NEW n,
         NEW a \in Nat, NEW b \in Nat, a <= b, NEW drop \in BOOLEAN,
         WellFormed(sp, st), OnStack(sp, fr, i - 1), Hanging(sp, fr, i, n), Timed(sp, a, b), Nested(sp),
         drop => \A c \in 1 .. Len(sp) : sp[c].parent = fr[i].span => sp[c].state = "dropped",
         Replaced(new, sp, fr[i].span, Outcome(sp, fr[i].span, drop, b))
  PROVE  IsTree(new, Detach(st, fr[i].span), fr, i, n, a, b)
<1> DEFINE s == fr[i].span
           drops == Drops(sp, s, drop, b)
<1>t. /\ sp \in Seq(SpanRecord) /\ Len(sp) \in Nat /\ fr \in Seq(FrameRecord) /\ Len(fr) \in Nat
      /\ \A c \in 1 .. Len(sp) : /\ sp[c].inferred \in BOOLEAN /\ sp[c].parent \in Nat /\ sp[c].start \in Nat
                                 /\ sp[c].end \in Nat /\ sp[c].state \in {"open", "ended", "dropped"}
                                 /\ sp[c].parent < c /\ (sp[c].parent # 0 => sp[c].parent \in 1 .. Len(sp))
      /\ \A j \in 1 .. Len(fr) : fr[j].span \in 1 .. Len(sp) /\ fr[j].id \in Nat
  BY TreeTypes, Zenon
<1>s. s \in 1 .. Len(sp) /\ sp[s].inferred /\ sp[s].state = "open"
  <2>1. i \in (i - 1) + 1 .. Len(fr)
    BY <1>t, SMT
  <2>2. QED
    BY <2>1, <1>t, Zenon DEF OnStack
<1>e. Ended(new, sp, s, drops, b)
  BY <1>t, <1>s, EndedOf, Zenon
<1>b. drops \in BOOLEAN
  BY Zenon DEF Drops, shouldDropTooShortSpan
<1>f. /\ new \in Seq(SpanRecord) /\ Len(new) = Len(sp)
      /\ \A c \in 1 .. Len(sp) : /\ new[c].inferred = sp[c].inferred
                                 /\ new[c].parent = sp[c].parent
                                 /\ new[c].start = sp[c].start
                                 /\ c # s => new[c].state = sp[c].state /\ new[c].end = sp[c].end
      /\ drops => new[s].state = "dropped"
      /\ ~drops => new[s].state = "ended" /\ new[s].end = b
  BY <1>e, Zenon DEF Ended
<1>1. WellFormed(new, Detach(st, s))
  BY <1>b, <1>s, <1>e, EndWellFormed, Zenon
<1>x. /\ drop => drops
      /\ drops => drop \/ (opt.minDuration > 0 /\ b - sp[s].start < opt.minDuration)
      /\ ~drops => ~(opt.minDuration > 0 /\ b - sp[s].start < opt.minDuration)
  BY Zenon DEF Drops, shouldDropTooShortSpan
<1> HIDE DEF drops
<1>o. \A j \in 1 .. Len(fr) : j # i => fr[j].span # s
  BY <1>t, SMT DEF OnStack
<1>i. \A j : j \in i + 1 .. Len(fr) => j \in 1 .. Len(fr) /\ j \in (i - 1) + 1 .. Len(fr) /\ j # i
  BY <1>t, SMT
<1>2. OnStack(new, fr, i)
  <2>1. \A j \in 1 .. Len(fr) : fr[j].id >= 1 /\ fr[j].span \in 1 .. Len(new)
    BY <1>f, Zenon DEF OnStack
  <2>2. ASSUME NEW j \in i + 1 .. Len(fr)
        PROVE  new[fr[j].span].inferred /\ new[fr[j].span].state = "open"
    <3>1. j \in 1 .. Len(fr) /\ j \in (i - 1) + 1 .. Len(fr) /\ j # i
      BY <1>i, Zenon
    <3>2. sp[fr[j].span].inferred /\ sp[fr[j].span].state = "open"
      BY <3>1, Zenon DEF OnStack
    <3>3. fr[j].span \in 1 .. Len(sp) /\ fr[j].span # s
      BY <3>1, <1>t, <1>o, Zenon
    <3>4. QED
      BY <3>2, <3>3, <1>f, Zenon
  <2>3. ASSUME NEW c \in 1 .. Len(new), new[c].inferred, new[c].state = "open"
        PROVE  \E j \in i + 1 .. Len(fr) : fr[j].span = c
    <3>1. c \in 1 .. Len(sp) /\ c # s
      BY <2>3, <1>f, <1>b, SMT
    <3>2. sp[c].inferred /\ sp[c].state = "open"
      BY <3>1, <2>3, <1>f, Zenon
    <3>3. PICK j \in (i - 1) + 1 .. Len(fr) : fr[j].span = c
      BY <3>1, <3>2, Zenon DEF OnStack
    <3>4. j # i
      BY <3>1, <3>3, Zenon
    <3>5. j \in i + 1 .. Len(fr)
      BY <3>3, <3>4, <1>t, SMT
    <3>6. QED
      BY <3>3, <3>5, Zenon
  <2>4. QED
    BY <1>t, <2>1, <2>2, <2>3, Zenon DEF OnStack
<1>3. Hanging(new, fr, i, n)
  <2>1. ASSUME NEW j \in i + 1 .. Len(fr)
        PROVE  LET p == new[fr[j].span].parent
               IN  p = 0 \/ ~new[p].inferred \/ (j < Len(fr) /\ p = fr[j + 1].span)
    <3>0. fr[j].span \in 1 .. Len(sp)
      BY <1>i, <1>t, Zenon
    <3> DEFINE q == sp[fr[j].span].parent
    <3>1. new[fr[j].span].parent = q /\ (q # 0 => new[q].inferred = sp[q].inferred)
      BY <3>0, <1>t, <1>f, Zenon
    <3>2. q = 0 \/ ~sp[q].inferred \/ (j < Len(fr) /\ q = fr[j + 1].span)
      BY Zenon DEF Hanging
    <3> HIDE DEF q
    <3>3. QED
      BY <3>1, <3>2, Zenon
  <2>2. ASSUME NEW j \in 1 .. Len(fr), NEW k \in 1 .. Len(fr), fr[j].id = fr[k].id
        PROVE  new[fr[j].span].start = new[fr[k].span].start
    <3>1. sp[fr[j].span].start = sp[fr[k].span].start
      BY <2>2, Zenon DEF Hanging
    <3>2. fr[j].span \in 1 .. Len(sp) /\ fr[k].span \in 1 .. Len(sp)
      BY <1>t, Zenon
    <3>3. QED
      BY <3>1, <3>2, <1>f, Zenon
  <2>3. ASSUME NEW j \in i + 1 .. Len(fr) - 1, j # n, fr[j].id = fr[j + 1].id,
               NEW c \in 1 .. Len(new), new[c].parent = fr[j + 1].span
        PROVE  c = fr[j].span
    BY <2>3, <1>f, Zenon DEF Hanging
  <2>4. QED
    BY <2>1, <2>2, <2>3, Zenon DEF Hanging
<1>4. Timed(new, a, b)
  <2>1. ASSUME NEW c \in 1 .. Len(new), new[c].inferred
        PROVE  /\ new[c].start <= a
               /\ new[c].state = "ended" => new[c].end <= b /\ new[c].start + opt.minDuration <= new[c].end
    <3>1. c \in 1 .. Len(sp) /\ sp[c].inferred /\ new[c].start = sp[c].start /\ sp[c].start <= a
      BY <1>f, <2>1, Zenon DEF Timed
    <3>2. CASE c # s
      BY <3>1, <3>2, <1>f, Zenon DEF Timed
    <3>3. CASE c = s /\ drops
      BY <3>1, <3>3, <1>f, SMT
    <3>4. CASE c = s /\ ~drops
      <4>1. new[c].end = b /\ new[c].start \in Nat
        BY <3>1, <3>4, <1>f, <1>t, Zenon
      <4>2. ~(opt.minDuration > 0 /\ b - new[c].start < opt.minDuration)
        BY <3>1, <3>4, <1>x, Zenon
      <4>3. QED
        BY <4>1, <4>2, <3>1, SMT
    <3>5. QED
      BY <3>2, <3>3, <3>4, <1>b, Zenon
  <2>2. QED
    BY <2>1, Zenon DEF Timed
<1>5. Nested(new)
  \* No span under s is open.
  <2>1. ASSUME NEW c \in 1 .. Len(sp), sp[c].parent = s, sp[c].inferred PROVE sp[c].state # "open"
    <3>1. SUFFICES ASSUME sp[c].state = "open" PROVE FALSE
      BY Zenon
    <3>2. PICK j \in (i - 1) + 1 .. Len(fr) : fr[j].span = c
      BY <2>1, <3>1, Zenon DEF OnStack
    <3>3. s < c /\ c \in Nat /\ s \in Nat
      BY <2>1, <1>t, <1>s, SMT
    <3>4. j # i /\ j \in 1 .. Len(fr) /\ (j > i \/ j = i)
      BY <3>2, <3>3, <1>t, SMT
    <3>5. fr[i].span > fr[j].span
      BY <3>4, SMT DEF OnStack
    <3>6. QED
      BY <3>2, <3>3, <3>5, SMT
  \* A span that is dropped leaves no child behind.
  <2>2. ASSUME drops, NEW c \in 1 .. Len(sp), sp[c].parent = s, sp[c].inferred \/ opt.minDuration = 0
        PROVE  sp[c].state = "dropped"
    <3>1. CASE drop
      BY <3>1, <2>2, Zenon
    <3>2. CASE ~drop
      <4>1. opt.minDuration > 0 /\ b - sp[s].start < opt.minDuration
        BY <3>2, <2>2, <1>x, Zenon
      <4>2. sp[c].inferred /\ sp[c].state # "open"
        BY <4>1, <2>1, <2>2, SMT
      <4>3. sp[s].start <= sp[c].start
        <5>1. s # 0
          BY <1>s, SMT
        <5>2. QED
          BY <5>1, <2>2, <4>2, <1>s, Zenon DEF Nested
      <4>4. sp[c].state = "ended" => sp[c].end <= b /\ sp[c].start + opt.minDuration <= sp[c].end
        BY <4>2, Zenon DEF Timed
      <4>5. sp[c].state # "ended"
        <5>1. sp[c].start \in Nat /\ sp[c].end \in Nat /\ sp[s].start \in Nat
          BY <1>t, <1>s, Zenon
        <5>2. \A x, y, z, d \in Nat : b - x < d /\ x <= y /\ y + d <= z => ~(z <= b)
          BY SMT
        <5>3. QED
          BY <4>1, <4>3, <4>4, <5>1, <5>2, Zenon
      <4>6. QED
        BY <4>2, <4>5, <1>t, Zenon
    <3>3. QED
      BY <3>1, <3>2, Zenon
  <2>3. ASSUME NEW c \in 1 .. Len(new), new[c].inferred, new[c].parent # 0, new[new[c].parent].inferred
        PROVE  /\ new[new[c].parent].start <= new[c].start
               /\ new[c].state = "open" => new[new[c].parent].state = "open"
               /\ new[c].state = "ended" /\ new[new[c].parent].state = "ended" => new[c].end <= new[new[c].parent].end
    <3> DEFINE p == sp[c].parent
    <3>1. c \in 1 .. Len(sp) /\ p \in 1 .. Len(sp) /\ new[c].parent = p /\ sp[c].inferred /\ sp[p].inferred /\ p # 0
      BY <2>3, <1>f, <1>t, Zenon
    <3>2. /\ sp[p].start <= sp[c].start
          /\ sp[c].state = "open" => sp[p].state = "open"
          /\ sp[c].state = "ended" /\ sp[p].state = "ended" => sp[c].end <= sp[p].end
      BY <3>1, Zenon DEF Nested
    <3>3. c # p
      BY <3>1, <1>t, SMT
    <3> HIDE DEF p
    <3>4. new[p].start <= new[c].start
      BY <3>1, <3>2, <1>f, Zenon
    <3>5. new[c].state = "open" => new[p].state = "open"
      <4>1. SUFFICES ASSUME new[c].state = "open" PROVE new[p].state = "open"
        BY Zenon
      <4>2. c # s
        BY <4>1, <1>f, <1>b, SMT
      <4>3. sp[c].state = "open"
        BY <4>1, <4>2, <3>1, <1>f, Zenon
      <4>4. p # s
        BY <4>3, <2>1, <3>1, Zenon DEF p
      <4>5. QED
        BY <4>3, <4>4, <3>1, <3>2, <1>f, Zenon
    <3>6. new[c].state = "ended" /\ new[p].state = "ended" => new[c].end <= new[p].end
      <4>1. SUFFICES ASSUME new[c].state = "ended", new[p].state = "ended" PROVE new[c].end <= new[p].end
        BY Zenon
      <4>2. CASE c = s
        <5>1. sp[p].state = "open"
          BY <4>2, <3>2, <1>s, Zenon
        <5>2. new[p].state = "open"
          BY <5>1, <4>2, <3>1, <3>3, <1>f, Zenon
        <5>3. QED
          BY <5>2, <4>1, SMT
      <4>3. CASE p = s
        <5>1. ~drops /\ new[p].end = b
          BY <4>1, <4>3, <1>f, <1>b, SMT
        <5>2. sp[c].state = "ended" /\ new[c].end = sp[c].end
          BY <4>1, <4>3, <3>1, <3>3, <1>f, Zenon
        <5>3. sp[c].end <= b
          BY <5>2, <3>1, Zenon DEF Timed
        <5>4. QED
          BY <5>1, <5>2, <5>3, Zenon
      <4>4. CASE c # s /\ p # s
        BY <4>1, <4>4, <3>1, <3>2, <1>f, Zenon
      <4>5. QED
        BY <4>2, <4>3, <4>4, Zenon
    <3>7. QED
      BY <3>1, <3>4, <3>5, <3>6, Zenon
  <2>4. ASSUME NEW c \in 1 .. Len(new), new[c].parent # 0, new[c].state # "dropped", new[c].inferred \/ opt.minDuration = 0
        PROVE  new[new[c].parent].state # "dropped"
    <3> DEFINE p == sp[c].parent
    <3>1. c \in 1 .. Len(sp) /\ p \in 1 .. Len(sp) /\ new[c].parent = p /\ (sp[c].inferred \/ opt.minDuration = 0) /\ p # 0
      BY <2>4, <1>f, <1>t, Zenon
    <3>2. c # p
      BY <3>1, <1>t, SMT
    <3>3. sp[c].state # "dropped"
      <4>1. CASE c = s
        BY <4>1, <1>s, SMT
      <4>2. CASE c # s
        BY <4>2, <2>4, <3>1, <1>f, Zenon
      <4>3. QED
        BY <4>1, <4>2, Zenon
    <3>4. sp[p].state # "dropped"
      BY <3>1, <3>3, Zenon DEF Nested
    <3>5. CASE p # s
      BY <3>5, <3>1, <3>4, <1>f, Zenon
    <3>6. CASE p = s
      <4>1. ~drops
        BY <3>1, <3>3, <3>6, <2>2, Zenon
      <4>2. QED
        BY <4>1, <3>1, <3>6, <1>f, SMT
    <3>7. QED
      BY <3>5, <3>6, Zenon
  <2>5. ASSUME NEW c \in 1 .. Len(new), ~new[c].inferred PROVE new[c].state # "dropped"
    <3>1. c \in 1 .. Len(sp) /\ ~sp[c].inferred /\ c # s
      BY <2>5, <1>f, <1>s, Zenon
    <3>2. QED
      BY <3>1, <1>f, Zenon DEF Nested
  <2>6. QED
    BY <2>3, <2>4, <2>5, Zenon DEF Nested
<1>6. QED
  BY <1>1, <1>2, <1>3, <1>4, <1>5, Zenon DEF IsTree

-----------------------------------------------------------------------------
(* Moving a span to the parent of the last frame of its capture keeps the tree. *)

\* The spans after the parent of one was replaced.
Moved(new, sp, s, q) ==
    /\ new \in Seq(SpanRecord) /\ Len(new) = Len(sp)
    /\ \A c \in 1 .. Len(sp) : /\ new[c].inferred = sp[c].inferred
                               /\ new[c].start = sp[c].start
                               /\ new[c].end = sp[c].end
                               /\ new[c].state = sp[c].state
                               /\ c # s => new[c].parent = sp[c].parent
    /\ new[s].parent = q

\* Moving the innermost span of a capture to the parent of the outermost one keeps
\* the tree: what lies between them is about to be dropped.
LEMMA MoveStep ==
  ASSUME NEW sp, NEW st, NEW fr, NEW new, NEW n \in 1 .. Len(fr), NEW i \in 1 .. n, NEW m \in i + 1 .. n,
         NEW a, NEW b, IsTree(sp, st, fr, i - 1, n, a, b),
         fr[m].id = fr[i].id, m < n => fr[m + 1].id # fr[i].id,
         Moved(new, sp, fr[i].span, sp[fr[m].span].parent)
  PROVE  /\ WellFormed(new, st) /\ OnStack(new, fr, i - 1) /\ Hanging(new, fr, i, n)
         /\ Timed(new, a, b) /\ Nested(new)
<1> DEFINE s == fr[i].span
           u == fr[m].span
           q == sp[u].parent
<1>0. WellFormed(sp, st) /\ OnStack(sp, fr, i - 1) /\ Hanging(sp, fr, i - 1, n) /\ Timed(sp, a, b) /\ Nested(sp)
  BY Zenon DEF IsTree
<1>t. /\ sp \in Seq(SpanRecord) /\ Len(sp) \in Nat /\ fr \in Seq(FrameRecord) /\ Len(fr) \in Nat
      /\ \A c \in 1 .. Len(sp) : /\ sp[c].inferred \in BOOLEAN /\ sp[c].parent \in Nat /\ sp[c].start \in Nat
                                 /\ sp[c].end \in Nat /\ sp[c].state \in {"open", "ended", "dropped"}
                                 /\ sp[c].parent < c /\ (sp[c].parent # 0 => sp[c].parent \in 1 .. Len(sp))
      /\ \A j \in 1 .. Len(fr) : fr[j].span \in 1 .. Len(sp) /\ fr[j].id \in Nat
  BY <1>0, TreeTypes, Zenon
<1>r. /\ i \in 1 .. Len(fr) /\ m \in 1 .. Len(fr) /\ i < m /\ i \in (i - 1) + 1 .. Len(fr) /\ m \in (i - 1) + 1 .. Len(fr)
      /\ \A j : j \in i + 1 .. Len(fr) => j \in 1 .. Len(fr) /\ j \in (i - 1) + 1 .. Len(fr) /\ j # i /\ i < j
      /\ \A j : j \in i + 1 .. Len(fr) - 1 => j \in i + 1 .. Len(fr) /\ j + 1 \in i + 1 .. Len(fr) /\ j \in (i - 1) + 1 .. Len(fr) - 1
  BY <1>t, SMTT(30)
<1>s. s \in 1 .. Len(sp) /\ sp[s].inferred /\ sp[s].state = "open"
  BY <1>r, <1>t, <1>0, Zenon DEF OnStack
<1>u. u \in 1 .. Len(sp) /\ sp[u].inferred /\ sp[u].state = "open"
  BY <1>r, <1>t, <1>0, Zenon DEF OnStack
<1>q. q \in Nat /\ q < s /\ (q # 0 => q \in 1 .. Len(sp)) /\ sp[u].start = sp[s].start
  <2>1. s > u
    BY <1>r, <1>0, Zenon DEF OnStack
  <2>2. q \in Nat /\ q < u /\ (q # 0 => q \in 1 .. Len(sp))
    BY <1>u, <1>t, Zenon
  <2>3. sp[u].start = sp[s].start
    BY <1>r, <1>0, Zenon DEF Hanging
  <2>4. q < s
    BY <2>1, <2>2, <1>s, <1>u, SMT
  <2>5. QED
    BY <2>2, <2>3, <2>4, Zenon
<1>f. /\ new \in Seq(SpanRecord) /\ Len(new) = Len(sp)
      /\ \A c \in 1 .. Len(sp) : /\ new[c].inferred = sp[c].inferred
                                 /\ new[c].start = sp[c].start
                                 /\ new[c].end = sp[c].end
                                 /\ new[c].state = sp[c].state
                                 /\ c # s => new[c].parent = sp[c].parent
      /\ new[s].parent = q
  BY Zenon DEF Moved
<1>h. q = 0 \/ ~sp[q].inferred \/ (m < Len(fr) /\ q = fr[m + 1].span)
  BY <1>r, <1>0, Zenon DEF Hanging
<1>o. \A j, k \in 1 .. Len(fr) : fr[j].span = fr[k].span => j = k
  BY <1>0, <1>t, SMT DEF OnStack
<1> HIDE DEF s, u, q
<1>1. WellFormed(new, st)
  <2>1. \A c \in 1 .. Len(new) : new[c].parent < c
    BY <1>f, <1>q, <1>t, Zenon
  <2>2. \A p \in 1 .. Len(st) : st[p].span = 0 \/ (st[p].span \in 1 .. Len(new) /\ new[st[p].span].state = "open")
    BY <1>0, <1>f, Zenon DEF WellFormed
  <2>3. \A c \in 1 .. Len(new) : new[c].state = "open" => \E p \in 1 .. Len(st) : st[p].span = c
    BY <1>0, <1>f, Zenon DEF WellFormed
  <2>4. QED
    BY <1>0, <1>f, <2>1, <2>2, <2>3, Zenon DEF WellFormed
<1>2. OnStack(new, fr, i - 1)
  <2>1. \A j \in 1 .. Len(fr) : fr[j].id >= 1 /\ fr[j].span \in 1 .. Len(new)
    BY <1>0, <1>f, Zenon DEF OnStack
  <2>2. ASSUME NEW j \in (i - 1) + 1 .. Len(fr) PROVE new[fr[j].span].inferred /\ new[fr[j].span].state = "open"
    <3>1. j \in 1 .. Len(fr)
      BY <1>t, SMT
    <3>2. fr[j].span \in 1 .. Len(sp) /\ sp[fr[j].span].inferred /\ sp[fr[j].span].state = "open"
      BY <3>1, <1>0, <1>t, Zenon DEF OnStack
    <3>3. QED
      BY <3>2, <1>f, Zenon
  <2>3. \A c \in 1 .. Len(new) : new[c].inferred /\ new[c].state = "open" => \E j \in (i - 1) + 1 .. Len(fr) : fr[j].span = c
    BY <1>0, <1>f, Zenon DEF OnStack
  <2>4. QED
    BY <1>0, <2>1, <2>2, <2>3, Zenon DEF OnStack
<1>3. Hanging(new, fr, i, n)
  <2>1. ASSUME NEW j \in i + 1 .. Len(fr)
        PROVE  LET p == new[fr[j].span].parent
               IN  p = 0 \/ ~new[p].inferred \/ (j < Len(fr) /\ p = fr[j + 1].span)
    <3>0. fr[j].span \in 1 .. Len(sp) /\ fr[j].span # s
      BY <1>r, <1>t, <1>o, Zenon DEF s
    <3> DEFINE p == sp[fr[j].span].parent
    <3>1. new[fr[j].span].parent = p /\ (p # 0 => new[p].inferred = sp[p].inferred)
      BY <3>0, <1>t, <1>f, Zenon
    <3>2. p = 0 \/ ~sp[p].inferred \/ (j < Len(fr) /\ p = fr[j + 1].span)
      BY <1>r, <1>0, Zenon DEF Hanging
    <3> HIDE DEF p
    <3>3. QED
      BY <3>1, <3>2, Zenon
  <2>2. ASSUME NEW j \in 1 .. Len(fr), NEW k \in 1 .. Len(fr), fr[j].id = fr[k].id
        PROVE  new[fr[j].span].start = new[fr[k].span].start
    <3>1. sp[fr[j].span].start = sp[fr[k].span].start
      BY <2>2, <1>0, Zenon DEF Hanging
    <3>2. fr[j].span \in 1 .. Len(sp) /\ fr[k].span \in 1 .. Len(sp)
      BY <1>t, Zenon
    <3>3. QED
      BY <3>1, <3>2, <1>f, Zenon
  <2>3. ASSUME NEW j \in i + 1 .. Len(fr) - 1, j # n, fr[j].id = fr[j + 1].id,
               NEW c \in 1 .. Len(new), new[c].parent = fr[j + 1].span
        PROVE  c = fr[j].span
    <3>1. CASE c # s
      <4>1. sp[c].parent = fr[j + 1].span /\ c \in 1 .. Len(sp)
        BY <3>1, <2>3, <1>f, Zenon
      <4>2. QED
        BY <4>1, <2>3, <1>0, <1>r, Zenon DEF Hanging
    <3>2. CASE c = s
      <4>1. q = fr[j + 1].span
        BY <3>2, <2>3, <1>f, Zenon
      <4>2. j + 1 \in 1 .. Len(fr) /\ j + 1 \in (i - 1) + 1 .. Len(fr)
        BY <1>r, Zenon
      <4>3. q # 0 /\ sp[q].inferred
        <5>1. fr[j + 1].span \in 1 .. Len(sp) /\ sp[fr[j + 1].span].inferred
          BY <4>2, <1>t, <1>0, Zenon DEF OnStack
        <5>2. QED
          BY <5>1, <4>1, SMT
      <4>4. m < Len(fr) /\ fr[m + 1].span = fr[j + 1].span
        BY <4>1, <4>3, <1>h, Zenon
      <4>5. m + 1 \in 1 .. Len(fr)
        BY <4>4, <1>r, <1>t, SMT
      <4>6. m + 1 = j + 1
        BY <4>2, <4>4, <4>5, <1>o, Zenon
      <4>7. m = j /\ m < n
        BY <4>6, <2>3, <1>r, SMT
      <4>8. QED
        BY <4>7, <2>3, Zenon
    <3>3. QED
      BY <3>1, <3>2, Zenon
  <2>4. QED
    BY <2>1, <2>2, <2>3, Zenon DEF Hanging
<1>4. Timed(new, a, b)
  <2>1. ASSUME NEW c \in 1 .. Len(new), new[c].inferred
        PROVE  /\ new[c].start <= a
               /\ new[c].state = "ended" => new[c].end <= b /\ new[c].start + opt.minDuration <= new[c].end
    <3>1. c \in 1 .. Len(sp) /\ sp[c].inferred /\ new[c].start = sp[c].start /\ new[c].state = sp[c].state /\ new[c].end = sp[c].end
      BY <1>f, <2>1, Zenon
    <3>2. /\ sp[c].start <= a
          /\ sp[c].state = "ended" => sp[c].end <= b /\ sp[c].start + opt.minDuration <= sp[c].end
      BY <3>1, <1>0, Zenon DEF Timed
    <3>3. QED
      BY <3>1, <3>2, Zenon
  <2>2. QED
    BY <2>1, Zenon DEF Timed
<1>5. Nested(new)
  <2> DEFINE Within(c, p) ==
               /\ sp[p].start <= sp[c].start
               /\ sp[c].state = "open" => sp[p].state = "open"
               /\ sp[c].state = "ended" /\ sp[p].state = "ended" => sp[c].end <= sp[p].end
  <2>1. ASSUME NEW c \in 1 .. Len(new), new[c].parent # 0
        PROVE  /\ c \in 1 .. Len(sp) /\ new[c].parent \in 1 .. Len(sp)
               /\ sp[c].inferred /\ sp[new[c].parent].inferred => Within(c, new[c].parent)
               /\ sp[c].state # "dropped" /\ (sp[c].inferred \/ opt.minDuration = 0) => sp[new[c].parent].state # "dropped"
    <3>1. CASE c # s
      <4>1. c \in 1 .. Len(sp) /\ new[c].parent = sp[c].parent /\ sp[c].parent # 0 /\ sp[c].parent \in 1 .. Len(sp)
        BY <3>1, <2>1, <1>f, <1>t, Zenon
      <4>2. QED
        BY <4>1, <1>0, Zenon DEF Nested
    <3>2. CASE c = s
      <4>1. new[c].parent = q /\ q # 0 /\ q \in 1 .. Len(sp)
        BY <3>2, <2>1, <1>f, <1>q, Zenon
      <4>2. sp[q].inferred => /\ sp[q].start <= sp[u].start
                              /\ sp[u].state = "open" => sp[q].state = "open"
        BY <4>1, <1>u, <1>0, Zenon DEF Nested, q
      <4>3. sp[q].state # "dropped"
        <5>1. sp[u].state # "dropped"
          BY <1>u, SMT
        <5>2. QED
          BY <5>1, <4>1, <1>u, <1>0, Zenon DEF Nested, q
      <4>4. sp[s].state # "ended"
        BY <1>s, SMT
      <4>5. sp[q].inferred => Within(s, q)
        BY <4>2, <4>4, <1>s, <1>u, <1>q, Zenon
      <4>6. QED
        BY <4>1, <4>3, <4>5, <3>2, <1>s, Zenon
    <3>3. QED
      BY <3>1, <3>2, Zenon
  <2>2. ASSUME NEW c \in 1 .. Len(new), new[c].inferred, new[c].parent # 0, new[new[c].parent].inferred
        PROVE  /\ new[new[c].parent].start <= new[c].start
               /\ new[c].state = "open" => new[new[c].parent].state = "open"
               /\ new[c].state = "ended" /\ new[new[c].parent].state = "ended" => new[c].end <= new[new[c].parent].end
    <3> DEFINE p == new[c].parent
    <3>1. c \in 1 .. Len(sp) /\ p \in 1 .. Len(sp)
      BY <2>1, <2>2, Zenon
    <3>2. Within(c, p)
      BY <2>1, <2>2, <3>1, <1>f, Zenon
    <3>3. QED
      BY <3>1, <3>2, <1>f, Zenon
  <2>3. ASSUME NEW c \in 1 .. Len(new), new[c].parent # 0, new[c].state # "dropped", new[c].inferred \/ opt.minDuration = 0
        PROVE  new[new[c].parent].state # "dropped"
    BY <2>1, <2>3, <1>f, Zenon
  <2>4. \A c \in 1 .. Len(new) : ~new[c].inferred => new[c].state # "dropped"
    BY <1>0, <1>f, Zenon DEF Nested
  <2>5. QED
    BY <2>2, <2>3, <2>4, Zenon DEF Nested
<1>6. QED
  BY <1>1, <1>2, <1>3, <1>4, <1>5, Zenon

-----------------------------------------------------------------------------
(* The greatest element *)

\* The greatest of some naturals.
LEMMA MaxOf ==
  ASSUME NEW lo \in Nat, NEW hi \in Nat, NEW T, T \subseteq lo .. hi, T # {}
  PROVE  Max(T) \in T /\ \A y \in T : Max(T) >= y
<1> DEFINE D == {d \in Nat : hi - d \in T}
<1>1. D \subseteq Nat /\ D # {}
  <2>1. PICK x \in T : TRUE
    OBVIOUS
  <2>2. x \in lo .. hi
    BY <2>1
  <2>3. hi - x \in Nat /\ hi - (hi - x) = x
    BY <2>2, SMT
  <2>4. hi - x \in D
    BY <2>1, <2>3, Zenon
  <2>5. QED
    BY <2>4, Zenon
<1>2. PICK d \in D : \A e \in D : d <= e
  <2> HIDE DEF D
  <2>1. QED
    BY <1>1, LeastElement, Zenon
<1>3. hi - d \in T /\ d \in Nat
  BY <1>2, Zenon
<1>4. ASSUME NEW y \in T PROVE hi - d >= y
  <2>1. y \in lo .. hi
    OBVIOUS
  <2>2. hi - y \in Nat /\ hi - (hi - y) = y /\ y \in Nat
    BY <2>1, SMT
  <2>3. hi - y \in D
    BY <2>2, Zenon
  <2>4. d <= hi - y
    BY <2>3, <1>2, Zenon
  <2>5. QED
    BY <2>2, <2>4, <1>3, SMT
<1>5. \E x \in T : \A y \in T : x >= y
  BY <1>3, <1>4, Zenon
<1>6. QED
  BY <1>5, Zenon DEF Max

-----------------------------------------------------------------------------
(* What shouldReduceFrame does *)

\* What shouldReduceFrame finds out about the i-th frame.
Repeats(w, old, i) == w.previousId = old[i].id
Moves(w, old, i, n) == ~Repeats(w, old, i) /\ opt.sampled /\ SameCapture(old, i, n) # {}
Fails(w, old, i, n) == IF Moves(w, old, i, n) THEN ~opt.canSetParent ELSE w.failed
LastParent(w, old, i, n) == w.spans[old[Max(SameCapture(old, i, n))].span].parent

\* The spans with the parent of one replaced, if b.
Reparented(sp, s, b, q) == [sp EXCEPT ![s].parent = IF b THEN q ELSE @]

\* What shouldReduceFrame leaves.
ReducesTo(r, w, old, i, n) ==
    /\ IsWork(r) /\ r.frames = w.frames /\ r.storage = w.storage
    /\ r.previousId = old[i].id /\ r.failed = Fails(w, old, i, n)
    /\ r.drop = (Repeats(w, old, i) /\ ~Fails(w, old, i, n))
    /\ r.spans = Reparented(w.spans, old[i].span, Moves(w, old, i, n) /\ opt.canSetParent, LastParent(w, old, i, n))

\* It leaves that.
LEMMA ReduceEffect ==
  ASSUME NEW w, IsWork(w), NEW old, NEW i, NEW n
  PROVE  ReducesTo(shouldReduceFrame(w, old, i, n), w, old, i, n)
<1> DEFINE r == shouldReduceFrame(w, old, i, n)
           x == [w.spans EXCEPT ![old[i].span].parent =
                              IF Moves(w, old, i, n) /\ opt.canSetParent THEN LastParent(w, old, i, n) ELSE @]
           d == Repeats(w, old, i) /\ ~Fails(w, old, i, n)
           f == Fails(w, old, i, n)
<1>1. r = [w EXCEPT !.drop = d, !.previousId = old[i].id, !.failed = f,
                    !.spans[old[i].span].parent = IF Moves(w, old, i, n) /\ opt.canSetParent THEN LastParent(w, old, i, n) ELSE @]
  BY Zenon DEF shouldReduceFrame, Repeats, Moves, Fails, LastParent
<1>2. r = [w EXCEPT !.drop = d, !.previousId = old[i].id, !.failed = f, !.spans = x]
  BY <1>1, SMT DEF IsWork
<1> HIDE DEF r, x, d, f
<1>a. r = [spans |-> x, storage |-> w.storage, frames |-> w.frames, previousId |-> old[i].id, failed |-> f, drop |-> d]
  BY <1>2, Zenon DEF IsWork
<1>3. /\ IsWork(r) /\ r.frames = w.frames /\ r.storage = w.storage
      /\ r.previousId = old[i].id /\ r.failed = f /\ r.drop = d /\ r.spans = x
  BY <1>a, Zenon DEF IsWork
<1>4. QED
  BY <1>3, Zenon DEF r, x, d, f, ReducesTo, Reparented

-----------------------------------------------------------------------------
(* One turn of the loop that ends the spans of frames that are gone *)

\* After the first i of n frames.
Ending(w, old, i, n, b) ==
    /\ IsWork(w) /\ w.drop \in BOOLEAN /\ w.failed \in BOOLEAN
    /\ IsTree(w.spans, w.storage, old, i, n, captured, b)
    /\ ~opt.reduction => ~w.drop
    /\ opt.reduction => /\ i = 0 => w.previousId = 0
                        /\ i # 0 => w.previousId = old[i].id
    /\ opt.reduction /\ i # 0 /\ i < n /\ old[i].id = old[i + 1].id =>
          /\ w.failed <=> ~opt.canSetParent
          /\ opt.canSetParent =>
                \A c \in 1 .. Len(w.spans) : w.spans[c].parent = old[i + 1].span => w.spans[c].state = "dropped"

\* The spans after shouldReduceFrame.
LEMMA MovedOf ==
  ASSUME NEW sp \in Seq(SpanRecord), NEW s \in 1 .. Len(sp), NEW b \in BOOLEAN, NEW q, b => q \in Nat, NEW new,
         new = Reparented(sp, s, b, q)
  PROVE  /\ ~b => new = sp
         /\ b => Moved(new, sp, s, q)
<1> DEFINE r == sp[s]
<1>1. DOMAIN sp = 1 .. Len(sp) /\ Len(sp) \in Nat /\ \A c \in 1 .. Len(sp) : sp[c] \in SpanRecord
  BY SMT
<1>2. r = [inferred |-> r.inferred, parent |-> r.parent, start |-> r.start, end |-> r.end, state |-> r.state]
  BY <1>1, SMT DEF SpanRecord
<1>d. new = [sp EXCEPT ![s].parent = IF b THEN q ELSE @]
  BY Zenon DEF Reparented
<1>a. new = [c \in DOMAIN sp |-> new[c]]
  BY <1>d, Zenon
<1>b. new[s] = [r EXCEPT !.parent = IF b THEN q ELSE @]
  BY <1>1, <1>d, SMT
<1>c. \A c \in DOMAIN sp : c # s => new[c] = sp[c]
  BY <1>d, SMT
<1>3. /\ new = [c \in 1 .. Len(sp) |-> new[c]] /\ new[s] = [r EXCEPT !.parent = IF b THEN q ELSE @]
      /\ \A c \in 1 .. Len(sp) : c # s => new[c] = sp[c]
  BY <1>1, <1>a, <1>b, <1>c, Zenon
<1>4. sp = [c \in 1 .. Len(sp) |-> sp[c]]
  BY <1>1, SMT
<1>5. CASE ~b
  <2>1. new[s] = [r EXCEPT !.parent = r.parent]
    BY <1>3, <1>5, SMT
  <2>2. new[s] = r
    BY <2>1, <1>2, SMT
  <2>3. \A c \in 1 .. Len(sp) : new[c] = sp[c]
    BY <2>2, <1>3, Zenon
  <2>4. new = sp
    BY <2>3, <1>3, <1>4, SMT
  <2>5. QED
    BY <2>4, <1>5, Zenon
<1>6. CASE b
  <2> HIDE DEF r
  <2>1. new[s] = [r EXCEPT !.parent = q]
    BY <1>3, <1>6, Zenon
  <2>2. new[s] = [inferred |-> r.inferred, parent |-> q, start |-> r.start, end |-> r.end, state |-> r.state]
    BY <2>1, <1>2, SMT
  <2>3. r \in SpanRecord
    BY <1>1, Zenon DEF r
  <2>4. new[s] \in SpanRecord
    BY <2>2, <2>3, <1>6, SMT DEF SpanRecord
  <2>5. \A c \in 1 .. Len(sp) : new[c] \in SpanRecord
    BY <2>4, <1>1, <1>3, Zenon
  <2>6. new \in Seq(SpanRecord) /\ Len(new) = Len(sp)
    BY <1>1, <1>3, <2>5, SMT
  <2>7. /\ new[s].inferred = sp[s].inferred /\ new[s].start = sp[s].start /\ new[s].end = sp[s].end
        /\ new[s].state = sp[s].state /\ new[s].parent = q
    <3>1. /\ new[s].inferred = r.inferred /\ new[s].start = r.start /\ new[s].end = r.end
          /\ new[s].state = r.state /\ new[s].parent = q
      BY <2>2, SMT
    <3>2. QED
      BY <3>1, Zenon DEF r
  <2>8. Moved(new, sp, s, q)
    BY <2>6, <2>7, <1>3, Zenon DEF Moved
  <2>9. QED
    BY <2>8, <1>6, Zenon
<1>7. QED
  BY <1>5, <1>6, Zenon

\* The last frame of the capture.
LEMMA LastOfCapture ==
  ASSUME NEW old \in Seq(FrameRecord), NEW n \in 1 .. Len(old), NEW i \in 1 .. n, SameCapture(old, i, n) # {}
  PROVE  LET m == Max(SameCapture(old, i, n))
         IN  m \in i + 1 .. n /\ old[m].id = old[i].id /\ (m < n => old[m + 1].id # old[i].id)
<1> DEFINE T == SameCapture(old, i, n)
           m == Max(T)
<1>1. T \subseteq i + 1 .. n /\ i + 1 \in Nat /\ n \in Nat
  BY SMT DEF SameCapture
<1>2. m \in T /\ \A y \in T : m >= y
  <2> HIDE DEF T
  <2>1. QED
    BY <1>1, MaxOf, Zenon DEF T
<1> HIDE DEF m
<1>3. m \in i + 1 .. n /\ \A k \in i .. m : old[k].id = old[i].id
  BY <1>2, Zenon DEF SameCapture
<1>4. m \in i .. m
  BY <1>3, SMT
<1>5. ASSUME m < n, old[m + 1].id = old[i].id PROVE FALSE
  <2>1. m + 1 \in i + 1 .. n /\ ~(m >= m + 1)
    BY <1>3, <1>5, SMT
  <2>2. ASSUME NEW k \in i .. m + 1 PROVE old[k].id = old[i].id
    <3>1. k \in i .. m \/ k = m + 1
      BY <1>3, SMT
    <3>2. QED
      BY <3>1, <1>3, <1>5, Zenon
  <2>3. m + 1 \in T
    BY <2>1, <2>2, Zenon DEF SameCapture
  <2>4. QED
    BY <2>1, <2>3, <1>2, Zenon
<1>6. QED
  BY <1>3, <1>4, <1>5, Zenon DEF m

\* A frame has the next one in its capture.
LEMMA NextInCapture ==
  ASSUME NEW old, NEW n \in Nat, NEW i \in Nat, i < n, old[i].id = old[i + 1].id
  PROVE  SameCapture(old, i, n) # {}
<1>1. i + 1 \in i + 1 .. n
  BY SMT
<1>2. \A k \in i .. i + 1 : k = i \/ k = i + 1
  BY SMT
<1>3. i + 1 \in SameCapture(old, i, n)
  BY <1>1, <1>2, Zenon DEF SameCapture
<1>4. QED
  BY <1>3, Zenon

\* Hanging of fewer frames.
LEMMA HangingLess ==
  ASSUME NEW sp, NEW fr \in Seq(FrameRecord), NEW i \in 1 .. Len(fr), NEW n, Hanging(sp, fr, i - 1, n)
  PROVE  Hanging(sp, fr, i, n)
<1>1. /\ \A j : j \in i + 1 .. Len(fr) => j \in (i - 1) + 1 .. Len(fr)
      /\ \A j : j \in i + 1 .. Len(fr) - 1 => j \in (i - 1) + 1 .. Len(fr) - 1
  BY SMT
<1>2. QED
  BY <1>1, Zenon DEF Hanging

\* A turn of the first loop: the tree stays one, and once the innermost frame of a
\* capture was seen, nothing that is reported hangs under the rest of it.
LEMMA EndTurn ==
  ASSUME opt.minDuration \in Nat, opt.sampled, opt.reduction \in BOOLEAN, opt.canSetParent \in BOOLEAN,
         captured \in Nat, NEW b \in Nat, captured <= b, NEW w, NEW old, NEW n \in 1 .. Len(old), NEW i \in 1 .. n,
         Ending(w, old, i - 1, n, b)
  PROVE  Ending(endOldFrame(w, old, i, n, b), old, i, n, b)
<1> DEFINE sp == w.spans
           st == w.storage
           s == old[i].span
           r == IF opt.reduction THEN shouldReduceFrame(w, old, i, n) ELSE w
           rs == r.spans
           e == endFrameSpan(r, s, r.drop, b)
<1>0. /\ IsWork(w) /\ w.drop \in BOOLEAN /\ w.failed \in BOOLEAN
      /\ IsTree(sp, st, old, i - 1, n, captured, b)
      /\ ~opt.reduction => ~w.drop
      /\ opt.reduction => /\ i - 1 = 0 => w.previousId = 0
                          /\ i - 1 # 0 => w.previousId = old[i - 1].id
      /\ opt.reduction /\ i - 1 # 0 /\ i - 1 < n /\ old[i - 1].id = old[(i - 1) + 1].id =>
            /\ w.failed <=> ~opt.canSetParent
            /\ opt.canSetParent =>
                  \A c \in 1 .. Len(sp) : sp[c].parent = old[(i - 1) + 1].span => sp[c].state = "dropped"
  BY Zenon DEF Ending
<1>1. /\ WellFormed(sp, st) /\ OnStack(sp, old, i - 1) /\ Hanging(sp, old, i - 1, n)
      /\ Timed(sp, captured, b) /\ Nested(sp)
  BY <1>0, Zenon DEF IsTree
<1>t. /\ sp \in Seq(SpanRecord) /\ Len(sp) \in Nat /\ old \in Seq(FrameRecord) /\ Len(old) \in Nat
      /\ \A c \in 1 .. Len(sp) : /\ sp[c].inferred \in BOOLEAN /\ sp[c].parent \in Nat /\ sp[c].start \in Nat
                                 /\ sp[c].end \in Nat /\ sp[c].state \in {"open", "ended", "dropped"}
                                 /\ sp[c].parent < c /\ (sp[c].parent # 0 => sp[c].parent \in 1 .. Len(sp))
      /\ \A j \in 1 .. Len(old) : old[j].span \in 1 .. Len(sp) /\ old[j].id \in Nat
  BY <1>1, TreeTypes, Zenon
<1>i. /\ n \in Nat /\ i \in Nat /\ i \in 1 .. Len(old) /\ i \in (i - 1) + 1 .. Len(old) /\ (i - 1) + 1 = i /\ i - 1 < n /\ i # 0
      /\ i < n => i + 1 \in 1 .. Len(old) /\ i \in (i - 1) + 1 .. Len(old) - 1 /\ i # n
  BY <1>t, SMT
<1>s. s \in 1 .. Len(sp) /\ sp[s].inferred /\ sp[s].state = "open"
  BY <1>i, <1>t, <1>1, Zenon DEF OnStack
<1>h. Hanging(sp, old, i, n)
  BY <1>1, <1>i, <1>t, HangingLess, Zenon
<1>u. endOldFrame(w, old, i, n, b) = e
  BY Zenon DEF endOldFrame
\* Up to the end of the span.
<1>2. /\ IsWork(r) /\ r.drop \in BOOLEAN /\ r.failed \in BOOLEAN /\ r.storage = st
      /\ WellFormed(rs, st) /\ OnStack(rs, old, i - 1) /\ Hanging(rs, old, i, n) /\ Timed(rs, captured, b) /\ Nested(rs)
      /\ r.drop => \A c \in 1 .. Len(rs) : rs[c].parent = s => rs[c].state = "dropped"
      /\ ~opt.reduction => ~r.drop
      /\ opt.reduction => r.previousId = old[i].id
      /\ opt.reduction /\ i < n /\ old[i].id = old[i + 1].id =>
            /\ r.failed <=> ~opt.canSetParent
            /\ opt.canSetParent =>
                  \A c \in 1 .. Len(rs) : rs[c].parent = old[i + 1].span => c = s /\ r.drop
      /\ rs[s].state = "open" /\ Len(rs) = Len(sp)
  <2>1. CASE ~opt.reduction
    <3>1. r = w
      BY <2>1, Zenon
    <3>2. QED
      BY <3>1, <2>1, <1>0, <1>1, <1>h, <1>s, Zenon
  <2>2. CASE opt.reduction
    <3> DEFINE moves == Moves(w, old, i, n)
               q == LastParent(w, old, i, n)
               m == Max(SameCapture(old, i, n))
    <3>1. /\ IsWork(r) /\ r.storage = st /\ r.previousId = old[i].id /\ r.failed = Fails(w, old, i, n)
          /\ r.drop = (Repeats(w, old, i) /\ ~Fails(w, old, i, n))
          /\ rs = Reparented(sp, s, moves /\ opt.canSetParent, q)
      <4>1. r = shouldReduceFrame(w, old, i, n)
        BY <2>2, Zenon
      <4> HIDE DEF r
      <4>2. QED
        <5>1. ReducesTo(r, w, old, i, n)
          BY <4>1, <1>0, ReduceEffect, Zenon
        <5>2. QED
          BY <5>1, Zenon DEF ReducesTo
    <3> HIDE DEF r
    <3>2. moves \in BOOLEAN /\ Repeats(w, old, i) \in BOOLEAN /\ Fails(w, old, i, n) \in BOOLEAN
      BY <1>0, Zenon DEF Moves, Repeats, Fails
    \* A frame of the same capture as the one above it.
    <3>3. ASSUME Repeats(w, old, i)
          PROVE  /\ ~moves /\ Fails(w, old, i, n) = w.failed /\ (w.failed <=> ~opt.canSetParent)
                 /\ opt.canSetParent => \A c \in 1 .. Len(sp) : sp[c].parent = s => sp[c].state = "dropped"
      <4>1. i - 1 # 0
        <5>1. SUFFICES ASSUME i - 1 = 0 PROVE FALSE
          BY Zenon
        <5>2. old[i].id = 0
          BY <5>1, <2>2, <3>3, <1>0, Zenon DEF Repeats
        <5>3. old[i].id >= 1
          BY <1>1, <1>i, Zenon DEF OnStack
        <5>4. QED
          BY <5>2, <5>3, SMT
      <4>2. old[i - 1].id = old[(i - 1) + 1].id
        BY <4>1, <2>2, <3>3, <1>0, <1>i, Zenon DEF Repeats
      <4>3. ~moves /\ Fails(w, old, i, n) = w.failed
        BY <3>3, Zenon DEF Moves, Fails
      <4>4. QED
        BY <4>1, <4>2, <4>3, <2>2, <1>0, <1>i, Zenon
    <3>4. CASE ~(moves /\ opt.canSetParent)
      <4>1. rs = sp
        <5> DEFINE x == moves /\ opt.canSetParent
        <5>1. x \in BOOLEAN /\ ~x /\ (x => q \in Nat) /\ rs = Reparented(sp, s, x, q)
          BY <3>1, <3>2, <3>4, Zenon
        <5> HIDE DEF x, q, moves, sp
        <5>2. sp \in Seq(SpanRecord) /\ s \in 1 .. Len(sp)
          BY <1>t, <1>s, Zenon
        <5> HIDE DEF s
        <5>3. QED
          BY <5>1, <5>2, MovedOf, Zenon
      <4>2. r.drop => \A c \in 1 .. Len(rs) : rs[c].parent = s => rs[c].state = "dropped"
        BY <4>1, <3>1, <3>3, Zenon
      <4>3. ASSUME i < n, old[i].id = old[i + 1].id
            PROVE  /\ r.failed <=> ~opt.canSetParent
                   /\ opt.canSetParent => \A c \in 1 .. Len(rs) : rs[c].parent = old[i + 1].span => c = s /\ r.drop
        <5>1. \A c \in 1 .. Len(rs) : rs[c].parent = old[i + 1].span => c = s
          BY <4>1, <4>3, <1>1, <1>i, Zenon DEF Hanging
        <5>2. CASE Repeats(w, old, i)
          BY <5>1, <5>2, <3>1, <3>3, Zenon
        <5>3. CASE ~Repeats(w, old, i)
          <6>1. SameCapture(old, i, n) # {}
            BY <4>3, <1>i, NextInCapture, Zenon
          <6>2. moves
            BY <5>3, <6>1, Zenon DEF Moves
          <6>3. ~opt.canSetParent /\ r.failed = ~opt.canSetParent
            BY <6>2, <3>4, <3>1, Zenon DEF Fails
          <6>4. QED
            BY <6>3, Zenon
        <5>4. QED
          BY <5>2, <5>3, Zenon
      <4>4. QED
        BY <4>1, <4>2, <4>3, <3>1, <3>2, <2>2, <1>1, <1>h, <1>s, Zenon
    <3>5. CASE moves /\ opt.canSetParent
      <4>1. SameCapture(old, i, n) # {} /\ ~Repeats(w, old, i)
        BY <3>5, Zenon DEF Moves
      <4>2. m \in i + 1 .. n /\ old[m].id = old[i].id /\ (m < n => old[m + 1].id # old[i].id)
        BY <4>1, <1>t, LastOfCapture, Zenon
      <4>3. q = sp[old[m].span].parent
        BY Zenon DEF LastParent
      <4> HIDE DEF m, q
      <4>4. m \in 1 .. Len(old) /\ i < m /\ m \in Nat
        BY <4>2, <1>t, SMT
      <4>5. old[m].span \in 1 .. Len(sp) /\ q \in Nat /\ q < old[m].span
        BY <4>3, <4>4, <1>t, Zenon
      <4>7. Moved(rs, sp, s, q)
        BY <3>1, <3>2, <3>5, <4>5, <1>t, <1>s, MovedOf, Zenon
      <4>8. WellFormed(rs, st) /\ OnStack(rs, old, i - 1) /\ Hanging(rs, old, i, n) /\ Timed(rs, captured, b) /\ Nested(rs)
        BY <4>2, <4>3, <4>7, <1>0, MoveStep, Zenon
      <4>9. ~r.drop /\ r.failed = ~opt.canSetParent
        BY <4>1, <3>1, <3>5, Zenon DEF Fails
      <4>10. ASSUME i < n, old[i].id = old[i + 1].id, NEW c \in 1 .. Len(rs), rs[c].parent = old[i + 1].span PROVE FALSE
        <5>1. CASE c = s
          <6>1. q = old[i + 1].span
            BY <5>1, <4>7, <4>10, Zenon DEF Moved
          <6>2. m = i + 1 \/ i + 1 < m
            BY <4>2, <4>4, SMT
          <6>3. old[i + 1].span > old[m].span \/ old[i + 1].span = old[m].span
            BY <6>2, <4>4, <4>10, <1>i, <1>1, Zenon DEF OnStack
          <6>4. QED
            BY <6>1, <6>3, <4>5, SMT
        <5>2. CASE c # s
          <6>1. sp[c].parent = old[i + 1].span /\ c \in 1 .. Len(sp)
            BY <5>2, <4>7, <4>10, Zenon DEF Moved
          <6>2. c = s
            BY <6>1, <4>10, <1>1, <1>i, Zenon DEF Hanging
          <6>3. QED
            BY <5>2, <6>2, Zenon
        <5>3. QED
          BY <5>1, <5>2, Zenon
      <4>11. rs[s].state = "open" /\ Len(rs) = Len(sp)
        BY <4>7, <1>s, Zenon DEF Moved
      <4>12. QED
        BY <4>8, <4>9, <4>10, <4>11, <3>1, <3>2, <3>5, <2>2, Zenon
    <3>6. QED
      BY <3>4, <3>5, Zenon
  <2>3. QED
    BY <2>1, <2>2, Zenon
<1> HIDE DEF r
<1>3. /\ IsWork(e) /\ SameRest(e, r) /\ e.storage = Detach(st, s)
      /\ Replaced(e.spans, rs, s, Outcome(rs, s, r.drop, b))
  <2>1. WellFormed(rs, r.storage) /\ s \in 1 .. Len(rs)
    BY <1>2, <1>s, Zenon
  <2>2. IsWork(r) /\ r.spans[s].state = "open" /\ r.storage = st
    BY <1>2, Zenon
  <2>3. EndsTo(e, r, s, r.drop, b)
    BY <2>1, <2>2, EndEffect, Zenon
  <2>4. QED
    BY <2>2, <2>3, Zenon DEF EndsTo
<1> HIDE DEF e, rs
<1>4. IsTree(e.spans, e.storage, old, i, n, captured, b)
  <2>1. WellFormed(rs, st) /\ OnStack(rs, old, i - 1) /\ Hanging(rs, old, i, n) /\ Timed(rs, captured, b) /\ Nested(rs)
    BY <1>2, Zenon
  <2>2. r.drop \in BOOLEAN /\ (r.drop => \A c \in 1 .. Len(rs) : rs[c].parent = old[i].span => rs[c].state = "dropped")
    BY <1>2, Zenon
  <2>3. Replaced(e.spans, rs, old[i].span, Outcome(rs, old[i].span, r.drop, b))
    BY <1>3, Zenon
  <2>4. i \in 1 .. Len(old)
    BY <1>i, Zenon
  <2>5. IsTree(e.spans, Detach(st, old[i].span), old, i, n, captured, b)
    BY <2>1, <2>2, <2>3, <2>4, EndStep, Zenon
  <2>6. QED
    BY <2>5, <1>3, Zenon
<1>5. Ended(e.spans, rs, s, Drops(rs, s, r.drop, b), b)
  <2>1. rs \in Seq(SpanRecord) /\ s \in 1 .. Len(rs)
    BY <1>2, <1>s, Zenon DEF WellFormed
  <2>2. QED
    BY <2>1, <1>3, EndedOf, Zenon
<1>6. ASSUME opt.reduction, i < n, old[i].id = old[i + 1].id
      PROVE  /\ e.failed <=> ~opt.canSetParent
             /\ opt.canSetParent =>
                  \A c \in 1 .. Len(e.spans) : e.spans[c].parent = old[i + 1].span => e.spans[c].state = "dropped"
  <2>1. /\ r.failed <=> ~opt.canSetParent
        /\ opt.canSetParent => \A c \in 1 .. Len(rs) : rs[c].parent = old[i + 1].span => c = s /\ r.drop
    BY <1>2, <1>6, Zenon
  <2>2. r.drop => e.spans[s].state = "dropped"
    BY <1>5, Zenon DEF Ended, Drops
  <2>3. Len(e.spans) = Len(rs) /\ \A c \in 1 .. Len(rs) : e.spans[c].parent = rs[c].parent
    BY <1>5, Zenon DEF Ended
  <2>4. QED
    BY <2>1, <2>2, <2>3, <1>3, Zenon DEF SameRest
<1>7. Ending(e, old, i, n, b)
  BY <1>2, <1>3, <1>4, <1>6, <1>i, Zenon DEF Ending, SameRest
<1>8. QED
  BY <1>7, <1>u, Zenon

-----------------------------------------------------------------------------
(* The loops, turn by turn *)

\* The function of endOldFrames: as the definition has it, and turn by turn.
EndRun(f, w, old, k, n, time) ==
    f = [i \in 0 .. k |-> IF i = 0 THEN w ELSE endOldFrame(f[i - 1], old, i, n, time)]

EndTurns(f, w, old, k, n, time) ==
    /\ f = [i \in 0 .. k |-> f[i]]
    /\ f[0] = w
    /\ \A i \in 1 .. k : f[i] = endOldFrame(f[i - 1], old, i, n, time)

\* The two are the same.
LEMMA EndRunTurns ==
  ASSUME NEW f, NEW w, NEW old, NEW k \in Nat, NEW n, NEW time
  PROVE  EndRun(f, w, old, k, n, time) <=> EndTurns(f, w, old, k, n, time)
<1>1. /\ 0 \in 0 .. k
      /\ \A i : i \in 1 .. k => i \in 0 .. k /\ i # 0
      /\ \A i : i \in 0 .. k => i = 0 \/ i \in 1 .. k
  BY SMT
<1>2. ASSUME EndRun(f, w, old, k, n, time) PROVE EndTurns(f, w, old, k, n, time)
  <2>1. f = [i \in 0 .. k |-> IF i = 0 THEN w ELSE endOldFrame(f[i - 1], old, i, n, time)]
    BY <1>2, Zenon DEF EndRun
  <2>2. \A i \in 0 .. k : f[i] = IF i = 0 THEN w ELSE endOldFrame(f[i - 1], old, i, n, time)
    BY <2>1, Zenon
  <2>3. f = [i \in 0 .. k |-> f[i]]
    BY <2>1, <2>2, SMT
  <2>4. QED
    BY <2>2, <2>3, <1>1, Zenon DEF EndTurns
<1>3. ASSUME EndTurns(f, w, old, k, n, time) PROVE EndRun(f, w, old, k, n, time)
  <2>1. \A i \in 0 .. k : f[i] = IF i = 0 THEN w ELSE endOldFrame(f[i - 1], old, i, n, time)
    BY <1>1, <1>3, Zenon DEF EndTurns
  <2>2. f = [i \in 0 .. k |-> f[i]]
    BY <1>3, Zenon DEF EndTurns
  <2>3. QED
    BY <2>1, <2>2, Zenon DEF EndRun
<1>4. QED
  BY <1>2, <1>3

\* There is such a function, so the CHOOSE of the definition finds it.
LEMMA EndRunExists ==
  ASSUME NEW w, NEW old, NEW n, NEW time
  PROVE  \A k \in Nat : \E f : EndRun(f, w, old, k, n, time)
<1> DEFINE S == {k \in Nat : \E f : EndRun(f, w, old, k, n, time)}
<1>1. 0 \in S
  <2> DEFINE f == [i \in 0 .. 0 |-> w]
  <2>1. f = [i \in 0 .. 0 |-> f[i]] /\ f[0] = w /\ 1 .. 0 = {}
    BY SMT
  <2> HIDE DEF f
  <2>2. EndTurns(f, w, old, 0, n, time)
    BY <2>1, Zenon DEF EndTurns
  <2>3. QED
    BY <2>2, EndRunTurns, SMT
<1>2. ASSUME NEW k \in Nat, k \in S PROVE k + 1 \in S
  <2>1. PICK f : EndRun(f, w, old, k, n, time)
    BY <1>2, Zenon
  <2>2. EndTurns(f, w, old, k, n, time)
    BY <2>1, EndRunTurns, Zenon
  <2> DEFINE x == endOldFrame(f[k], old, k + 1, n, time)
             g == [i \in 0 .. k + 1 |-> IF i <= k THEN f[i] ELSE x]
  <2> HIDE DEF x
  <2>3. /\ g = [i \in 0 .. k + 1 |-> g[i]] /\ g[0] = f[0] /\ g[k + 1] = x
        /\ \A i \in 0 .. k : g[i] = f[i]
    BY SMT
  <2> HIDE DEF g
  <2>4. ASSUME NEW i \in 1 .. k + 1 PROVE g[i] = endOldFrame(g[i - 1], old, i, n, time)
    <3>1. CASE i \in 1 .. k
      <4>1. i \in 0 .. k /\ i - 1 \in 0 .. k
        BY <3>1, SMT
      <4>2. QED
        BY <3>1, <4>1, <2>2, <2>3, Zenon DEF EndTurns
    <3>2. CASE i = k + 1
      <4>1. i - 1 = k /\ k \in 0 .. k
        BY <3>2, SMT
      <4>2. QED
        BY <3>2, <4>1, <2>3, Zenon DEF x
    <3>3. QED
      BY <3>1, <3>2, SMT
  <2>5. EndTurns(g, w, old, k + 1, n, time)
    BY <2>2, <2>3, <2>4, Zenon DEF EndTurns
  <2>6. k + 1 \in Nat
    BY SMT
  <2>7. QED
    BY <2>5, <2>6, EndRunTurns, Zenon
<1> HIDE DEF S
<1>3. Nat \subseteq S
  BY <1>1, <1>2, Induct, Zenon
<1>4. QED
  BY <1>3, Zenon DEF S

\* What the first loop returns is the last of its turns.
LEMMA EndLoop ==
  ASSUME NEW w, NEW old, NEW n \in Nat, NEW time
  PROVE  \E f : EndTurns(f, w, old, n, n, time) /\ endOldFrames(w, old, n, time) = f[n]
<1> DEFINE B == CHOOSE f : EndRun(f, w, old, n, n, time)
<1>1. EndRun(B, w, old, n, n, time)
  BY EndRunExists, Zenon
<1>2. endOldFrames(w, old, n, time) = B[n]
  BY Zenon DEF endOldFrames, EndRun
<1> HIDE DEF B
<1>3. QED
  BY <1>1, <1>2, EndRunTurns, Zenon

\* The function of startNewFrames, in the same two ways.
StartTurn(w, new, i, n, usePrevious, start, internal) ==
    startNewFrame(w, new[n + 1 - i], i = 1 /\ usePrevious, start, i = n /\ internal)

StartRun(f, w, new, k, n, usePrevious, start, internal) ==
    f = [i \in 0 .. k |-> IF i = 0 THEN w ELSE StartTurn(f[i - 1], new, i, n, usePrevious, start, internal)]

StartTurns(f, w, new, k, n, usePrevious, start, internal) ==
    /\ f = [i \in 0 .. k |-> f[i]]
    /\ f[0] = w
    /\ \A i \in 1 .. k : f[i] = StartTurn(f[i - 1], new, i, n, usePrevious, start, internal)

\* The two are the same.
LEMMA StartRunTurns ==
  ASSUME NEW f, NEW w, NEW new, NEW k \in Nat, NEW n, NEW usePrevious, NEW start, NEW internal
  PROVE  StartRun(f, w, new, k, n, usePrevious, start, internal) <=> StartTurns(f, w, new, k, n, usePrevious, start, internal)
<1>1. /\ 0 \in 0 .. k
      /\ \A i : i \in 1 .. k => i \in 0 .. k /\ i # 0
      /\ \A i : i \in 0 .. k => i = 0 \/ i \in 1 .. k
  BY SMT
<1>2. ASSUME StartRun(f, w, new, k, n, usePrevious, start, internal)
      PROVE  StartTurns(f, w, new, k, n, usePrevious, start, internal)
  <2>1. f = [i \in 0 .. k |-> IF i = 0 THEN w ELSE StartTurn(f[i - 1], new, i, n, usePrevious, start, internal)]
    BY <1>2, Zenon DEF StartRun
  <2>2. \A i \in 0 .. k : f[i] = IF i = 0 THEN w ELSE StartTurn(f[i - 1], new, i, n, usePrevious, start, internal)
    BY <2>1, Zenon
  <2>3. f = [i \in 0 .. k |-> f[i]]
    BY <2>1, <2>2, SMT
  <2>4. QED
    BY <2>2, <2>3, <1>1, Zenon DEF StartTurns
<1>3. ASSUME StartTurns(f, w, new, k, n, usePrevious, start, internal)
      PROVE  StartRun(f, w, new, k, n, usePrevious, start, internal)
  <2>1. \A i \in 0 .. k : f[i] = IF i = 0 THEN w ELSE StartTurn(f[i - 1], new, i, n, usePrevious, start, internal)
    BY <1>1, <1>3, Zenon DEF StartTurns
  <2>2. f = [i \in 0 .. k |-> f[i]]
    BY <1>3, Zenon DEF StartTurns
  <2>3. QED
    BY <2>1, <2>2, Zenon DEF StartRun
<1>4. QED
  BY <1>2, <1>3

\* There is such a function.
LEMMA StartRunExists ==
  ASSUME NEW w, NEW new, NEW n, NEW usePrevious, NEW start, NEW internal
  PROVE  \A k \in Nat : \E f : StartRun(f, w, new, k, n, usePrevious, start, internal)
<1> DEFINE S == {k \in Nat : \E f : StartRun(f, w, new, k, n, usePrevious, start, internal)}
<1>1. 0 \in S
  <2> DEFINE f == [i \in 0 .. 0 |-> w]
  <2>1. f = [i \in 0 .. 0 |-> f[i]] /\ f[0] = w /\ 1 .. 0 = {}
    BY SMT
  <2> HIDE DEF f
  <2>2. StartTurns(f, w, new, 0, n, usePrevious, start, internal)
    BY <2>1, Zenon DEF StartTurns
  <2>3. QED
    BY <2>2, StartRunTurns, SMT
<1>2. ASSUME NEW k \in Nat, k \in S PROVE k + 1 \in S
  <2>1. PICK f : StartRun(f, w, new, k, n, usePrevious, start, internal)
    BY <1>2, Zenon
  <2>2. StartTurns(f, w, new, k, n, usePrevious, start, internal)
    BY <2>1, StartRunTurns, Zenon
  <2> DEFINE x == StartTurn(f[k], new, k + 1, n, usePrevious, start, internal)
             g == [i \in 0 .. k + 1 |-> IF i <= k THEN f[i] ELSE x]
  <2> HIDE DEF x
  <2>3. /\ g = [i \in 0 .. k + 1 |-> g[i]] /\ g[0] = f[0] /\ g[k + 1] = x
        /\ \A i \in 0 .. k : g[i] = f[i]
    BY SMT
  <2> HIDE DEF g
  <2>4. ASSUME NEW i \in 1 .. k + 1 PROVE g[i] = StartTurn(g[i - 1], new, i, n, usePrevious, start, internal)
    <3>1. CASE i \in 1 .. k
      <4>1. i \in 0 .. k /\ i - 1 \in 0 .. k
        BY <3>1, SMT
      <4>2. QED
        BY <3>1, <4>1, <2>2, <2>3, Zenon DEF StartTurns
    <3>2. CASE i = k + 1
      <4>1. i - 1 = k /\ k \in 0 .. k
        BY <3>2, SMT
      <4>2. QED
        BY <3>2, <4>1, <2>3, Zenon DEF x
    <3>3. QED
      BY <3>1, <3>2, SMT
  <2>5. StartTurns(g, w, new, k + 1, n, usePrevious, start, internal)
    BY <2>2, <2>3, <2>4, Zenon DEF StartTurns
  <2>6. k + 1 \in Nat
    BY SMT
  <2>7. QED
    BY <2>5, <2>6, StartRunTurns, Zenon
<1> HIDE DEF S
<1>3. Nat \subseteq S
  BY <1>1, <1>2, Induct, Zenon
<1>4. QED
  BY <1>3, Zenon DEF S

\* What the second loop returns is the last of its turns.
LEMMA StartLoop ==
  ASSUME NEW w, NEW new, NEW n \in Nat, NEW usePrevious, NEW start, NEW internal
  PROVE  \E f : /\ StartTurns(f, w, new, n, n, usePrevious, start, internal)
                /\ startNewFrames(w, new, n, usePrevious, start, internal) = f[n]
<1> DEFINE B == CHOOSE f : StartRun(f, w, new, n, n, usePrevious, start, internal)
<1>1. StartRun(B, w, new, n, n, usePrevious, start, internal)
  BY StartRunExists, Zenon
<1>2. startNewFrames(w, new, n, usePrevious, start, internal) = B[n]
  BY Zenon DEF startNewFrames, StartRun, StartTurn
<1> HIDE DEF B
<1>3. QED
  BY <1>1, <1>2, StartRunTurns, Zenon

-----------------------------------------------------------------------------
(* The start of a span keeps the tree *)

\* The current span is the last one that is open.
LEMMA CurrentIsLast ==
  ASSUME NEW sp, NEW st, WellFormed(sp, st)
  PROVE  /\ Current(st) \in Nat
         /\ Current(st) # 0 => Current(st) \in 1 .. Len(sp) /\ sp[Current(st)].state = "open"
         /\ \A s \in 1 .. Len(sp) : sp[s].state = "open" => s <= Current(st)
<1>1. st \in Seq(ScopeRecord) /\ Len(st) \in Nat /\ Len(st) \in 1 .. Len(st) /\ st # <<>> /\ Len(sp) \in Nat
  BY SMT DEF WellFormed
<1>2. Current(st) = st[Len(st)].span
  BY <1>1, Zenon DEF Current, Last
<1>3. st[Len(st)] \in ScopeRecord
  BY <1>1, SMT
<1>4. st[Len(st)].span \in Nat
  BY <1>3, SMT DEF ScopeRecord
<1>5. ASSUME NEW s \in 1 .. Len(sp), sp[s].state = "open" PROVE s <= st[Len(st)].span
  <2>1. PICK p \in 1 .. Len(st) : st[p].span = s
    BY <1>5, Zenon DEF WellFormed
  <2>2. CASE p = Len(st)
    BY <2>1, <2>2, <1>1, SMT
  <2>3. CASE p # Len(st)
    <3>1. p < Len(st)
      BY <2>3, <1>1, SMT
    <3>2. st[p].span < st[Len(st)].span
      BY <3>1, <1>1, Zenon DEF WellFormed
    <3>3. QED
      BY <3>2, <2>1, <1>1, <1>4, SMT
  <2>4. QED
    BY <2>2, <2>3, Zenon
<1>6. QED
  BY <1>1, <1>2, <1>4, <1>5, Zenon DEF WellFormed

\* new is sp with one more span.
Grown(new, sp, kind, parent, start) ==
    /\ new \in Seq(SpanRecord) /\ Len(new) = Len(sp) + 1
    /\ \A c \in 1 .. Len(sp) : new[c] = sp[c]
    /\ new[Len(sp) + 1].inferred = kind /\ new[Len(sp) + 1].parent = parent
    /\ new[Len(sp) + 1].start = start /\ new[Len(sp) + 1].state = "open"

\* Append and NewSpan add an open span.
LEMMA GrownOf ==
  ASSUME NEW sp \in Seq(SpanRecord), NEW kind \in BOOLEAN, NEW parent \in Nat, NEW start \in Nat
  PROVE  Grown(Append(sp, NewSpan(kind, parent, start)), sp, kind, parent, start)
<1> DEFINE r == NewSpan(kind, parent, start)
<1>1. r \in SpanRecord
  BY SMT DEF NewSpan, SpanRecord
<1>2. r.inferred = kind /\ r.parent = parent /\ r.start = start /\ r.state = "open"
  BY SMT DEF NewSpan
<1> HIDE DEF r
<1>3. /\ Append(sp, r) \in Seq(SpanRecord) /\ Len(Append(sp, r)) = Len(sp) + 1
      /\ \A c \in 1 .. Len(sp) : Append(sp, r)[c] = sp[c]
      /\ Append(sp, r)[Len(sp) + 1] = r
  BY <1>1, AppendProperties, SMT
<1>4. QED
  BY <1>2, <1>3, Zenon DEF Grown, r

\* A span that starts under an open one, not before it.
LEMMA GrowTree ==
  ASSUME opt.minDuration \in Nat, NEW sp, NEW st, NEW new, NEW kind \in BOOLEAN, NEW p \in Nat,
         NEW t \in Nat, NEW a \in Nat, NEW b,
         WellFormed(sp, st), Timed(sp, a, b), Nested(sp), Grown(new, sp, kind, p, t),
         p # 0 => p \in 1 .. Len(sp) /\ sp[p].state = "open",
         kind => t <= a /\ (p # 0 /\ sp[p].inferred => sp[p].start <= t)
  PROVE  WellFormed(new, Append(st, Scope(Len(sp) + 1, TRUE))) /\ Timed(new, a, b) /\ Nested(new)
<1> DEFINE s == Len(sp) + 1
           e == Scope(s, TRUE)
           d == Append(st, e)
<1>g. /\ new \in Seq(SpanRecord) /\ Len(new) = s
      /\ \A c \in 1 .. Len(sp) : new[c] = sp[c]
      /\ new[s].inferred = kind /\ new[s].parent = p /\ new[s].start = t /\ new[s].state = "open"
  BY Zenon DEF Grown
<1>t. /\ sp \in Seq(SpanRecord) /\ st \in Seq(ScopeRecord) /\ Len(sp) \in Nat /\ Len(st) \in Nat
      /\ \A c \in 1 .. Len(sp) : sp[c].parent < c
  BY SMT DEF WellFormed
<1>n. /\ s \in Nat /\ s # 0
      /\ \A c : c \in 1 .. s => c \in 1 .. Len(sp) \/ c = s
      /\ \A c : c \in 1 .. Len(sp) => c \in 1 .. s /\ c # s
  BY <1>t, SMTT(30)
<1>p. \A c \in 1 .. Len(sp) : sp[c].parent \in Nat /\ (sp[c].parent # 0 => sp[c].parent \in 1 .. Len(sp))
  <2>1. ASSUME NEW c \in 1 .. Len(sp) PROVE sp[c].parent \in Nat /\ (sp[c].parent # 0 => sp[c].parent \in 1 .. Len(sp))
    <3>1. sp[c] \in SpanRecord
      BY <1>t, SMT
    <3>2. sp[c].parent \in Nat
      BY <3>1, SMT DEF SpanRecord
    <3>3. sp[c].parent < c
      BY <1>t, Zenon
    <3>4. QED
      BY <3>2, <3>3, <1>t, SMT
  <2>2. QED
    BY <2>1, Zenon
<1>1. WellFormed(new, d)
  <2>1. e \in ScopeRecord /\ e.span = s
    BY <1>n, SMT DEF Scope, ScopeRecord
  <2> HIDE DEF e
  <2>2. /\ d \in Seq(ScopeRecord) /\ Len(d) = Len(st) + 1
        /\ \A q \in 1 .. Len(st) : d[q] = st[q]
        /\ d[Len(st) + 1] = e
    BY <1>t, <2>1, AppendProperties, SMT
  <2> HIDE DEF d
  <2>3. /\ Len(d) \in 1 .. Len(d) /\ \A q : q \in 1 .. Len(d) => q \in 1 .. Len(st) \/ q = Len(st) + 1
        /\ \A q : q \in 1 .. Len(st) => q \in 1 .. Len(d)
        /\ Len(st) + 1 \in 1 .. Len(d)
    BY <1>t, <2>2, SMT
  <2>4. \A c \in 1 .. Len(new) : new[c].parent < c
    <3>1. p < s
      BY <1>t, <1>n, SMT
    <3>2. QED
      BY <3>1, <1>g, <1>n, <1>t, Zenon
  <2>5. Len(d) >= 1 /\ d[1].span = 0
    <3>1. 1 \in 1 .. Len(st) /\ st[1].span = 0
      BY <1>t, SMT DEF WellFormed
    <3>2. QED
      BY <3>1, <2>2, <1>t, SMT
  <2>6. \A q \in 1 .. Len(d) : d[q] = Scope(d[q].span, TRUE)
    BY <2>1, <2>2, <2>3, Zenon DEF WellFormed, e
  <2>7. ASSUME NEW q \in 1 .. Len(d), NEW r \in 1 .. Len(d), q < r PROVE d[q].span < d[r].span
    <3>1. q \in 1 .. Len(st)
      BY <2>2, <2>7, <1>t, SMT
    <3>2. CASE r \in 1 .. Len(st)
      BY <3>1, <3>2, <2>2, <2>7, Zenon DEF WellFormed
    <3>3. CASE r = Len(st) + 1
      <4>1. st[q].span = 0 \/ st[q].span \in 1 .. Len(sp)
        BY <3>1, Zenon DEF WellFormed
      <4>2. st[q].span < s
        BY <4>1, <1>t, SMT
      <4>3. QED
        BY <4>2, <3>1, <3>3, <2>1, <2>2, Zenon
    <3>4. QED
      BY <3>2, <3>3, <2>3, Zenon
  <2>8. ASSUME NEW q \in 1 .. Len(d)
        PROVE  d[q].span = 0 \/ (d[q].span \in 1 .. Len(new) /\ new[d[q].span].state = "open")
    <3>1. CASE q \in 1 .. Len(st)
      <4>1. d[q] = st[q] /\ (st[q].span = 0 \/ (st[q].span \in 1 .. Len(sp) /\ sp[st[q].span].state = "open"))
        BY <3>1, <2>2, Zenon DEF WellFormed
      <4>2. QED
        BY <4>1, <1>g, <1>n, Zenon
    <3>2. CASE q = Len(st) + 1
      <4>1. s \in 1 .. s
        BY <1>n, SMT
      <4>2. QED
        BY <4>1, <3>2, <2>1, <2>2, <1>g, Zenon
    <3>3. QED
      BY <3>1, <3>2, <2>3, Zenon
  <2>9. ASSUME NEW c \in 1 .. Len(new), new[c].state = "open" PROVE \E q \in 1 .. Len(d) : d[q].span = c
    <3>1. CASE c \in 1 .. Len(sp)
      <4>1. PICK q \in 1 .. Len(st) : st[q].span = c
        BY <3>1, <2>9, <1>g, Zenon DEF WellFormed
      <4>2. QED
        BY <4>1, <2>2, <2>3, Zenon
    <3>2. CASE c = s
      BY <3>2, <2>1, <2>2, <2>3, Zenon
    <3>3. QED
      BY <3>1, <3>2, <1>g, <1>n, Zenon
  <2>10. QED
    BY <2>2, <2>4, <2>5, <2>6, <2>7, <2>8, <2>9, <1>g, Zenon DEF WellFormed
<1>2. Timed(new, a, b)
  <2>1. ASSUME NEW c \in 1 .. Len(new), new[c].inferred
        PROVE  /\ new[c].start <= a
               /\ new[c].state = "ended" => new[c].end <= b /\ new[c].start + opt.minDuration <= new[c].end
    <3>1. CASE c \in 1 .. Len(sp)
      BY <3>1, <2>1, <1>g, Zenon DEF Timed
    <3>2. CASE c = s
      <4>1. new[c].state # "ended"
        BY <3>2, <1>g, SMT
      <4>2. QED
        BY <4>1, <3>2, <2>1, <1>g, Zenon
    <3>3. QED
      BY <3>1, <3>2, <1>g, <1>n, Zenon
  <2>2. QED
    BY <2>1, Zenon DEF Timed
<1>3. Nested(new)
  <2>1. ASSUME NEW c \in 1 .. Len(new), new[c].inferred, new[c].parent # 0, new[new[c].parent].inferred
        PROVE  /\ new[new[c].parent].start <= new[c].start
               /\ new[c].state = "open" => new[new[c].parent].state = "open"
               /\ new[c].state = "ended" /\ new[new[c].parent].state = "ended" => new[c].end <= new[new[c].parent].end
    <3>1. CASE c \in 1 .. Len(sp)
      <4>1. new[c] = sp[c] /\ new[new[c].parent] = sp[sp[c].parent]
        BY <3>1, <2>1, <1>g, <1>p, Zenon
      <4>2. QED
        BY <4>1, <3>1, <2>1, Zenon DEF Nested
    <3>2. CASE c = s
      <4>1. new[c].parent = p /\ p # 0 /\ new[p] = sp[p] /\ new[c].state # "ended"
        <5>1. new[c].state # "ended"
          BY <3>2, <1>g, SMT
        <5>2. QED
          BY <5>1, <3>2, <2>1, <1>g, Zenon
      <4>2. QED
        BY <4>1, <3>2, <2>1, <1>g, Zenon
    <3>3. QED
      BY <3>1, <3>2, <1>g, <1>n, Zenon
  <2>2. ASSUME NEW c \in 1 .. Len(new), new[c].parent # 0, new[c].state # "dropped", new[c].inferred \/ opt.minDuration = 0
        PROVE  new[new[c].parent].state # "dropped"
    <3>1. CASE c \in 1 .. Len(sp)
      <4>1. new[c] = sp[c] /\ new[new[c].parent] = sp[sp[c].parent]
        BY <3>1, <2>2, <1>g, <1>p, Zenon
      <4>2. QED
        BY <4>1, <3>1, <2>2, Zenon DEF Nested
    <3>2. CASE c = s
      <4>1. new[c].parent = p /\ p # 0 /\ new[p] = sp[p] /\ sp[p].state = "open"
        BY <3>2, <2>2, <1>g, Zenon
      <4>2. QED
        BY <4>1, SMT
    <3>3. QED
      BY <3>1, <3>2, <1>g, <1>n, Zenon
  <2>3. ASSUME NEW c \in 1 .. Len(new), ~new[c].inferred PROVE new[c].state # "dropped"
    <3>1. CASE c \in 1 .. Len(sp)
      BY <3>1, <2>3, <1>g, Zenon DEF Nested
    <3>2. CASE c = s
      BY <3>2, <1>g, SMT
    <3>3. QED
      BY <3>1, <3>2, <1>g, <1>n, Zenon
  <2>4. QED
    BY <2>1, <2>2, <2>3, Zenon DEF Nested
<1>4. QED
  BY <1>1, <1>2, <1>3, Zenon

\* x is fr below e.
OnTop(S, x, e, fr) ==
    /\ x \in Seq(S) /\ Len(x) = Len(fr) + 1 /\ x[1] = e
    /\ \A j \in 1 .. Len(fr) : x[j + 1] = fr[j]

\* Cons puts an element on top.
LEMMA ConsOf ==
  ASSUME NEW S, NEW fr \in Seq(S), NEW e \in S
  PROVE  OnTop(S, Cons(e, fr), e, fr)
<1>1. Cons(e, fr) = <<e>> \o fr
  BY Zenon DEF Cons
<1>2. <<e>> \in Seq(S) /\ Len(<<e>>) = 1 /\ <<e>>[1] = e
  BY SMT
<1> DEFINE x == <<e>>
<1> HIDE DEF x
<1>3. /\ x \o fr \in Seq(S) /\ Len(x \o fr) = Len(x) + Len(fr)
      /\ \A i \in 1 .. Len(x) + Len(fr) : (x \o fr)[i] = IF i <= Len(x) THEN x[i] ELSE fr[i - Len(x)]
  BY <1>2, ConcatProperties, Zenon DEF x
<1>4. Len(x) = 1 /\ x[1] = e /\ Len(fr) \in Nat
  BY <1>2, SMT DEF x
<1>5. (x \o fr)[1] = e
  <2>1. 1 \in 1 .. Len(x) + Len(fr) /\ 1 <= Len(x)
    BY <1>4, SMT
  <2>2. QED
    BY <2>1, <1>3, <1>4, Zenon
<1>6. ASSUME NEW j \in 1 .. Len(fr) PROVE (x \o fr)[j + 1] = fr[j]
  <2>1. j + 1 \in 1 .. Len(x) + Len(fr) /\ ~(j + 1 <= Len(x)) /\ (j + 1) - Len(x) = j
    BY <1>4, SMT
  <2>2. QED
    BY <2>1, <1>3, Zenon
<1>7. Len(x) + Len(fr) = Len(fr) + 1
  BY <1>4, SMT
<1>8. QED
  BY <1>1, <1>3, <1>5, <1>6, <1>7, Zenon DEF x, OnTop

\* A span for a frame on top of the stack.
LEMMA StartStep ==
  ASSUME opt.minDuration \in Nat, NEW sp, NEW st, NEW fr, NEW new, NEW top \in FrameRecord, NEW p \in Nat,
         NEW a \in Nat, NEW b, IsTree(sp, st, fr, 0, 0, a, b), Grown(new, sp, TRUE, p, a),
         p = Current(st) \/ (fr # <<>> /\ p = fr[1].span),
         top.span = Len(sp) + 1, top.id >= 1,
         \A j \in 1 .. Len(fr) : fr[j].id <= top.id /\ (fr[j].id = top.id => sp[fr[j].span].start = a),
         fr # <<>> /\ fr[1].id = top.id => fr[1].span = Len(sp)
  PROVE  IsTree(new, Append(st, Scope(Len(sp) + 1, TRUE)), Cons(top, fr), 0, 0, a, b)
<1> DEFINE s == Len(sp) + 1
           d == Append(st, Scope(s, TRUE))
           x == Cons(top, fr)
<1>0. WellFormed(sp, st) /\ OnStack(sp, fr, 0) /\ Hanging(sp, fr, 0, 0) /\ Timed(sp, a, b) /\ Nested(sp)
  BY Zenon DEF IsTree
<1>t. /\ sp \in Seq(SpanRecord) /\ Len(sp) \in Nat /\ fr \in Seq(FrameRecord) /\ Len(fr) \in Nat
      /\ \A c \in 1 .. Len(sp) : /\ sp[c].inferred \in BOOLEAN /\ sp[c].parent \in Nat /\ sp[c].start \in Nat
                                 /\ sp[c].end \in Nat /\ sp[c].state \in {"open", "ended", "dropped"}
                                 /\ sp[c].parent < c /\ (sp[c].parent # 0 => sp[c].parent \in 1 .. Len(sp))
      /\ \A j \in 1 .. Len(fr) : fr[j].span \in 1 .. Len(sp) /\ fr[j].id \in Nat
  BY <1>0, TreeTypes, Zenon
<1>z. /\ \A j : j \in 0 + 1 .. Len(fr) <=> j \in 1 .. Len(fr)
      /\ \A j : j \in 0 + 1 .. Len(x) <=> j \in 1 .. Len(x)
      /\ fr # <<>> => 1 \in 1 .. Len(fr)
      /\ \A j \in 1 .. Len(fr) : j = 1 \/ 1 < j
      /\ \A j : j \in 1 .. Len(fr) => fr # <<>>
  BY <1>t, SMT
<1>f. \A j \in 1 .. Len(fr) : fr[j].span \in 1 .. Len(sp) /\ sp[fr[j].span].inferred /\ sp[fr[j].span].state = "open"
  BY <1>0, <1>t, <1>z, Zenon DEF OnStack
<1>g. /\ new \in Seq(SpanRecord) /\ Len(new) = s
      /\ \A c \in 1 .. Len(sp) : new[c] = sp[c]
      /\ new[s].inferred = TRUE /\ new[s].parent = p /\ new[s].start = a /\ new[s].state = "open"
  BY Zenon DEF Grown
<1>n. /\ s \in Nat /\ s # 0
      /\ \A c : c \in 1 .. s => c \in 1 .. Len(sp) \/ c = s
      /\ \A c : c \in 1 .. Len(sp) => c \in 1 .. s /\ c # s /\ c < s /\ s > c /\ c # 0 /\ c \in Nat
  BY <1>t, SMTT(30)
\* The parent is open, and if it is inferred, it is the frame below.
<1>p. /\ p # 0 => p \in 1 .. Len(sp) /\ sp[p].state = "open"
      /\ p # 0 /\ sp[p].inferred => fr # <<>> /\ p = fr[1].span
  <2>1. CASE fr # <<>> /\ p = fr[1].span
    BY <2>1, <1>z, <1>f, Zenon
  <2>2. CASE p = Current(st)
    <3>1. /\ p # 0 => p \in 1 .. Len(sp) /\ sp[p].state = "open"
          /\ \A c \in 1 .. Len(sp) : sp[c].state = "open" => c <= p
      BY <2>2, <1>0, CurrentIsLast, Zenon
    <3>2. ASSUME p # 0, sp[p].inferred PROVE fr # <<>> /\ p = fr[1].span
      <4>1. PICK j \in 1 .. Len(fr) : fr[j].span = p
        BY <3>1, <3>2, <1>0, <1>z, Zenon DEF OnStack
      <4>2. fr # <<>> /\ 1 \in 1 .. Len(fr)
        BY <4>1, <1>z, Zenon
      <4>3. fr[1].span <= p
        BY <3>1, <4>2, <1>f, Zenon
      <4>4. j = 1 \/ fr[1].span > fr[j].span
        BY <4>2, <1>z, <1>0, Zenon DEF OnStack
      <4>5. fr[1].span \in Nat /\ p \in Nat
        BY <4>1, <4>2, <1>t, <1>n, Zenon
      <4>6. j = 1
        BY <4>1, <4>3, <4>4, <4>5, SMT
      <4>7. QED
        BY <4>1, <4>2, <4>6, Zenon
    <3>3. QED
      BY <3>1, <3>2, Zenon
  <2>3. QED
    BY <2>1, <2>2, Zenon
<1>1. WellFormed(new, d) /\ Timed(new, a, b) /\ Nested(new)
  <2>1. p # 0 /\ sp[p].inferred => sp[p].start <= a
    BY <1>p, <1>0, Zenon DEF Timed
  <2>2. a <= a
    BY SMT
  <2>3. QED
    BY <2>1, <2>2, <1>p, <1>0, GrowTree, Zenon
<1>x. /\ x \in Seq(FrameRecord) /\ Len(x) = Len(fr) + 1 /\ x[1] = top
      /\ \A j \in 1 .. Len(fr) : x[j + 1] = fr[j]
  <2>1. fr \in Seq(FrameRecord) /\ top \in FrameRecord
    BY <1>t, Zenon
  <2>2. OnTop(FrameRecord, x, top, fr)
    BY <2>1, ConsOf, Zenon
  <2>3. QED
    BY <2>2, Zenon DEF OnTop
<1> HIDE DEF x, d
\* An element of x is the new frame or one of fr.
<1>y. \A j \in 1 .. Len(x) : j = 1 \/ (j - 1 \in 1 .. Len(fr) /\ (j - 1) + 1 = j /\ x[j] = fr[j - 1])
  <2>1. ASSUME NEW j \in 1 .. Len(x), j # 1 PROVE j - 1 \in 1 .. Len(fr) /\ (j - 1) + 1 = j
    BY <2>1, <1>x, <1>t, SMT
  <2>2. QED
    BY <2>1, <1>x, Zenon
<1>w. 1 \in 1 .. Len(x) /\ \A j \in 1 .. Len(fr) : j + 1 \in 1 .. Len(x)
  BY <1>x, <1>t, SMT
<1>k. \A j \in 1 .. Len(fr) : new[fr[j].span] = sp[fr[j].span]
  BY <1>f, <1>g, Zenon
<1>2. OnStack(new, x, 0)
  <2>1. ASSUME NEW j \in 1 .. Len(x)
        PROVE  /\ x[j].id >= 1 /\ x[j].span \in 1 .. Len(new)
               /\ new[x[j].span].inferred /\ new[x[j].span].state = "open"
    <3>1. CASE j = 1
      <4>1. s \in 1 .. s
        BY <1>n, SMT
      <4>2. QED
        BY <4>1, <3>1, <1>x, <1>g, Zenon
    <3>2. CASE j - 1 \in 1 .. Len(fr) /\ x[j] = fr[j - 1]
      <4>1. fr[j - 1].id >= 1
        BY <3>2, <1>0, Zenon DEF OnStack
      <4>2. fr[j - 1].span \in 1 .. Len(new)
        BY <3>2, <1>t, <1>n, <1>g, Zenon
      <4>3. QED
        BY <4>1, <4>2, <3>2, <1>k, <1>f, Zenon
    <3>3. QED
      BY <3>1, <3>2, <1>y, Zenon
  <2>2. ASSUME NEW j \in 1 .. Len(x), NEW k \in 1 .. Len(x), j < k
        PROVE  x[j].span > x[k].span /\ x[j].id >= x[k].id
    <3>1. k # 1 /\ (j # 1 => j - 1 < k - 1)
      BY <2>2, <1>x, <1>t, SMT
    <3>2. k - 1 \in 1 .. Len(fr) /\ x[k] = fr[k - 1]
      BY <3>1, <1>y, Zenon
    <3>3. CASE j = 1
      <4>1. s > fr[k - 1].span
        BY <3>2, <1>t, <1>n, Zenon
      <4>2. fr[k - 1].id <= top.id /\ fr[k - 1].id \in Nat /\ top.id \in Nat
        <5>1. top.id \in Nat
          BY SMT DEF FrameRecord
        <5>2. QED
          BY <5>1, <3>2, <1>t, Zenon
      <4>3. top.id >= fr[k - 1].id
        BY <4>2, SMT
      <4>4. QED
        BY <4>1, <4>3, <3>2, <3>3, <1>x, Zenon
    <3>4. CASE j # 1
      <4>1. j - 1 \in 1 .. Len(fr) /\ x[j] = fr[j - 1]
        BY <3>4, <1>y, Zenon
      <4>2. QED
        BY <4>1, <3>1, <3>2, <3>4, <1>0, Zenon DEF OnStack
    <3>5. QED
      BY <3>3, <3>4, Zenon
  <2>3. ASSUME NEW c \in 1 .. Len(new), new[c].inferred, new[c].state = "open"
        PROVE  \E j \in 1 .. Len(x) : x[j].span = c
    <3>1. CASE c = s
      BY <3>1, <1>w, <1>x, Zenon
    <3>2. CASE c \in 1 .. Len(sp)
      <4>1. PICK j \in 1 .. Len(fr) : fr[j].span = c
        BY <3>2, <2>3, <1>g, <1>0, <1>z, Zenon DEF OnStack
      <4>2. QED
        BY <4>1, <1>w, <1>x, Zenon
    <3>3. QED
      BY <3>1, <3>2, <1>g, <1>n, Zenon
  <2>4. QED
    <3>1. \A j : j \in 0 + 1 .. Len(x) <=> j \in 1 .. Len(x)
      BY SMT
    <3>2. QED
      BY <2>1, <2>2, <2>3, <3>1, <1>x, Zenon DEF OnStack
<1>3. Hanging(new, x, 0, 0)
  <2>0. /\ \A j : j \in 0 + 1 .. Len(x) <=> j \in 1 .. Len(x)
        /\ \A j : j \in 0 + 1 .. Len(x) - 1 => j \in 1 .. Len(x) /\ j \in 1 .. Len(fr) /\ j + 1 \in 1 .. Len(x)
        /\ \A j : j \in 1 .. Len(fr) => j # 0
    BY <1>x, <1>t, SMT
  <2>1. ASSUME NEW j \in 1 .. Len(x)
        PROVE  LET q == new[x[j].span].parent
               IN  q = 0 \/ ~new[q].inferred \/ (j < Len(x) /\ q = x[j + 1].span)
    <3>1. CASE j = 1
      <4>1. new[x[j].span].parent = p
        BY <3>1, <1>x, <1>g, Zenon
      <4>2. p # 0 => new[p] = sp[p]
        BY <1>p, <1>g, Zenon
      <4>3. ASSUME p # 0, sp[p].inferred PROVE j < Len(x) /\ p = x[j + 1].span
        <5>1. fr # <<>> /\ p = fr[1].span
          BY <4>3, <1>p, Zenon
        <5>2. 1 \in 1 .. Len(fr)
          BY <5>1, <1>z, Zenon
        <5>3. x[1 + 1] = fr[1]
          BY <5>2, <1>x, Zenon
        <5>4. 1 < Len(x)
          BY <5>2, <1>x, <1>t, SMT
        <5>5. QED
          BY <5>1, <5>3, <5>4, <3>1, Zenon
      <4>4. QED
        BY <4>1, <4>2, <4>3, Zenon
    <3>2. CASE j - 1 \in 1 .. Len(fr) /\ (j - 1) + 1 = j /\ x[j] = fr[j - 1]
      <4> DEFINE i == j - 1
                 q == sp[fr[i].span].parent
      <4>1. new[x[j].span].parent = q /\ (q # 0 => q \in 1 .. Len(sp))
        BY <3>2, <1>k, <1>f, <1>t, Zenon
      <4>2. q = 0 \/ ~sp[q].inferred \/ (i < Len(fr) /\ q = fr[i + 1].span)
        BY <3>2, <1>0, <1>z, Zenon DEF Hanging
      <4>3. i < Len(fr) => j < Len(x) /\ j \in 1 .. Len(fr)
        BY <3>2, <1>x, <1>t, SMT
      <4>4. i < Len(fr) => x[j + 1] = fr[i + 1]
        <5>1. i + 1 = j
          BY <3>2, Zenon
        <5>2. j \in 1 .. Len(fr) => x[j + 1] = fr[j]
          BY <1>x, Zenon
        <5> HIDE DEF i
        <5>3. QED
          BY <5>1, <5>2, <4>3, Zenon
      <4>5. QED
        BY <4>1, <4>2, <4>3, <4>4, <1>g, Zenon
    <3>3. QED
      BY <3>1, <3>2, <1>y, Zenon
  <2>2. ASSUME NEW j \in 1 .. Len(x), NEW k \in 1 .. Len(x), x[j].id = x[k].id
        PROVE  new[x[j].span].start = new[x[k].span].start
    \* Frames of this capture started at a.
    <3>1. ASSUME NEW i \in 1 .. Len(fr), fr[i].id = top.id PROVE new[fr[i].span].start = a
      BY <3>1, <1>k, Zenon
    <3>2. new[x[1].span].start = a
      BY <1>x, <1>g, Zenon
    <3>3. CASE j = 1 /\ k = 1
      BY <3>3, Zenon
    <3>4. CASE j = 1 /\ k # 1
      <4>1. k - 1 \in 1 .. Len(fr) /\ x[k] = fr[k - 1]
        BY <3>4, <1>y, Zenon
      <4>2. QED
        BY <4>1, <3>1, <3>2, <3>4, <2>2, <1>x, Zenon
    <3>5. CASE j # 1 /\ k = 1
      <4>1. j - 1 \in 1 .. Len(fr) /\ x[j] = fr[j - 1]
        BY <3>5, <1>y, Zenon
      <4>2. QED
        BY <4>1, <3>1, <3>2, <3>5, <2>2, <1>x, Zenon
    <3>6. CASE j # 1 /\ k # 1
      <4>1. j - 1 \in 1 .. Len(fr) /\ x[j] = fr[j - 1] /\ k - 1 \in 1 .. Len(fr) /\ x[k] = fr[k - 1]
        BY <3>6, <1>y, Zenon
      <4>2. sp[fr[j - 1].span].start = sp[fr[k - 1].span].start
        BY <4>1, <2>2, <1>0, Zenon DEF Hanging
      <4>3. QED
        BY <4>1, <4>2, <1>k, Zenon
    <3>7. QED
      BY <3>3, <3>4, <3>5, <3>6, Zenon
  <2>3. ASSUME NEW j \in 0 + 1 .. Len(x) - 1, x[j].id = x[j + 1].id,
               NEW c \in 1 .. Len(new), new[c].parent = x[j + 1].span
        PROVE  c = x[j].span
    <3>0. j \in 1 .. Len(fr) /\ j \in 1 .. Len(x) /\ x[j + 1] = fr[j] /\ fr[j].span # 0
      BY <2>0, <1>x, <1>t, <1>n, Zenon
    <3>1. CASE j = 1
      <4>1. fr # <<>> /\ fr[1].id = top.id
        BY <3>0, <3>1, <2>3, <1>x, <1>z, Zenon
      <4>2. fr[1].span = Len(sp)
        BY <4>1, Zenon
      <4>3. CASE c \in 1 .. Len(sp)
        <5>1. sp[c].parent = Len(sp)
          BY <4>2, <4>3, <3>0, <3>1, <2>3, <1>g, Zenon
        <5>2. sp[c].parent < c
          BY <4>3, <1>t, Zenon
        <5>3. QED
          BY <5>1, <5>2, <4>3, <1>t, SMT
      <4>4. CASE c = s
        BY <4>4, <3>1, <1>x, Zenon
      <4>5. QED
        BY <4>3, <4>4, <1>g, <1>n, Zenon
    <3>2. CASE j # 1
      <4> DEFINE i == j - 1
      <4>1. i \in 1 .. Len(fr) /\ x[j] = fr[i] /\ i + 1 = j
        BY <3>0, <3>2, <1>y, Zenon
      <4>2. i \in 0 + 1 .. Len(fr) - 1 /\ i # 0 /\ 1 < j
        BY <4>1, <3>0, <3>2, <1>t, SMT
      <4>3. CASE c \in 1 .. Len(sp)
        <5>1. fr[i].id = fr[i + 1].id /\ sp[c].parent = fr[i + 1].span
          BY <4>1, <4>3, <3>0, <2>3, <1>g, Zenon
        <5>2. c = fr[i].span
          BY <5>1, <4>2, <4>3, <1>0, Zenon DEF Hanging
        <5>3. QED
          BY <5>2, <4>1, Zenon
      <4>4. CASE c = s
        <5>1. p = fr[j].span
          BY <4>4, <3>0, <2>3, <1>g, Zenon
        <5>2. p # 0 /\ sp[p].inferred
          BY <5>1, <3>0, <1>f, Zenon
        <5>3. fr[1].span = fr[j].span /\ 1 \in 1 .. Len(fr)
          BY <5>1, <5>2, <1>p, <1>z, Zenon
        <5>4. fr[1].span > fr[j].span
          BY <5>3, <4>2, <3>0, <1>0, Zenon DEF OnStack
        <5>5. fr[j].span \in Nat
          BY <3>0, <1>t, <1>n, Zenon
        <5>6. QED
          BY <5>3, <5>4, <5>5, SMT
      <4>5. QED
        BY <4>3, <4>4, <1>g, <1>n, Zenon
    <3>3. QED
      BY <3>1, <3>2, Zenon
  <2>4. QED
    BY <2>0, <2>1, <2>2, <2>3, Zenon DEF Hanging
<1>4. QED
  BY <1>1, <1>2, <1>3, Zenon DEF IsTree, x, d

-----------------------------------------------------------------------------
(* What is left of a stack, and later *)

\* Later bounds on the times.
LEMMA TimedLater ==
  ASSUME opt.minDuration \in Nat, NEW sp \in Seq(SpanRecord), NEW a \in Nat, NEW b \in Nat, NEW x \in Nat, NEW y \in Nat,
         a <= x, b <= y, Timed(sp, a, b)
  PROVE  Timed(sp, x, y)
<1>1. ASSUME NEW s \in 1 .. Len(sp), sp[s].inferred
      PROVE  /\ sp[s].start <= x
             /\ sp[s].state = "ended" => sp[s].end <= y /\ sp[s].start + opt.minDuration <= sp[s].end
  <2>1. /\ sp[s].start <= a
        /\ sp[s].state = "ended" => sp[s].end <= b /\ sp[s].start + opt.minDuration <= sp[s].end
    BY <1>1, Zenon DEF Timed
  <2>2. sp[s] \in SpanRecord
    BY SMT
  <2>3. sp[s].start \in Nat /\ sp[s].end \in Nat
    BY <2>2, SMT DEF SpanRecord
  <2>4. \A u, v, z \in Nat : u <= v /\ v <= z => u <= z
    BY SMT
  <2>5. QED
    BY <2>1, <2>3, <2>4, Zenon
<1>2. QED
  BY <1>1, Zenon DEF Timed

\* x is what is left of old after its first g elements.
Rest(x, old, g) ==
    /\ x \in Seq(FrameRecord) /\ Len(x) = Len(old) - g
    /\ \A j \in 1 .. Len(old) - g : x[j] = old[g + j]

\* The frames that ended are taken off the stack.
LEMMA Reindex ==
  ASSUME opt.minDuration \in Nat, NEW sp, NEW st, NEW old, NEW g \in Nat, g <= Len(old), NEW n \in Nat, n <= g,
         NEW a \in Nat, NEW b \in Nat, NEW c \in Nat, NEW d \in Nat, a <= c, b <= d,
         IsTree(sp, st, old, g, n, a, b), NEW x, Rest(x, old, g)
  PROVE  IsTree(sp, st, x, 0, 0, c, d)
<1>0. WellFormed(sp, st) /\ OnStack(sp, old, g) /\ Hanging(sp, old, g, n) /\ Timed(sp, a, b) /\ Nested(sp)
  BY Zenon DEF IsTree
<1>t. /\ sp \in Seq(SpanRecord) /\ Len(sp) \in Nat /\ old \in Seq(FrameRecord) /\ Len(old) \in Nat
  BY <1>0, TreeTypes, Zenon
<1>r. /\ x \in Seq(FrameRecord) /\ Len(x) = Len(old) - g
      /\ \A j \in 1 .. Len(old) - g : x[j] = old[g + j]
  BY Zenon DEF Rest
<1>1. /\ \A j : j \in 0 + 1 .. Len(x) <=> j \in 1 .. Len(x)
      /\ \A j \in 1 .. Len(x) : g + j \in 1 .. Len(old) /\ g + j \in g + 1 .. Len(old)
      /\ \A j, k \in 1 .. Len(x) : j < k => g + j < g + k
      /\ \A j \in g + 1 .. Len(old) : j - g \in 1 .. Len(x) /\ g + (j - g) = j
      /\ \A j : j \in 0 + 1 .. Len(x) - 1 => j \in 1 .. Len(x) /\ j + 1 \in 1 .. Len(x) /\ g + j \in g + 1 .. Len(old) - 1 /\ g + j # n
      /\ \A j \in 1 .. Len(x) : g + (j + 1) = (g + j) + 1 /\ (g + j < Len(old) => j < Len(x) /\ j + 1 \in 1 .. Len(x))
  <2>0. Len(x) \in Nat /\ Len(old) \in Nat /\ Len(x) = Len(old) - g
    BY <1>r, <1>t, SMT
  <2>1. \A j : j \in 0 + 1 .. Len(x) <=> j \in 1 .. Len(x)
    BY <2>0, SMT
  <2>2. \A j \in 1 .. Len(x) : g + j \in 1 .. Len(old) /\ g + j \in g + 1 .. Len(old)
    BY <2>0, SMT
  <2>3. \A j, k \in 1 .. Len(x) : j < k => g + j < g + k
    BY <2>0, SMT
  <2>4. \A j \in g + 1 .. Len(old) : j - g \in 1 .. Len(x) /\ g + (j - g) = j
    BY <2>0, SMT
  <2>5. \A j : j \in 0 + 1 .. Len(x) - 1 => j \in 1 .. Len(x) /\ j + 1 \in 1 .. Len(x) /\ g + j \in g + 1 .. Len(old) - 1 /\ g + j # n
    BY <2>0, SMT
  <2>6. \A j \in 1 .. Len(x) : g + (j + 1) = (g + j) + 1 /\ (g + j < Len(old) => j < Len(x) /\ j + 1 \in 1 .. Len(x))
    BY <2>0, SMT
  <2>7. QED
    BY <2>1, <2>2, <2>3, <2>4, <2>5, <2>6, Zenon
<1>2. \A j \in 1 .. Len(x) : x[j] = old[g + j]
  BY <1>r, Zenon
<1>o. /\ \A i \in 1 .. Len(old) : old[i].id >= 1 /\ old[i].span \in 1 .. Len(sp)
      /\ \A i \in g + 1 .. Len(old) : sp[old[i].span].inferred /\ sp[old[i].span].state = "open"
      /\ \A i, j \in 1 .. Len(old) : i < j => old[i].span > old[j].span /\ old[i].id >= old[j].id
      /\ \A s \in 1 .. Len(sp) : sp[s].inferred /\ sp[s].state = "open" => \E i \in g + 1 .. Len(old) : old[i].span = s
  BY <1>0, Zenon DEF OnStack
<1>h. /\ \A i, j \in 1 .. Len(old) : old[i].id = old[j].id => sp[old[i].span].start = sp[old[j].span].start
      /\ \A i \in g + 1 .. Len(old) - 1 :
           i # n /\ old[i].id = old[i + 1].id =>
              \A e \in 1 .. Len(sp) : sp[e].parent = old[i + 1].span => e = old[i].span
  BY <1>0, Zenon DEF Hanging
<1>3. OnStack(sp, x, 0)
  <2>1. ASSUME NEW j \in 1 .. Len(x) PROVE x[j].id >= 1 /\ x[j].span \in 1 .. Len(sp)
    <3>1. x[j] = old[g + j] /\ g + j \in 1 .. Len(old)
      BY <1>1, <1>2, Zenon
    <3>2. old[g + j].id >= 1 /\ old[g + j].span \in 1 .. Len(sp)
      BY <3>1, <1>o, Zenon
    <3>3. QED
      BY <3>1, <3>2, Zenon
  <2>2. ASSUME NEW j \in 1 .. Len(x) PROVE sp[x[j].span].inferred /\ sp[x[j].span].state = "open"
    <3>1. x[j] = old[g + j] /\ g + j \in g + 1 .. Len(old)
      BY <1>1, <1>2, Zenon
    <3>2. sp[old[g + j].span].inferred /\ sp[old[g + j].span].state = "open"
      BY <3>1, <1>o, Zenon
    <3>3. QED
      BY <3>1, <3>2, Zenon
  <2>3. ASSUME NEW j \in 1 .. Len(x), NEW k \in 1 .. Len(x), j < k
        PROVE  x[j].span > x[k].span /\ x[j].id >= x[k].id
    <3>1. /\ x[j] = old[g + j] /\ g + j \in 1 .. Len(old) /\ x[k] = old[g + k] /\ g + k \in 1 .. Len(old)
          /\ g + j < g + k
      BY <2>3, <1>1, <1>2, Zenon
    <3>2. old[g + j].span > old[g + k].span /\ old[g + j].id >= old[g + k].id
      BY <3>1, <1>o, Zenon
    <3>3. QED
      BY <3>1, <3>2, Zenon
  <2>4. ASSUME NEW s \in 1 .. Len(sp), sp[s].inferred, sp[s].state = "open" PROVE \E j \in 1 .. Len(x) : x[j].span = s
    <3>1. PICK j \in g + 1 .. Len(old) : old[j].span = s
      BY <2>4, <1>o, Zenon
    <3>2. j - g \in 1 .. Len(x) /\ g + (j - g) = j
      BY <1>1, Zenon
    <3>3. x[j - g] = old[j]
      BY <3>2, <1>2, Zenon
    <3>4. QED
      BY <3>1, <3>2, <3>3, Zenon
  <2>5. QED
    BY <2>1, <2>2, <2>3, <2>4, <1>1, <1>r, Zenon DEF OnStack
<1>4. Hanging(sp, x, 0, 0)
  <2>1. ASSUME NEW j \in 1 .. Len(x)
        PROVE  LET p == sp[x[j].span].parent
               IN  p = 0 \/ ~sp[p].inferred \/ (j < Len(x) /\ p = x[j + 1].span)
    <3> DEFINE p == sp[x[j].span].parent
    <3>1. x[j] = old[g + j] /\ g + j \in g + 1 .. Len(old)
      BY <1>1, <1>2, Zenon
    <3>2. p = 0 \/ ~sp[p].inferred \/ (g + j < Len(old) /\ p = old[(g + j) + 1].span)
      BY <3>1, <1>0, Zenon DEF Hanging
    <3>3. g + j < Len(old) => j < Len(x) /\ x[j + 1] = old[(g + j) + 1]
      <4>1. SUFFICES ASSUME g + j < Len(old) PROVE j < Len(x) /\ x[j + 1] = old[(g + j) + 1]
        BY Zenon
      <4>2. g + (j + 1) = (g + j) + 1 /\ j < Len(x) /\ j + 1 \in 1 .. Len(x)
        BY <4>1, <1>1, Zenon
      <4>3. x[j + 1] = old[g + (j + 1)]
        BY <4>2, <1>2, Zenon
      <4>4. QED
        BY <4>2, <4>3, Zenon
    <3> HIDE DEF p
    <3>4. p = 0 \/ ~sp[p].inferred \/ (j < Len(x) /\ p = x[j + 1].span)
      BY <3>2, <3>3, Zenon
    <3>5. QED
      BY <3>4 DEF p
  <2>2. ASSUME NEW j \in 1 .. Len(x), NEW k \in 1 .. Len(x), x[j].id = x[k].id
        PROVE  sp[x[j].span].start = sp[x[k].span].start
    <3>1. x[j] = old[g + j] /\ g + j \in 1 .. Len(old) /\ x[k] = old[g + k] /\ g + k \in 1 .. Len(old)
      BY <1>1, <1>2, Zenon
    <3>2. old[g + j].id = old[g + k].id
      BY <3>1, <2>2, Zenon
    <3>3. sp[old[g + j].span].start = sp[old[g + k].span].start
      BY <3>1, <3>2, <1>h, Zenon
    <3>4. QED
      BY <3>1, <3>3, Zenon
  <2>3. ASSUME NEW j \in 0 + 1 .. Len(x) - 1, x[j].id = x[j + 1].id,
               NEW s \in 1 .. Len(sp), sp[s].parent = x[j + 1].span
        PROVE  s = x[j].span
    <3>0. j \in 1 .. Len(x) /\ j + 1 \in 1 .. Len(x) /\ g + j \in g + 1 .. Len(old) - 1 /\ g + j # n
      BY <1>1, Zenon
    <3>1. x[j] = old[g + j] /\ x[j + 1] = old[g + (j + 1)] /\ g + (j + 1) = (g + j) + 1
      BY <3>0, <1>1, <1>2, Zenon
    <3>2. old[g + j].id = old[(g + j) + 1].id /\ sp[s].parent = old[(g + j) + 1].span
      BY <3>1, <2>3, Zenon
    <3>3. s = old[g + j].span
      BY <3>0, <3>2, <1>h, Zenon
    <3>4. QED
      BY <3>1, <3>3, Zenon
  <2>4. QED
    BY <2>1, <2>2, <2>3, <1>1, Zenon DEF Hanging
<1>5. Timed(sp, c, d)
  BY <1>0, <1>t, TimedLater, Zenon
<1>6. QED
  BY <1>0, <1>3, <1>4, <1>5, Zenon DEF IsTree

-----------------------------------------------------------------------------
(* One turn of the loop that starts spans for new frames *)

\* The frame and the parent that startNewFrame takes.
NewFrame(frame, s) == [frame |-> frame, span |-> s, id |-> stackTraceId + 1]
ParentOf(w, usePrevious) == IF usePrevious /\ w.frames # <<>> THEN w.frames[1].span ELSE Current(w.storage)

\* startFrameSpan adds a span and its scope.
LEMMA StartEffect ==
  ASSUME NEW w, IsWork(w), NEW parent, NEW start
  PROVE  LET x == startFrameSpan(w, parent, start)
         IN  /\ IsWork(x) /\ SameRest(x, w)
             /\ x.spans = Append(w.spans, NewSpan(TRUE, parent, start))
             /\ x.storage = Append(w.storage, Scope(Len(w.spans) + 1, TRUE))
<1> DEFINE p == Append(w.spans, NewSpan(TRUE, parent, start))
           t == Append(w.storage, Scope(Len(w.spans) + 1, TRUE))
           x == startFrameSpan(w, parent, start)
<1>1. x = [w EXCEPT !.spans = p, !.storage = t]
  BY SMT DEF startFrameSpan, IsWork
<1> HIDE DEF p, t, x
<1>2. x = [spans |-> p, storage |-> t, frames |-> w.frames, previousId |-> w.previousId, failed |-> w.failed, drop |-> w.drop]
  BY <1>1, Zenon DEF IsWork
<1>3. IsWork(x) /\ SameRest(x, w) /\ x.spans = p /\ x.storage = t
  BY <1>2, Zenon DEF IsWork, SameRest
<1>4. QED
  BY <1>3, Zenon DEF p, t, x

\* Only the frames are replaced.
LEMMA PushEffect ==
  ASSUME NEW x, IsWork(x), NEW frames
  PROVE  LET y == [x EXCEPT !.frames = frames]
         IN  IsWork(y) /\ y.spans = x.spans /\ y.storage = x.storage /\ y.frames = frames
<1> DEFINE y == [x EXCEPT !.frames = frames]
<1>0. y = [x EXCEPT !.frames = frames]
  OBVIOUS
<1> HIDE DEF y
<1>1. y = [spans |-> x.spans, storage |-> x.storage, frames |-> frames, previousId |-> x.previousId, failed |-> x.failed, drop |-> x.drop]
  BY <1>0, Zenon DEF IsWork
<1>2. IsWork(y) /\ y.spans = x.spans /\ y.storage = x.storage /\ y.frames = frames
  BY <1>1, Zenon DEF IsWork
<1>3. QED
  BY <1>2 DEF y

\* During the second loop: the frames of this capture start together, and the last
\* span started is the one of the innermost.
Starting(w, start) ==
    /\ IsWork(w)
    /\ IsTree(w.spans, w.storage, w.frames, 0, 0, start, clock)
    /\ \A j \in 1 .. Len(w.frames) :
          /\ w.frames[j].id <= stackTraceId + 1
          /\ w.frames[j].id = stackTraceId + 1 => w.spans[w.frames[j].span].start = start
    /\ w.frames # <<>> /\ w.frames[1].id = stackTraceId + 1 => w.frames[1].span = Len(w.spans)

\* The span and the frame that a turn adds.
LEMMA StartsSpan ==
  ASSUME opt.minDuration \in Nat, stackTraceId \in Nat, clock \in Nat, NEW start \in Nat,
         NEW w, Starting(w, start), NEW frame \in AnyFrame, NEW usePrevious
  PROVE  LET p   == ParentOf(w, usePrevious)
             x   == startFrameSpan(w, p, start)
             top == NewFrame(frame, Len(w.spans) + 1)
         IN  /\ IsWork(x) /\ x.frames = w.frames /\ top \in FrameRecord
             /\ Grown(x.spans, w.spans, TRUE, p, start)
             /\ IsTree(x.spans, x.storage, Cons(top, w.frames), 0, 0, start, clock)
<1> DEFINE p   == ParentOf(w, usePrevious)
           x   == startFrameSpan(w, p, start)
           top == NewFrame(frame, Len(w.spans) + 1)
           sp  == w.spans
           st  == w.storage
           fr  == w.frames
<1>1. /\ IsWork(w) /\ IsTree(sp, st, fr, 0, 0, start, clock)
      /\ \A j \in 1 .. Len(fr) : fr[j].id <= stackTraceId + 1
                                  /\ (fr[j].id = stackTraceId + 1 => sp[fr[j].span].start = start)
      /\ fr # <<>> /\ fr[1].id = stackTraceId + 1 => fr[1].span = Len(sp)
  BY Zenon DEF Starting
<1>2. WellFormed(sp, st) /\ OnStack(sp, fr, 0)
  BY <1>1, Zenon DEF IsTree
<1>3. /\ sp \in Seq(SpanRecord) /\ Len(sp) \in Nat /\ fr \in Seq(FrameRecord) /\ Len(fr) \in Nat
      /\ \A j \in 1 .. Len(fr) : fr[j].span \in 1 .. Len(sp) /\ fr[j].id \in Nat
  BY <1>2, TreeTypes, Zenon
<1>4. p = Current(st) \/ (fr # <<>> /\ p = fr[1].span)
  BY Zenon DEF ParentOf
<1>5. p \in Nat
  <2>1. Current(st) \in Nat
    BY <1>2, CurrentIsLast, Zenon
  <2>2. fr # <<>> => 1 \in 1 .. Len(fr)
    BY <1>3, SMT
  <2>3. fr # <<>> => fr[1].span \in 1 .. Len(sp)
    BY <2>2, <1>3, Zenon
  <2>4. \A c : c \in 1 .. Len(sp) => c \in Nat
    BY <1>3, SMT
  <2>5. QED
    BY <2>1, <2>3, <2>4, <1>4, Zenon
<1> HIDE DEF p
<1>6. /\ IsWork(x) /\ SameRest(x, w)
      /\ x.spans = Append(sp, NewSpan(TRUE, p, start))
      /\ x.storage = Append(st, Scope(Len(sp) + 1, TRUE))
  BY <1>1, StartEffect, Zenon
<1>7. Grown(Append(sp, NewSpan(TRUE, p, start)), sp, TRUE, p, start)
  BY <1>3, <1>5, GrownOf, Zenon
<1>8. top \in FrameRecord /\ top.span = Len(sp) + 1 /\ top.id = stackTraceId + 1 /\ top.id >= 1
  BY <1>3, SMT DEF NewFrame, FrameRecord
<1> HIDE DEF x, top, sp, st, fr
<1>9. IsTree(Append(sp, NewSpan(TRUE, p, start)), Append(st, Scope(Len(sp) + 1, TRUE)), Cons(top, fr), 0, 0, start, clock)
  <2>1. \A j \in 1 .. Len(fr) : fr[j].id <= top.id /\ (fr[j].id = top.id => sp[fr[j].span].start = start)
    BY <1>1, <1>8, Zenon
  <2>2. fr # <<>> /\ fr[1].id = top.id => fr[1].span = Len(sp)
    BY <1>1, <1>8, Zenon
  <2>3. IsTree(sp, st, fr, 0, 0, start, clock)
    BY <1>1, Zenon
  <2>4. QED
    BY <2>1, <2>2, <2>3, <1>4, <1>5, <1>7, <1>8, StartStep, Zenon
<1>10. /\ IsWork(x) /\ x.frames = fr /\ top \in FrameRecord
       /\ Grown(x.spans, sp, TRUE, p, start)
       /\ IsTree(x.spans, x.storage, Cons(top, fr), 0, 0, start, clock)
  BY <1>6, <1>7, <1>8, <1>9, Zenon DEF SameRest, fr
<1>11. QED
  BY <1>10, Zenon DEF x, top, sp, st, fr, p

\* A turn of the second loop.
LEMMA StartsFrame ==
  ASSUME opt.minDuration \in Nat, stackTraceId \in Nat, clock \in Nat, NEW start \in Nat,
         NEW w, Starting(w, start), NEW frame \in AnyFrame, NEW usePrevious, NEW internal, ~internal
  PROVE  LET y == startNewFrame(w, frame, usePrevious, start, internal)
         IN  Starting(y, start) /\ y.frames = Cons(NewFrame(frame, Len(w.spans) + 1), w.frames)
<1> DEFINE p   == ParentOf(w, usePrevious)
           x   == startFrameSpan(w, p, start)
           top == NewFrame(frame, Len(w.spans) + 1)
           fr  == w.frames
           z   == Cons(top, fr)
           y   == [x EXCEPT !.frames = z]
<1>1. /\ IsWork(x) /\ x.frames = fr /\ top \in FrameRecord
      /\ Grown(x.spans, w.spans, TRUE, p, start)
      /\ IsTree(x.spans, x.storage, z, 0, 0, start, clock)
  BY StartsSpan, Zenon
<1>2. /\ IsTree(w.spans, w.storage, fr, 0, 0, start, clock)
      /\ \A j \in 1 .. Len(fr) : fr[j].id <= stackTraceId + 1
                                  /\ (fr[j].id = stackTraceId + 1 => w.spans[fr[j].span].start = start)
  BY Zenon DEF Starting
<1>3. /\ w.spans \in Seq(SpanRecord) /\ Len(w.spans) \in Nat /\ fr \in Seq(FrameRecord) /\ Len(fr) \in Nat
      /\ \A j \in 1 .. Len(fr) : fr[j].span \in 1 .. Len(w.spans) /\ fr[j].id \in Nat
  BY <1>2, TreeTypes, Zenon DEF IsTree
<1>4. Len(x.spans) = Len(w.spans) + 1
  BY <1>1, Zenon DEF Grown
<1>5. startNewFrame(w, frame, usePrevious, start, internal) = y
  <2>1. startNewFrame(w, frame, usePrevious, start, internal)
          = [x EXCEPT !.frames = Cons([frame |-> frame, span |-> Len(x.spans), id |-> stackTraceId + 1], @)]
    BY Zenon DEF startNewFrame, ParentOf
  <2>2. [x EXCEPT !.frames = Cons([frame |-> frame, span |-> Len(x.spans), id |-> stackTraceId + 1], @)]
          = [x EXCEPT !.frames = Cons([frame |-> frame, span |-> Len(x.spans), id |-> stackTraceId + 1], x.frames)]
    BY Zenon
  <2>3. [frame |-> frame, span |-> Len(x.spans), id |-> stackTraceId + 1] = top
    BY <1>4, Zenon DEF NewFrame
  <2> HIDE DEF x, top
  <2>4. QED
    BY <2>1, <2>2, <2>3, <1>1, Zenon
<1> HIDE DEF x
<1>6. IsWork(y) /\ y.spans = x.spans /\ y.storage = x.storage /\ y.frames = z
  BY <1>1, PushEffect, Zenon
<1>7. top.span = Len(w.spans) + 1 /\ top.id = stackTraceId + 1
  BY Zenon DEF NewFrame
<1> HIDE DEF top, y
<1>8. OnTop(FrameRecord, z, top, fr)
  BY <1>1, <1>3, ConsOf, Zenon
<1> HIDE DEF z, fr
<1>9. /\ z \in Seq(FrameRecord) /\ Len(z) = Len(fr) + 1 /\ z[1] = top
      /\ \A j \in 1 .. Len(fr) : z[j + 1] = fr[j]
  BY <1>8, Zenon DEF OnTop
<1>10. ASSUME NEW j \in 1 .. Len(z)
       PROVE  z[j].id <= stackTraceId + 1 /\ (z[j].id = stackTraceId + 1 => x.spans[z[j].span].start = start)
  <2>1. CASE j = 1
    <3>1. x.spans[top.span].start = start
      BY <1>1, <1>7, Zenon DEF Grown
    <3>2. stackTraceId + 1 <= stackTraceId + 1
      BY SMT
    <3>3. QED
      BY <3>1, <3>2, <2>1, <1>7, <1>9, Zenon
  <2>2. CASE j # 1
    <3>1. j - 1 \in 1 .. Len(fr) /\ (j - 1) + 1 = j
      BY <2>2, <1>9, <1>3, SMT
    <3>2. z[j] = fr[j - 1]
      BY <3>1, <1>9, Zenon
    <3>3. x.spans[fr[j - 1].span] = w.spans[fr[j - 1].span]
      BY <3>1, <1>1, <1>3, Zenon DEF Grown
    <3>4. QED
      BY <3>1, <3>2, <3>3, <1>2, Zenon
  <2>3. QED
    BY <2>1, <2>2, Zenon
<1>11. z[1].span = Len(x.spans)
  BY <1>4, <1>7, <1>9, Zenon
<1>12. Starting(y, start) /\ y.frames = z
  BY <1>1, <1>6, <1>10, <1>11, Zenon DEF Starting
<1>13. QED
  BY <1>12, <1>5, Zenon DEF z, top, fr

\* An internal function on top of the stack: its span ends at once.
Passes(y, w, start) == y.frames = w.frames /\ IsTree(y.spans, y.storage, w.frames, 0, 0, start, clock)

\* Its last turn, for an internal function.
LEMMA StartsInternal ==
  ASSUME opt.minDuration \in Nat, opt.sampled, stackTraceId \in Nat, clock \in Nat, NEW start \in Nat, start <= clock,
         NEW w, Starting(w, start), NEW frame \in AnyFrame, NEW usePrevious
  PROVE  Passes(startNewFrame(w, frame, usePrevious, start, TRUE), w, start)
<1> DEFINE p   == ParentOf(w, usePrevious)
           x   == startFrameSpan(w, p, start)
           top == NewFrame(frame, Len(w.spans) + 1)
           fr  == w.frames
           z   == Cons(top, fr)
           s   == Len(w.spans) + 1
           y   == endFrameSpan(x, s, FALSE, clock)
<1>1. /\ IsWork(x) /\ x.frames = fr /\ top \in FrameRecord
      /\ Grown(x.spans, w.spans, TRUE, p, start)
      /\ IsTree(x.spans, x.storage, z, 0, 0, start, clock)
  BY StartsSpan, Zenon
<1>2. IsTree(w.spans, w.storage, fr, 0, 0, start, clock)
  BY Zenon DEF Starting
<1>3. w.spans \in Seq(SpanRecord) /\ Len(w.spans) \in Nat /\ fr \in Seq(FrameRecord) /\ Len(fr) \in Nat
  BY <1>2, TreeTypes, Zenon DEF IsTree
<1>4. Len(x.spans) = s /\ x.spans[s].state = "open" /\ s \in 1 .. s
  <2>1. Len(x.spans) = s /\ x.spans[s].state = "open"
    BY <1>1, Zenon DEF Grown
  <2>2. s \in 1 .. s
    BY <1>3, SMT
  <2>3. QED
    BY <2>1, <2>2
<1>5. startNewFrame(w, frame, usePrevious, start, TRUE) = y
  <2>1. startNewFrame(w, frame, usePrevious, start, TRUE) = endFrameSpan(x, Len(x.spans), FALSE, clock)
    BY Zenon DEF startNewFrame, ParentOf
  <2>2. QED
    BY <2>1, <1>4, Zenon
<1>7. top.span = s
  BY Zenon DEF NewFrame
<1> HIDE DEF x, top, s
<1>8. OnTop(FrameRecord, z, top, fr)
  BY <1>1, <1>3, ConsOf, Zenon
<1> HIDE DEF z, fr
<1>9. /\ z \in Seq(FrameRecord) /\ Len(z) = Len(fr) + 1 /\ z[1] = top
      /\ \A j \in 1 .. Len(fr) : z[j + 1] = fr[j]
  BY <1>8, Zenon DEF OnTop
<1>10. /\ WellFormed(x.spans, x.storage) /\ OnStack(x.spans, z, 0) /\ Hanging(x.spans, z, 0, 0)
       /\ Timed(x.spans, start, clock) /\ Nested(x.spans)
  BY <1>1, Zenon DEF IsTree
<1>11. EndsTo(y, x, s, FALSE, clock)
  BY <1>1, <1>4, <1>10, EndEffect, Zenon
<1>12. /\ SameRest(y, x) /\ y.storage = Detach(x.storage, s)
       /\ Replaced(y.spans, x.spans, s, Outcome(x.spans, s, FALSE, clock))
  BY <1>11, Zenon DEF EndsTo
<1> HIDE DEF y
<1>13. 1 \in 1 .. Len(z) /\ 1 - 1 = 0
  BY <1>9, <1>3, SMT
<1>14. Hanging(x.spans, z, 1, 0)
  <2>1. Hanging(x.spans, z, 1 - 1, 0)
    BY <1>10, <1>13, Zenon
  <2>2. QED
    BY <2>1, <1>9, <1>13, HangingLess, Zenon
<1>15. z[1].span = s
  BY <1>7, <1>9, Zenon
<1>16. IsTree(y.spans, Detach(x.storage, z[1].span), z, 1, 0, start, clock)
  <2>1. OnStack(x.spans, z, 1 - 1)
    BY <1>10, <1>13, Zenon
  <2>2. Replaced(y.spans, x.spans, z[1].span, Outcome(x.spans, z[1].span, FALSE, clock))
    BY <1>12, <1>15, Zenon
  <2>3. QED
    BY <2>1, <2>2, <1>10, <1>13, <1>14, EndStep, Zenon
<1>17. IsTree(y.spans, y.storage, fr, 0, 0, start, clock)
  <2>1. Rest(fr, z, 1)
    <3>1. Len(fr) = Len(z) - 1 /\ \A j \in 1 .. Len(fr) : 1 + j = j + 1
      BY <1>9, <1>3, SMT
    <3>2. QED
      BY <3>1, <1>3, <1>9, Zenon DEF Rest
  <2>2. 1 \in Nat /\ 1 <= Len(z) /\ 0 \in Nat /\ 0 <= 1 /\ start <= start /\ clock <= clock
    BY <1>13, <1>9, <1>3, SMT
  <2>3. IsTree(y.spans, y.storage, z, 1, 0, start, clock)
    BY <1>16, <1>12, <1>15, Zenon
  <2>4. QED
    BY <2>1, <2>2, <2>3, Reindex, Zenon
<1>18. y.frames = fr
  BY <1>12, <1>1, Zenon DEF SameRest
<1>19. QED
  BY <1>5, <1>17, <1>18, Zenon DEF fr, Passes

-----------------------------------------------------------------------------
(* Types, and what an unsampled request's spans are *)

\* What holds whoever touched the storage, and for requests that are not sampled.
IsBase(sp, st, fr) ==
    /\ sp \in Seq(SpanRecord) /\ st \in Seq(ScopeRecord) /\ fr \in Seq(FrameRecord)
    /\ \A i \in 1 .. Len(fr) : fr[i].span \in 1 .. Len(sp)

\* The same of the working state.
Based(w) == IsWork(w) /\ IsBase(w.spans, w.storage, w.frames)

\* The scope of every inferred span is still attached.
ScopesStay(sp, st) ==
    \A c \in 1 .. Len(sp) : sp[c].inferred => \E p \in 1 .. Len(st) : st[p] = Scope(c, TRUE)

\* No span of a request that is not sampled is dropped; no inferred one ends, and
\* its scope stays.
Quiet(sp, st) ==
    /\ \A s \in 1 .. Len(sp) : /\ sp[s].state # "dropped" /\ (sp[s].inferred => sp[s].state # "ended")
                               /\ sp[s].parent <= Len(sp)
    /\ \A p \in 1 .. Len(st) : st[p].span <= Len(sp)
    /\ ScopesStay(sp, st)

\* Detach leaves scopes.
LEMMA DetachType ==
  ASSUME NEW st \in Seq(ScopeRecord), NEW s
  PROVE  Detach(st, s) \in Seq(ScopeRecord)
<1>1. CASE ~IsAttached(st, s)
  BY <1>1, Zenon DEF Detach
<1>2. CASE IsAttached(st, s)
  <2> DEFINE k == CHOOSE i \in DOMAIN st : st[i] = Scope(s, TRUE)
  <2>1. k \in DOMAIN st
    BY <1>2, Zenon DEF IsAttached
  <2>2. DOMAIN st = 1 .. Len(st)
    BY SMT
  <2>3. Detach(st, s) = RemoveAt(st, k)
    BY <1>2, Zenon DEF Detach
  <2> HIDE DEF k
  <2>4. Without(ScopeRecord, RemoveAt(st, k), st, k)
    BY <2>1, <2>2, Removed, Zenon
  <2>5. QED
    BY <2>3, <2>4, Zenon DEF Without
<1>3. QED
  BY <1>1, <1>2, Zenon

\* The current context is that of a span or of the root.
LEMMA CurrentType ==
  ASSUME NEW st \in Seq(ScopeRecord)
  PROVE  Current(st) \in Nat
<1>1. CASE st = <<>>
  BY <1>1, SMT DEF Current
<1>2. CASE st # <<>>
  <2>1. Current(st) = st[Len(st)].span
    BY <1>2, Zenon DEF Current, Last
  <2>2. st[Len(st)] \in ScopeRecord
    BY <1>2, SMT
  <2>3. st[Len(st)].span \in Nat
    BY <2>2, SMT DEF ScopeRecord
  <2>4. QED
    BY <2>1, <2>3, Zenon
<1>3. QED
  BY <1>1, <1>2, Zenon

\* A field of a record replaced.
LEMMA FieldType ==
  ASSUME NEW r \in SpanRecord
  PROVE  /\ \A a \in {"open", "ended", "dropped"} : [r EXCEPT !.state = a] \in SpanRecord
         /\ \A t \in Nat : [r EXCEPT !.end = t] \in SpanRecord
<1>1. r = [inferred |-> r.inferred, parent |-> r.parent, start |-> r.start, end |-> r.end, state |-> r.state]
  BY SMT DEF SpanRecord
<1>2. /\ r.inferred \in BOOLEAN /\ r.parent \in Nat /\ r.start \in Nat /\ r.end \in Nat
      /\ r.state \in {"open", "ended", "dropped"}
  BY SMT DEF SpanRecord
<1>3. ASSUME NEW a \in {"open", "ended", "dropped"} PROVE [r EXCEPT !.state = a] \in SpanRecord
  <2>1. [r EXCEPT !.state = a] = [inferred |-> r.inferred, parent |-> r.parent, start |-> r.start, end |-> r.end, state |-> a]
    BY <1>1, SMT
  <2>2. QED
    BY <2>1, <1>2, SMT DEF SpanRecord
<1>4. ASSUME NEW t \in Nat PROVE [r EXCEPT !.end = t] \in SpanRecord
  <2>1. [r EXCEPT !.end = t] = [inferred |-> r.inferred, parent |-> r.parent, start |-> r.start, end |-> t, state |-> r.state]
    BY <1>1, SMT
  <2>2. QED
    BY <2>1, <1>2, SMT DEF SpanRecord
<1>5. QED
  BY <1>3, <1>4, Zenon

\* One record replaced by another.
Swapped(new, sp, s, r) ==
    /\ new \in Seq(SpanRecord) /\ Len(new) = Len(sp) /\ new[s] = r
    /\ \A c \in 1 .. Len(sp) : c # s => new[c] = sp[c]

\* A span replaced by another.
LEMMA ReplaceType ==
  ASSUME NEW sp \in Seq(SpanRecord), NEW s \in 1 .. Len(sp), NEW r \in SpanRecord
  PROVE  Swapped([sp EXCEPT ![s] = r], sp, s, r)
  BY SMT DEF Swapped

\* EndAt leaves spans.
LEMMA EndAtType ==
  ASSUME NEW sp \in Seq(SpanRecord), NEW s \in 1 .. Len(sp), NEW time \in Nat
  PROVE  EndAt(sp, s, time) \in Seq(SpanRecord) /\ Len(EndAt(sp, s, time)) = Len(sp)
<1>1. CASE sp[s].state # "open"
  BY <1>1, Zenon DEF EndAt
<1>2. CASE sp[s].state = "open"
  <2> DEFINE r == [sp[s] EXCEPT !.state = "ended"]
             q == [r EXCEPT !.end = time]
             x == [sp EXCEPT ![s] = r]
             y == [x EXCEPT ![s] = q]
  <2>1. sp[s] \in SpanRecord
    BY SMT
  <2>2. r \in SpanRecord
    BY <2>1, FieldType, Zenon
  <2>3. q \in SpanRecord
    BY <2>2, FieldType, Zenon
  <2>4. EndAt(sp, s, time) = [sp EXCEPT ![s].state = "ended", ![s].end = time]
    BY <1>2, Zenon DEF EndAt
  <2>5. x = [sp EXCEPT ![s].state = "ended"]
    BY Zenon
  <2>6. x \in Seq(SpanRecord) /\ Len(x) = Len(sp) /\ x[s] = r
    <3> HIDE DEF r
    <3>1. Swapped(x, sp, s, r)
      BY <2>2, ReplaceType, Zenon
    <3>2. QED
      BY <3>1, Zenon DEF Swapped
  <2>7. EndAt(sp, s, time) = [x EXCEPT ![s].end = time]
    BY <2>4, <2>5, Zenon
  <2> HIDE DEF x, r
  <2>8. EndAt(sp, s, time) = [x EXCEPT ![s] = q]
    BY <2>6, <2>7, Zenon
  <2> HIDE DEF q
  <2>9. s \in 1 .. Len(x)
    BY <2>6, Zenon
  <2>10. Swapped([x EXCEPT ![s] = q], x, s, q)
    BY <2>3, <2>6, <2>9, ReplaceType, Zenon
  <2>11. QED
    BY <2>6, <2>8, <2>10, Zenon DEF Swapped
<1>3. QED
  BY <1>1, <1>2, Zenon

\* So does Settle.
LEMMA SettleType ==
  ASSUME NEW w, IsWork(w), w.spans \in Seq(SpanRecord), NEW s \in 1 .. Len(w.spans), NEW dropSpan, NEW time \in Nat
  PROVE  LET x == Settle(w, s, dropSpan, time)
         IN  IsWork(x) /\ x.frames = w.frames /\ x.spans \in Seq(SpanRecord) /\ Len(x.spans) = Len(w.spans)
<1> DEFINE x == Settle(w, s, dropSpan, time)
           a == IF w.spans[s].state = "open" THEN "dropped" ELSE w.spans[s].state
           r == [w.spans[s] EXCEPT !.state = a]
           p == [w.spans EXCEPT ![s] = r]
           q == EndAt(w.spans, s, time)
<1>1. w.spans[s] \in SpanRecord
  BY SMT
<1>a. a \in {"open", "ended", "dropped"}
  BY <1>1, SMT DEF SpanRecord
<1>2. r \in SpanRecord
  BY <1>1, <1>a, FieldType, Zenon
<1>3. p \in Seq(SpanRecord) /\ Len(p) = Len(w.spans)
  <2> HIDE DEF r
  <2>1. Swapped(p, w.spans, s, r)
    BY <1>2, ReplaceType, Zenon
  <2>2. QED
    BY <2>1, Zenon DEF Swapped
<1>4. q \in Seq(SpanRecord) /\ Len(q) = Len(w.spans)
  BY EndAtType, Zenon
<1>5. x = [w EXCEPT !.spans = p] \/ x = [w EXCEPT !.spans = q]
  <2>1. CASE dropSpan \/ shouldDropTooShortSpan(w.spans, s, time)
    <3>1. x = [w EXCEPT !.spans[s].state = IF @ = "open" THEN "dropped" ELSE @]
      BY <2>1, Zenon DEF Settle
    <3>2. x = [w EXCEPT !.spans = [w.spans EXCEPT ![s].state = IF @ = "open" THEN "dropped" ELSE @]]
      BY <3>1, Zenon DEF IsWork
    <3>3. [w.spans EXCEPT ![s].state = IF @ = "open" THEN "dropped" ELSE @] = p
      BY <1>1, SMT DEF SpanRecord
    <3>4. QED
      BY <3>2, <3>3, Zenon
  <2>2. CASE ~(dropSpan \/ shouldDropTooShortSpan(w.spans, s, time))
    <3>1. x = [w EXCEPT !.spans = EndAt(@, s, time)]
      BY <2>2, Zenon DEF Settle
    <3>2. x = [w EXCEPT !.spans = q]
      BY <3>1, Zenon DEF IsWork
    <3>3. QED
      BY <3>2, Zenon
  <2>3. QED
    BY <2>1, <2>2, Zenon
<1> HIDE DEF x, p, q
<1>6. \A z : IsWork([w EXCEPT !.spans = z]) /\ [w EXCEPT !.spans = z].frames = w.frames /\ [w EXCEPT !.spans = z].spans = z
  BY SMT DEF IsWork
<1>7. QED
  BY <1>3, <1>4, <1>5, <1>6, Zenon DEF x

\* The types stay; without sampling so does all.
KeepsType(e, w) ==
    /\ Based(e) /\ e.frames = w.frames /\ Len(e.spans) = Len(w.spans)
    /\ ~opt.sampled => e.spans = w.spans /\ e.storage = w.storage

\* So does endFrameSpan, which does nothing to a span that is not the SDK's.
LEMMA EndFrameType ==
  ASSUME NEW w, Based(w), NEW s \in 1 .. Len(w.spans), NEW dropSpan, NEW time \in Nat
  PROVE  KeepsType(endFrameSpan(w, s, dropSpan, time), w)
<1> DEFINE d == Detach(w.storage, s)
           x == Settle(w, s, dropSpan, time)
           e == endFrameSpan(w, s, dropSpan, time)
<1>1. /\ IsWork(w) /\ w.spans \in Seq(SpanRecord) /\ w.storage \in Seq(ScopeRecord) /\ w.frames \in Seq(FrameRecord)
      /\ \A i \in 1 .. Len(w.frames) : w.frames[i].span \in 1 .. Len(w.spans)
  BY Zenon DEF Based, IsBase
<1>2. d \in Seq(ScopeRecord)
  BY <1>1, DetachType, Zenon
<1>3. IsWork(x) /\ x.frames = w.frames /\ x.spans \in Seq(SpanRecord) /\ Len(x.spans) = Len(w.spans)
  BY <1>1, SettleType, Zenon
<1>4. CASE ~opt.sampled
  <2>1. e = w
    BY <1>4, Zenon DEF endFrameSpan
  <2>2. QED
    BY <2>1, <1>1, Zenon DEF KeepsType
<1>5. CASE opt.sampled
  <2>1. e = [w EXCEPT !.storage = d] \/ e = [x EXCEPT !.storage = d]
    BY <1>5, Zenon DEF endFrameSpan
  <2> HIDE DEF d, x, e
  <2>2. \A v : IsWork(v) => /\ IsWork([v EXCEPT !.storage = d]) /\ [v EXCEPT !.storage = d].frames = v.frames
                            /\ [v EXCEPT !.storage = d].spans = v.spans /\ [v EXCEPT !.storage = d].storage = d
    BY SMT DEF IsWork
  <2>3. IsWork(e) /\ e.frames = w.frames /\ e.storage = d /\ (e.spans = w.spans \/ e.spans = x.spans)
    BY <2>1, <2>2, <1>1, <1>3, Zenon
  <2>4. e.spans \in Seq(SpanRecord) /\ Len(e.spans) = Len(w.spans)
    BY <2>3, <1>1, <1>3, Zenon
  <2>5. Based(e) /\ e.frames = w.frames /\ Len(e.spans) = Len(w.spans)
    BY <2>3, <2>4, <1>1, <1>2, Zenon DEF Based, IsBase
  <2>6. QED
    BY <2>5, <1>5, Zenon DEF e, KeepsType
<1>6. QED
  BY <1>4, <1>5, Zenon

\* The same for a turn of the first loop.
LEMMA EndTurnType ==
  ASSUME NEW w, Based(w), NEW old \in Seq(FrameRecord), \A j \in 1 .. Len(old) : old[j].span \in 1 .. Len(w.spans),
         NEW n \in 1 .. Len(old), NEW i \in 1 .. n, NEW time \in Nat,
         opt.canSetParent \in BOOLEAN, opt.sampled \in BOOLEAN, opt.reduction \in BOOLEAN
  PROVE  KeepsType(endOldFrame(w, old, i, n, time), w)
<1> DEFINE s == old[i].span
           r == IF opt.reduction THEN shouldReduceFrame(w, old, i, n) ELSE w
           e == endFrameSpan(r, s, r.drop, time)
<1>1. /\ IsWork(w) /\ w.spans \in Seq(SpanRecord) /\ w.storage \in Seq(ScopeRecord) /\ w.frames \in Seq(FrameRecord)
      /\ \A j \in 1 .. Len(w.frames) : w.frames[j].span \in 1 .. Len(w.spans)
  BY Zenon DEF Based, IsBase
<1>2. i \in 1 .. Len(old) /\ s \in 1 .. Len(w.spans)
  <2>1. i \in 1 .. Len(old)
    BY SMT
  <2>2. QED
    BY <2>1, Zenon
<1>3. KeepsType(r, w)
  <2>1. CASE ~opt.reduction
    <3>1. r = w
      BY <2>1, Zenon
    <3>2. QED
      BY <3>1, Zenon DEF KeepsType
  <2>2. CASE opt.reduction
    <3> DEFINE x == Moves(w, old, i, n) /\ opt.canSetParent
               q == LastParent(w, old, i, n)
    <3>1. r = shouldReduceFrame(w, old, i, n)
      BY <2>2, Zenon
    <3> HIDE DEF r
    <3>2. ReducesTo(r, w, old, i, n)
      BY <3>1, <1>1, ReduceEffect, Zenon
    <3>3. IsWork(r) /\ r.frames = w.frames /\ r.storage = w.storage /\ r.spans = Reparented(w.spans, s, x, q)
      BY <3>2, Zenon DEF ReducesTo
    <3>4. x \in BOOLEAN /\ (~opt.sampled => ~x)
      BY Zenon DEF Moves
    <3>5. x => q \in Nat
      <4>1. SUFFICES ASSUME x PROVE q \in Nat
        BY Zenon
      <4> DEFINE m == Max(SameCapture(old, i, n))
      <4>2. SameCapture(old, i, n) # {}
        BY <4>1, Zenon DEF Moves
      <4>3. m \in i + 1 .. n
        BY <4>2, LastOfCapture, Zenon
      <4> HIDE DEF m
      <4>4. m \in 1 .. Len(old)
        BY <4>3, SMT
      <4>5. old[m].span \in 1 .. Len(w.spans)
        BY <4>4, Zenon
      <4>6. w.spans[old[m].span] \in SpanRecord
        BY <4>5, <1>1, SMT
      <4>7. w.spans[old[m].span].parent \in Nat
        BY <4>6, SMT DEF SpanRecord
      <4>8. QED
        BY <4>7, Zenon DEF LastParent, m
    <3> HIDE DEF x, q, s
    <3>6. (~x => r.spans = w.spans) /\ (x => Moved(r.spans, w.spans, s, q))
      <4>1. w.spans \in Seq(SpanRecord) /\ s \in 1 .. Len(w.spans)
        BY <1>1, <1>2, Zenon DEF s
      <4>2. x \in BOOLEAN /\ r.spans = Reparented(w.spans, s, x, q)
        BY <3>3, <3>4, Zenon
      <4> DEFINE sp == w.spans
                 v == r.spans
      <4>3. sp \in Seq(SpanRecord) /\ s \in 1 .. Len(sp) /\ x \in BOOLEAN /\ v = Reparented(sp, s, x, q) /\ (x => q \in Nat)
        BY <4>1, <4>2, <3>5, Zenon
      <4> HIDE DEF sp, v
      <4>4. (~x => v = sp) /\ (x => Moved(v, sp, s, q))
        BY <4>3, MovedOf, Zenon
      <4>5. QED
        BY <4>4, Zenon DEF sp, v
    <3>7. r.spans \in Seq(SpanRecord) /\ Len(r.spans) = Len(w.spans)
      BY <3>4, <3>6, <1>1, Zenon DEF Moved
    <3>8. QED
      BY <3>3, <3>4, <3>6, <3>7, <1>1, Zenon DEF Based, IsBase, KeepsType
  <2>3. QED
    BY <2>1, <2>2, Zenon
<1>4. endOldFrame(w, old, i, n, time) = e
  BY Zenon DEF endOldFrame
<1> HIDE DEF r
<1>5. s \in 1 .. Len(r.spans)
  BY <1>2, <1>3, Zenon DEF KeepsType
<1>6. KeepsType(e, r)
  BY <1>3, <1>5, EndFrameType, Zenon DEF KeepsType
<1> HIDE DEF e
<1>7. QED
  BY <1>3, <1>4, <1>6, Zenon DEF KeepsType

\* The same for the first loop.
LEMMA EndLoopType ==
  ASSUME NEW w, Based(w), NEW old \in Seq(FrameRecord), \A j \in 1 .. Len(old) : old[j].span \in 1 .. Len(w.spans),
         NEW n \in 0 .. Len(old), NEW time \in Nat,
         opt.canSetParent \in BOOLEAN, opt.sampled \in BOOLEAN, opt.reduction \in BOOLEAN
  PROVE  KeepsType(endOldFrames(w, old, n, time), w)
<1>0. n \in Nat /\ n <= Len(old)
  BY SMT
<1>1. PICK f : EndTurns(f, w, old, n, n, time) /\ endOldFrames(w, old, n, time) = f[n]
  BY <1>0, EndLoop, SMTT(30)
<1> DEFINE P(e) == KeepsType(e, w)
           S == {k \in Nat : k <= n => P(f[k])}
<1>2. 0 \in S
  <2>1. f[0] = w
    BY <1>1, Zenon DEF EndTurns
  <2>2. P(f[0])
    BY <2>1, Zenon DEF KeepsType
  <2>3. QED
    BY <2>2, SMT
<1>3. ASSUME NEW k \in Nat, k \in S PROVE k + 1 \in S
  <2>1. SUFFICES ASSUME k + 1 <= n PROVE P(f[k + 1])
    BY SMT
  <2>2. k + 1 \in 1 .. n /\ (k + 1) - 1 = k /\ k <= n
    BY <2>1, <1>0, SMT
  <2>3. P(f[k])
    BY <2>2, <1>3, Zenon
  <2>4. f[k + 1] = endOldFrame(f[k], old, k + 1, n, time)
    BY <2>2, <1>1, Zenon DEF EndTurns
  <2>5. n \in 1 .. Len(old)
    BY <2>1, <1>0, SMT
  <2>6. Based(f[k]) /\ \A j \in 1 .. Len(old) : old[j].span \in 1 .. Len(f[k].spans)
    BY <2>3, Zenon DEF KeepsType
  <2>7. KeepsType(endOldFrame(f[k], old, k + 1, n, time), f[k])
    BY <2>2, <2>5, <2>6, EndTurnType, Zenon
  <2>8. QED
    BY <2>3, <2>4, <2>7, Zenon DEF KeepsType
<1> HIDE DEF S
<1>4. Nat \subseteq S
  BY <1>2, <1>3, Induct, Zenon
<1>5. n \in S /\ n <= n
  BY <1>4, <1>0, SMT
<1>6. P(f[n])
  BY <1>5, Zenon DEF S
<1>7. QED
  BY <1>1, <1>6, Zenon

\* The first loop ends the tree's upper part.
LEMMA EndLoopTree ==
  ASSUME opt.minDuration \in Nat, opt.sampled, opt.reduction \in BOOLEAN, opt.canSetParent \in BOOLEAN,
         captured \in Nat, NEW b \in Nat, captured <= b, NEW w, NEW old \in Seq(FrameRecord), NEW n \in 0 .. Len(old),
         Ending(w, old, 0, n, b)
  PROVE  Ending(endOldFrames(w, old, n, b), old, n, n, b)
<1>0. n \in Nat /\ n <= Len(old)
  BY SMT
<1>1. PICK f : EndTurns(f, w, old, n, n, b) /\ endOldFrames(w, old, n, b) = f[n]
  BY <1>0, EndLoop, Zenon
<1> DEFINE S == {k \in Nat : k <= n => Ending(f[k], old, k, n, b)}
<1>2. 0 \in S
  <2>1. f[0] = w
    BY <1>1, Zenon DEF EndTurns
  <2>2. Ending(f[0], old, 0, n, b)
    BY <2>1, Zenon
  <2>3. QED
    BY <2>2, SMT
<1>3. ASSUME NEW k \in Nat, k \in S PROVE k + 1 \in S
  <2>1. SUFFICES ASSUME k + 1 <= n PROVE Ending(f[k + 1], old, k + 1, n, b)
    BY SMT
  <2>2. k + 1 \in 1 .. n /\ (k + 1) - 1 = k /\ k <= n /\ n \in 1 .. Len(old)
    BY <2>1, <1>0, SMT
  <2>3. Ending(f[k], old, (k + 1) - 1, n, b)
    BY <2>2, <1>3, Zenon
  <2>4. f[k + 1] = endOldFrame(f[k], old, k + 1, n, b)
    BY <2>2, <1>1, Zenon DEF EndTurns
  <2>5. Ending(endOldFrame(f[k], old, k + 1, n, b), old, k + 1, n, b)
    BY <2>2, <2>3, EndTurn, Zenon
  <2>6. QED
    BY <2>4, <2>5, Zenon
<1> HIDE DEF S
<1>4. Nat \subseteq S
  BY <1>2, <1>3, Induct, Zenon
<1>5. n \in S /\ n <= n
  BY <1>4, <1>0, SMT
<1>6. QED
  BY <1>1, <1>5, Zenon DEF S

\* The current span is one of the spans.
LEMMA CurrentQuiet ==
  ASSUME NEW sp \in Seq(SpanRecord), NEW st \in Seq(ScopeRecord), Quiet(sp, st)
  PROVE  Current(st) <= Len(sp)
<1>1. CASE st = <<>>
  <2>1. Current(st) = 0
    BY <1>1, Zenon DEF Current
  <2>2. QED
    BY <2>1, SMT
<1>2. CASE st # <<>>
  <2>1. Len(st) \in 1 .. Len(st)
    BY <1>2, SMT
  <2>2. Current(st) = st[Len(st)].span
    BY <1>2, Zenon DEF Current, Last
  <2>3. QED
    BY <2>1, <2>2, Zenon DEF Quiet
<1>3. QED
  BY <1>1, <1>2, Zenon

\* A span starts under one of the spans.
LEMMA QuietGrows ==
  ASSUME NEW sp \in Seq(SpanRecord), NEW st \in Seq(ScopeRecord), Quiet(sp, st), NEW kind, NEW p \in Nat,
         p <= Len(sp), NEW t, NEW new, Grown(new, sp, kind, p, t)
  PROVE  Quiet(new, Append(st, Scope(Len(sp) + 1, TRUE)))
<1> DEFINE s == Len(sp) + 1
           e == Scope(s, TRUE)
           x == Append(st, e)
<1>1. /\ Len(sp) \in Nat /\ Len(st) \in Nat /\ p <= s /\ s <= s
      /\ \A c \in 1 .. s : c \in 1 .. Len(sp) \/ c = s
  BY SMT
<1>2. Len(new) = s /\ new[s].state = "open" /\ new[s].parent = p /\ \A c \in 1 .. Len(sp) : new[c] = sp[c]
  BY Zenon DEF Grown
<1>3. ASSUME NEW c \in 1 .. Len(new)
      PROVE  /\ new[c].state # "dropped" /\ (new[c].inferred => new[c].state # "ended")
             /\ new[c].parent <= Len(new)
  <2>1. CASE c \in 1 .. Len(sp)
    <3>1. sp[c].parent <= Len(sp) /\ sp[c] \in SpanRecord
      BY <2>1, SMT DEF Quiet
    <3>2. sp[c].parent <= s
      BY <3>1, <1>1, SMT DEF SpanRecord
    <3>3. QED
      BY <3>2, <2>1, <1>2, Zenon DEF Quiet
  <2>2. CASE c = s
    <3>1. new[c].state = "open" /\ new[c].parent <= Len(new)
      BY <2>2, <1>1, <1>2, Zenon
    <3>2. QED
      BY <3>1, SMT
  <2>3. QED
    BY <2>1, <2>2, <1>1, <1>2, Zenon
<1>4. e.span = s
  BY Zenon DEF Scope
<1> HIDE DEF e
<1>5. ASSUME NEW q \in 1 .. Len(x) PROVE x[q].span <= Len(new)
  <2>1. (q \in 1 .. Len(st) /\ x[q] = st[q]) \/ x[q] = e
    BY SMT
  <2>2. CASE q \in 1 .. Len(st) /\ x[q] = st[q]
    <3>1. st[q].span <= Len(sp) /\ st[q] \in ScopeRecord
      BY <2>2, SMT DEF Quiet
    <3>2. st[q].span <= s
      BY <3>1, <1>1, SMT DEF ScopeRecord
    <3>3. QED
      BY <3>2, <2>2, <1>2, Zenon
  <2>3. CASE x[q] = e
    BY <2>3, <1>1, <1>2, <1>4, Zenon
  <2>4. QED
    BY <2>1, <2>2, <2>3, Zenon
<1>7. ASSUME NEW c \in 1 .. Len(new), new[c].inferred
      PROVE  \E q \in 1 .. Len(x) : x[q] = Scope(c, TRUE)
  <2>0. e \in ScopeRecord
    BY <1>1, SMT DEF e, Scope, ScopeRecord
  <2>1. /\ \A q \in 1 .. Len(st) : q \in 1 .. Len(x) /\ x[q] = st[q]
        /\ s \in Nat /\ Len(x) \in 1 .. Len(x) /\ x[Len(x)] = e
    BY <1>1, <2>0, SMT
  <2> HIDE DEF x
  <2>2. CASE c \in 1 .. Len(sp)
    <3>1. new[c] = sp[c]
      BY <1>2, <2>2, Zenon
    <3>2. PICK q \in 1 .. Len(st) : st[q] = Scope(c, TRUE)
      BY <1>7, <2>2, <3>1, Zenon DEF Quiet, ScopesStay
    <3>3. QED
      BY <2>1, <3>2, Zenon
  <2>3. CASE c = s
    <3>1. x[Len(x)] = Scope(c, TRUE)
      BY <2>1, <2>3, Zenon DEF e
    <3>2. QED
      BY <2>1, <3>1, Zenon
  <2>4. QED
    BY <2>2, <2>3, <1>1, <1>2, Zenon
<1> HIDE DEF x
<1>6. QED
  BY <1>3, <1>5, <1>7, Zenon DEF Quiet, ScopesStay, x, e

\* The frames are the ones of new after its first g.
Carries(fr, new, g) ==
    /\ Len(fr) = Len(new) - g
    /\ \A j \in 1 .. Len(fr) : fr[j].frame = new[g + j]

\* What a turn of the second loop does whoever touched the storage.
TurnsTo(y, w, frame, internal) ==
    /\ Based(y)
    /\ internal => y.frames = w.frames
    /\ ~internal => y.frames = Cons(NewFrame(frame, Len(w.spans) + 1), w.frames)
    /\ ~opt.sampled /\ Quiet(w.spans, w.storage) => Quiet(y.spans, y.storage)

\* It does that.
LEMMA StartTurnType ==
  ASSUME NEW w, Based(w), NEW frame \in AnyFrame, NEW usePrevious, NEW start \in Nat, NEW internal,
         stackTraceId \in Nat, clock \in Nat
  PROVE  TurnsTo(startNewFrame(w, frame, usePrevious, start, internal), w, frame, internal)
<1> DEFINE p   == ParentOf(w, usePrevious)
           x   == startFrameSpan(w, p, start)
           top == NewFrame(frame, Len(w.spans) + 1)
           fr  == w.frames
           z   == Cons(top, fr)
           s   == Len(w.spans) + 1
           y   == startNewFrame(w, frame, usePrevious, start, internal)
<1>1. /\ IsWork(w) /\ w.spans \in Seq(SpanRecord) /\ w.storage \in Seq(ScopeRecord) /\ fr \in Seq(FrameRecord)
      /\ \A j \in 1 .. Len(fr) : fr[j].span \in 1 .. Len(w.spans)
  BY Zenon DEF Based, IsBase
<1>2. p \in Nat
  <2>1. Current(w.storage) \in Nat
    BY <1>1, CurrentType, Zenon
  <2>2. fr # <<>> => 1 \in 1 .. Len(fr)
    BY <1>1, SMT
  <2>3. fr # <<>> => fr[1].span \in 1 .. Len(w.spans)
    BY <2>2, <1>1, Zenon
  <2>4. \A c : c \in 1 .. Len(w.spans) => c \in Nat
    BY <1>1, SMT
  <2>5. QED
    BY <2>1, <2>3, <2>4, Zenon DEF ParentOf
<1>3. /\ IsWork(x) /\ SameRest(x, w)
      /\ x.spans = Append(w.spans, NewSpan(TRUE, p, start))
      /\ x.storage = Append(w.storage, Scope(s, TRUE))
  <2> HIDE DEF p
  <2>1. QED
    BY <1>1, StartEffect, Zenon
<1>4. Grown(x.spans, w.spans, TRUE, p, start)
  <2> HIDE DEF p, x
  <2>1. Grown(Append(w.spans, NewSpan(TRUE, p, start)), w.spans, TRUE, p, start)
    BY <1>1, <1>2, GrownOf, Zenon
  <2>2. QED
    BY <2>1, <1>3, Zenon
<1>5. x.spans \in Seq(SpanRecord) /\ Len(x.spans) = s /\ s \in 1 .. s /\ s \in Nat
      /\ \A c : c \in 1 .. Len(w.spans) => c \in 1 .. s
  <2>1. x.spans \in Seq(SpanRecord) /\ Len(x.spans) = s
    BY <1>4, Zenon DEF Grown
  <2>2. s \in 1 .. s /\ s \in Nat /\ \A c : c \in 1 .. Len(w.spans) => c \in 1 .. s
    BY <1>1, SMT
  <2>3. QED
    BY <2>1, <2>2
<1>6. x.storage \in Seq(ScopeRecord)
  <2>1. Scope(s, TRUE) \in ScopeRecord
    BY <1>5, SMT DEF Scope, ScopeRecord
  <2> DEFINE e == Scope(s, TRUE)
             st == w.storage
  <2>2. st \in Seq(ScopeRecord) /\ e \in ScopeRecord /\ x.storage = Append(st, e)
    BY <2>1, <1>1, <1>3, Zenon
  <2> HIDE DEF x, e, st
  <2>3. Append(st, e) \in Seq(ScopeRecord)
    BY <2>2, SMT
  <2>4. QED
    BY <2>2, <2>3, Zenon
<1>7. Based(x) /\ x.frames = fr
  <2> HIDE DEF x
  <2>1. x.frames = fr
    BY <1>3, Zenon DEF SameRest
  <2>2. QED
    BY <2>1, <1>1, <1>3, <1>5, <1>6, Zenon DEF Based, IsBase
<1>q. ASSUME Quiet(w.spans, w.storage) PROVE p <= Len(w.spans)
  <2>1. fr # <<>> => 1 \in 1 .. Len(fr)
    BY <1>1, SMT
  <2>2. fr # <<>> => fr[1].span <= Len(w.spans)
    <3>1. \A c : c \in 1 .. Len(w.spans) => c <= Len(w.spans)
      BY <1>1, SMT
    <3>2. QED
      BY <2>1, <3>1, <1>1, Zenon
  <2>3. Current(w.storage) <= Len(w.spans)
    BY <1>1, <1>q, CurrentQuiet, Zenon
  <2>4. QED
    BY <2>2, <2>3, Zenon DEF ParentOf
<1>8. Quiet(w.spans, w.storage) => Quiet(x.spans, x.storage)
  <2>1. SUFFICES ASSUME Quiet(w.spans, w.storage) PROVE Quiet(x.spans, x.storage)
    BY Zenon
  <2> DEFINE sp == w.spans
             st == w.storage
             e == Scope(s, TRUE)
             new == x.spans
  <2>2. sp \in Seq(SpanRecord) /\ st \in Seq(ScopeRecord) /\ p \in Nat /\ p <= Len(sp) /\ Quiet(sp, st) /\ Grown(new, sp, TRUE, p, start)
    BY <2>1, <1>1, <1>2, <1>4, <1>q, Zenon
  <2> HIDE DEF sp, st, new, x, p
  <2>3. Quiet(new, Append(st, Scope(Len(sp) + 1, TRUE)))
    BY <2>2, QuietGrows, Zenon
  <2>4. QED
    BY <2>3, <1>3, Zenon DEF sp, st, new
<1>9. CASE internal
  <2> DEFINE e == endFrameSpan(x, s, FALSE, clock)
  <2>1. y = endFrameSpan(x, Len(x.spans), FALSE, clock)
    BY <1>9, Zenon DEF startNewFrame, ParentOf
  <2>2. y = e
    BY <2>1, <1>5, Zenon
  <2> HIDE DEF x, y
  <2>3. s \in 1 .. Len(x.spans)
    BY <1>5, Zenon
  <2>4. KeepsType(e, x)
    BY <2>3, <1>7, EndFrameType, Zenon
  <2> HIDE DEF e
  <2>5. Based(y) /\ y.frames = fr /\ (~opt.sampled /\ Quiet(w.spans, w.storage) => Quiet(y.spans, y.storage))
    BY <2>2, <2>4, <1>7, <1>8, Zenon DEF KeepsType
  <2>6. QED
    BY <2>5, <1>9, Zenon DEF y, TurnsTo
<1>10. CASE ~internal
  <2>1. y = [x EXCEPT !.frames = Cons([frame |-> frame, span |-> Len(x.spans), id |-> stackTraceId + 1], @)]
    BY <1>10, Zenon DEF startNewFrame, ParentOf
  <2> HIDE DEF x
  <2>2. y = [x EXCEPT !.frames = Cons([frame |-> frame, span |-> Len(x.spans), id |-> stackTraceId + 1], x.frames)]
    BY <2>1, Zenon
  <2>3. [frame |-> frame, span |-> Len(x.spans), id |-> stackTraceId + 1] = top
    BY <1>5, Zenon DEF NewFrame
  <2>4. top \in FrameRecord /\ top.span = s
    BY <1>5, SMT DEF NewFrame, FrameRecord
  <2> HIDE DEF top, y
  <2>5. y = [x EXCEPT !.frames = z]
    BY <2>2, <2>3, <1>7, Zenon
  <2>6. IsWork(y) /\ y.spans = x.spans /\ y.storage = x.storage /\ y.frames = z
    BY <2>5, <1>3, PushEffect, Zenon
  <2>7. OnTop(FrameRecord, z, top, fr)
    BY <2>4, <1>1, ConsOf, Zenon
  <2> HIDE DEF z
  <2>8. /\ z \in Seq(FrameRecord) /\ Len(z) = Len(fr) + 1 /\ z[1] = top
        /\ \A j \in 1 .. Len(fr) : z[j + 1] = fr[j]
    BY <2>7, Zenon DEF OnTop
  <2>9. ASSUME NEW j \in 1 .. Len(z) PROVE z[j].span \in 1 .. s
    <3>1. CASE j = 1
      BY <3>1, <2>4, <2>8, <1>5, Zenon
    <3>2. CASE j # 1
      <4>1. j - 1 \in 1 .. Len(fr) /\ (j - 1) + 1 = j
        BY <3>2, <2>8, <1>1, SMT
      <4>2. z[j] = fr[j - 1]
        BY <4>1, <2>8, Zenon
      <4>3. QED
        BY <4>1, <4>2, <1>1, <1>5, Zenon
    <3>3. QED
      BY <3>1, <3>2, Zenon
  <2>10. Based(y)
    BY <2>6, <2>8, <2>9, <1>5, <1>6, Zenon DEF Based, IsBase
  <2>11. QED
    BY <2>6, <2>10, <1>8, <1>10, Zenon DEF y, z, top, TurnsTo
<1>11. QED
  BY <1>9, <1>10, Zenon

\* The next frame of the new stack trace.
LEMMA CarriesOn ==
  ASSUME NEW fr \in Seq(FrameRecord), NEW new \in Seq(AnyFrame), NEW g \in 1 .. Len(new), Carries(fr, new, g),
         NEW s \in Nat, stackTraceId \in Nat
  PROVE  Carries(Cons(NewFrame(new[g], s), fr), new, g - 1)
<1> DEFINE top == NewFrame(new[g], s)
           z == Cons(top, fr)
<1>1. new[g] \in AnyFrame
  BY SMT
<1>2. top \in FrameRecord /\ top.frame = new[g]
  BY <1>1, SMT DEF NewFrame, FrameRecord
<1> HIDE DEF top
<1>3. OnTop(FrameRecord, z, top, fr)
  BY <1>2, ConsOf, Zenon
<1> HIDE DEF z
<1>4. /\ z \in Seq(FrameRecord) /\ Len(z) = Len(fr) + 1 /\ z[1] = top
      /\ \A j \in 1 .. Len(fr) : z[j + 1] = fr[j]
  BY <1>3, Zenon DEF OnTop
<1>5. Len(fr) = Len(new) - g /\ \A j \in 1 .. Len(fr) : fr[j].frame = new[g + j]
  BY Zenon DEF Carries
<1>6. Len(z) = Len(new) - (g - 1) /\ Len(fr) \in Nat
  BY <1>4, <1>5, SMT
<1>7. ASSUME NEW j \in 1 .. Len(z) PROVE z[j].frame = new[(g - 1) + j]
  <2>1. CASE j = 1
    <3>1. (g - 1) + 1 = g
      BY SMT
    <3>2. QED
      BY <2>1, <3>1, <1>2, <1>4, Zenon
  <2>2. CASE j # 1
    <3>1. j - 1 \in 1 .. Len(fr) /\ (j - 1) + 1 = j /\ g + (j - 1) = (g - 1) + j
      BY <2>2, <1>4, <1>6, SMT
    <3>2. z[j] = fr[j - 1] /\ fr[j - 1].frame = new[g + (j - 1)]
      BY <3>1, <1>4, <1>5, Zenon
    <3>3. QED
      BY <3>1, <3>2, Zenon
  <2>3. QED
    BY <2>1, <2>2, Zenon
<1>8. QED
  BY <1>6, <1>7, Zenon DEF Carries, z, top

\* What the loop over the new frames leaves.
StartsTo(y, w, new, n, start, internal) ==
    /\ Based(y)
    /\ Carries(y.frames, new, IF internal /\ n > 0 THEN 1 ELSE 0)
    /\ ~opt.sampled /\ Quiet(w.spans, w.storage) => Quiet(y.spans, y.storage)
    /\ opt.sampled /\ Starting(w, start) =>
          /\ IsTree(y.spans, y.storage, y.frames, 0, 0, start, clock)
          /\ \A j \in 1 .. Len(y.frames) : y.frames[j].id <= stackTraceId + 1

\* The second loop brings the rest of the new stack trace, and keeps the tree.
LEMMA StartLoopType ==
  ASSUME NEW w, Based(w), NEW new \in Seq(AnyFrame), NEW n \in 0 .. Len(new), Carries(w.frames, new, n),
         NEW usePrevious, NEW start \in Nat, NEW internal \in BOOLEAN, stackTraceId \in Nat, clock \in Nat,
         opt.minDuration \in Nat, start <= clock
  PROVE  StartsTo(startNewFrames(w, new, n, usePrevious, start, internal), w, new, n, start, internal)
<1>0. n \in Nat /\ n <= Len(new) /\ Len(new) \in Nat
  BY SMT
<1>1. PICK f : /\ StartTurns(f, w, new, n, n, usePrevious, start, internal)
               /\ startNewFrames(w, new, n, usePrevious, start, internal) = f[n]
  BY <1>0, StartLoop, SMT
<1> DEFINE P(y, k) == /\ Based(y) /\ Carries(y.frames, new, n - k)
                      /\ ~opt.sampled /\ Quiet(w.spans, w.storage) => Quiet(y.spans, y.storage)
                      /\ Starting(w, start) => Starting(y, start)
           \* The turns that are not for an internal function.
           S == {k \in Nat : k < n \/ (k = n /\ ~internal) => P(f[k], k)}
\* What a turn does to new[n - k].
<1>t. ASSUME NEW k \in Nat, k + 1 <= n
      PROVE  /\ f[k + 1] = startNewFrame(f[k], new[n - k], k + 1 = 1 /\ usePrevious, start, k + 1 = n /\ internal)
             /\ new[n - k] \in AnyFrame /\ n - k \in 1 .. Len(new) /\ (n - k) - 1 = n - (k + 1)
  <2>1. k + 1 \in 1 .. n /\ (k + 1) - 1 = k /\ n + 1 - (k + 1) = n - k /\ n - k \in 1 .. Len(new) /\ (n - k) - 1 = n - (k + 1)
    BY <1>t, <1>0, SMT
  <2>2. f[k + 1] = StartTurn(f[(k + 1) - 1], new, k + 1, n, usePrevious, start, internal)
    BY <2>1, <1>1, Zenon DEF StartTurns
  <2>3. f[k + 1] = startNewFrame(f[k], new[n - k], k + 1 = 1 /\ usePrevious, start, k + 1 = n /\ internal)
    BY <2>1, <2>2, Zenon DEF StartTurn
  <2>4. new[n - k] \in AnyFrame
    BY <2>1, SMT
  <2>5. QED
    BY <2>1, <2>3, <2>4, Zenon
<1>2. 0 \in S
  <2>1. f[0] = w /\ n - 0 = n
    BY <1>1, <1>0, SMT DEF StartTurns
  <2>2. P(f[0], 0)
    BY <2>1, Zenon
  <2>3. QED
    BY <2>2, SMT
<1>3. ASSUME NEW k \in Nat, k \in S PROVE k + 1 \in S
  <2>1. SUFFICES ASSUME k + 1 < n \/ (k + 1 = n /\ ~internal) PROVE P(f[k + 1], k + 1)
    BY SMT
  <2>2. k + 1 <= n /\ k < n
    BY <2>1, <1>0, SMT
  <2>3. P(f[k], k)
    BY <2>2, <1>3, Zenon
  <2> DEFINE int == k + 1 = n /\ internal
             up == k + 1 = 1 /\ usePrevious
             fm == new[n - k]
             v == f[k]
             y == startNewFrame(v, fm, up, start, int)
  <2>4. ~int
    BY <2>1, <1>0, SMT
  <2>5. f[k + 1] = y /\ fm \in AnyFrame /\ n - k \in 1 .. Len(new) /\ (n - k) - 1 = n - (k + 1)
    BY <2>2, <1>t, Zenon
  <2> HIDE DEF int, up, fm
  <2>6. Based(v) /\ Carries(v.frames, new, n - k)
    BY <2>3, Zenon
  <2>7. /\ Based(y) /\ y.frames = Cons(NewFrame(fm, Len(v.spans) + 1), v.frames)
        /\ ~opt.sampled /\ Quiet(v.spans, v.storage) => Quiet(y.spans, y.storage)
    <3> HIDE DEF v
    <3>1. TurnsTo(y, v, fm, int)
      BY <2>5, <2>6, StartTurnType, Zenon
    <3> HIDE DEF y
    <3>2. QED
      BY <3>1, <2>4, Zenon DEF TurnsTo
  <2>8. Starting(v, start) => Starting(y, start)
    <3> HIDE DEF v
    <3>1. QED
      BY <2>4, <2>5, StartsFrame, Zenon
  <2>9. Carries(y.frames, new, n - (k + 1))
    <3>1. v.frames \in Seq(FrameRecord) /\ Len(v.spans) + 1 \in Nat
      BY <2>6, SMT DEF Based, IsBase
    <3> HIDE DEF v, y
    <3>2. Carries(Cons(NewFrame(new[n - k], Len(v.spans) + 1), v.frames), new, (n - k) - 1)
      BY <3>1, <2>5, <2>6, CarriesOn, Zenon
    <3>3. QED
      BY <3>2, <2>5, <2>7, Zenon DEF fm
  <2>10. QED
    BY <2>3, <2>5, <2>7, <2>8, <2>9, Zenon
<1> HIDE DEF S
<1>4. Nat \subseteq S
  BY <1>2, <1>3, Induct, Zenon
\* A tree, seen from its end.
<1>s. ASSUME NEW y, Starting(y, start)
      PROVE  /\ IsTree(y.spans, y.storage, y.frames, 0, 0, start, clock)
             /\ \A j \in 1 .. Len(y.frames) : y.frames[j].id <= stackTraceId + 1
  BY <1>s, Zenon DEF Starting
<1>5. CASE ~(internal /\ n > 0)
  <2>0. n = 0 \/ ~internal
    BY <1>5, <1>0, SMT
  <2>1. P(f[n], n)
    <3>1. CASE ~internal
      <4>1. n \in S
        BY <1>0, <1>4, Zenon
      <4>2. QED
        BY <4>1, <3>1, Zenon DEF S
    <3>2. CASE n = 0
      <4>1. f[0] = w /\ n - 0 = n
        BY <1>1, <1>0, SMT DEF StartTurns
      <4>2. QED
        BY <4>1, <3>2, Zenon
    <3>3. QED
      BY <3>1, <3>2, <2>0, Zenon
  <2>2. n - n = 0
    BY <1>0, SMT
  <2>3. Carries(f[n].frames, new, IF internal /\ n > 0 THEN 1 ELSE 0)
    BY <2>1, <2>2, <1>5, Zenon
  <2>4. QED
    BY <2>1, <2>3, <1>1, <1>s, Zenon DEF StartsTo
<1>6. CASE internal /\ n > 0
  <2> DEFINE k == n - 1
             v == f[k]
             fm == new[n - k]
             up == k + 1 = 1 /\ usePrevious
             int == k + 1 = n /\ internal
             y == startNewFrame(v, fm, up, start, int)
  <2>1. k \in Nat /\ k + 1 <= n /\ k < n /\ k + 1 = n /\ n - k = 1 /\ (n - k) - 1 = 0
    BY <1>6, <1>0, SMT
  <2>2. k \in S
    BY <2>1, <1>4, Zenon
  <2>3. P(v, k)
    <3> HIDE DEF k
    <3>1. QED
      BY <2>1, <2>2, Zenon DEF S
  <2>4. f[k + 1] = y /\ fm \in AnyFrame
    <3> HIDE DEF k
    <3>1. QED
      BY <2>1, <1>t, Zenon
  <2>5. f[n] = y /\ int
    BY <2>1, <2>4, <1>6, Zenon
  <2> HIDE DEF v, fm, up, int
  <2>6. Based(v) /\ Carries(v.frames, new, 1) /\ (~opt.sampled /\ Quiet(w.spans, w.storage) => Quiet(v.spans, v.storage))
        /\ (Starting(w, start) => Starting(v, start))
    BY <2>1, <2>3, Zenon
  <2>j. y = startNewFrame(v, fm, up, start, TRUE)
    <3>1. int = TRUE
      BY <2>1, <1>6, Zenon DEF int
    <3>2. QED
      BY <3>1, Zenon
  <2>i. int /\ fm \in AnyFrame /\ Based(v)
    BY <2>4, <2>5, <2>6, Zenon
  <2>7. Based(y) /\ y.frames = v.frames /\ (~opt.sampled /\ Quiet(v.spans, v.storage) => Quiet(y.spans, y.storage))
    <3>1. TurnsTo(y, v, fm, int)
      BY <2>i, StartTurnType, Zenon
    <3> HIDE DEF y
    <3>2. QED
      BY <3>1, <2>i, Zenon DEF TurnsTo
  <2>8. ASSUME opt.sampled, Starting(w, start)
        PROVE  IsTree(y.spans, y.storage, y.frames, 0, 0, start, clock)
    <3>1. Starting(v, start)
      BY <2>6, <2>8, Zenon
    <3>2. Passes(y, v, start)
      BY <3>1, <2>i, <2>8, <2>j, StartsInternal, Zenon
    <3> HIDE DEF y
    <3>3. QED
      BY <3>2, Zenon DEF Passes
  <2>9. ASSUME Starting(w, start) PROVE \A j \in 1 .. Len(v.frames) : v.frames[j].id <= stackTraceId + 1
    BY <2>6, <2>9, <1>s, Zenon
  <2> HIDE DEF y
  <2>10. Carries(f[n].frames, new, IF internal /\ n > 0 THEN 1 ELSE 0)
    BY <2>5, <2>6, <2>7, <1>6, Zenon
  <2>11. QED
    BY <2>5, <2>6, <2>7, <2>8, <2>9, <2>10, <1>1, Zenon DEF StartsTo
<1>7. QED
  BY <1>5, <1>6, Zenon

-----------------------------------------------------------------------------
(* Comparing two stack traces *)

\* The two have their last n frames in common.
SameBelow(n, new, old) ==
    /\ n \in Nat /\ n <= Len(new) /\ n <= Len(old)
    /\ \A k \in 1 .. n : new[Len(new) + 1 - k] = old[Len(old) + 1 - k].frame

\* FramesOf takes the frames out one by one.
LEMMA FramesType ==
  ASSUME NEW old \in Seq(FrameRecord)
  PROVE  /\ FramesOf(old) \in Seq(AnyFrame) /\ Len(FramesOf(old)) = Len(old)
         /\ \A i \in 1 .. Len(old) : FramesOf(old)[i] = old[i].frame
<1>1. DOMAIN old = 1 .. Len(old) /\ Len(old) \in Nat /\ \A i \in 1 .. Len(old) : old[i] \in FrameRecord
  BY SMT
<1>2. FramesOf(old) = [i \in 1 .. Len(old) |-> old[i].frame]
  BY <1>1, Zenon DEF FramesOf
<1>3. \A i \in 1 .. Len(old) : old[i].frame \in AnyFrame
  BY <1>1, SMT DEF FrameRecord
<1>4. QED
  BY <1>1, <1>2, <1>3, SMT

\* The lesser of two naturals.
LEMMA MinOf ==
  ASSUME NEW a \in Nat, NEW b \in Nat
  PROVE  Min({a, b}) \in Nat /\ Min({a, b}) <= a /\ Min({a, b}) <= b
<1> DEFINE m == Min({a, b})
           G(x) == x \in {a, b} /\ \A y \in {a, b} : x <= y
<1>1. \E x \in {a, b} : \A y \in {a, b} : x <= y
  BY SMT
<1>2. m = CHOOSE x \in {a, b} : \A y \in {a, b} : x <= y
  BY Zenon DEF Min
<1>3. G(m)
  BY <1>1, <1>2, Zenon
<1> HIDE DEF m
<1>4. m \in Nat /\ m <= a /\ m <= b
  BY <1>3, SMT
<1>5. QED
  BY <1>4, Zenon DEF m

\* getHowManyStackFramesAreIdenticalFromStackBottom counts frames in common.
LEMMA Identical ==
  ASSUME NEW new \in Seq(AnyFrame), NEW old \in Seq(FrameRecord)
  PROVE  SameBelow(getHowManyStackFramesAreIdenticalFromStackBottom(new, FramesOf(old)), new, old)
<1> DEFINE b == FramesOf(old)
           m == Min({Len(new), Len(b)})
           T == {n \in 0 .. m : \A k \in 1 .. n : new[Len(new) + 1 - k] = b[Len(b) + 1 - k]}
           h == Max(T)
<1>1. Len(b) = Len(old) /\ \A i \in 1 .. Len(old) : b[i] = old[i].frame
  BY FramesType, Zenon
<1> HIDE DEF b
<1>2. Len(new) \in Nat /\ Len(old) \in Nat
  BY SMT
<1>3. m \in Nat /\ m <= Len(new) /\ m <= Len(old)
  BY <1>1, <1>2, MinOf, Zenon
<1> HIDE DEF m
<1>4. T \subseteq 0 .. m /\ 0 \in T /\ 0 \in Nat
  <2>1. 1 .. 0 = {} /\ 0 \in 0 .. m
    BY <1>3, SMT
  <2>2. QED
    BY <2>1, SMT
<1>5. h \in T
  <2> HIDE DEF T
  <2>1. QED
    BY <1>3, <1>4, MaxOf, Zenon
<1> HIDE DEF h
<1>6. h \in 0 .. m /\ \A k \in 1 .. h : new[Len(new) + 1 - k] = b[Len(b) + 1 - k]
  BY <1>5, Zenon
<1>7. h \in Nat /\ h <= Len(new) /\ h <= Len(old)
  BY <1>2, <1>3, <1>6, SMT
<1>8. ASSUME NEW k \in 1 .. h PROVE new[Len(new) + 1 - k] = old[Len(old) + 1 - k].frame
  <2>1. Len(old) + 1 - k \in 1 .. Len(old)
    BY <1>2, <1>7, SMT
  <2>2. QED
    BY <2>1, <1>1, <1>6, Zenon
<1>9. getHowManyStackFramesAreIdenticalFromStackBottom(new, FramesOf(old)) = h
  BY Zenon DEF getHowManyStackFramesAreIdenticalFromStackBottom, h, T, m, b
<1>10. QED
  BY <1>7, <1>8, <1>9, Zenon DEF SameBelow

\* What is kept of the old stack trace.
LEMMA KeptFrames ==
  ASSUME NEW new \in Seq(AnyFrame), NEW old \in Seq(FrameRecord), NEW n, SameBelow(n, new, old), NEW g, g = Len(old) - n
  PROVE  /\ Rest(SubSeq(old, g + 1, Len(old)), old, g) /\ Carries(SubSeq(old, g + 1, Len(old)), new, Len(new) - n)
         /\ g \in 0 .. Len(old) /\ Len(new) - n \in 0 .. Len(new)
<1> DEFINE x == SubSeq(old, g + 1, Len(old))
<1>1. /\ n \in Nat /\ n <= Len(new) /\ n <= Len(old)
      /\ \A k \in 1 .. n : new[Len(new) + 1 - k] = old[Len(old) + 1 - k].frame
  BY Zenon DEF SameBelow
<1>2. Len(new) \in Nat /\ Len(old) \in Nat /\ g \in 0 .. Len(old) /\ Len(new) - n \in 0 .. Len(new) /\ n = Len(old) - g
  BY <1>1, SMT
<1>3. x \in Seq(FrameRecord) /\ Len(x) = n /\ \A j \in 1 .. n : x[j] = old[g + j]
  <2>1. Len(x) = Len(old) - g /\ x \in Seq(FrameRecord)
    BY <1>2, SMT
  <2>2. \A j \in 1 .. n : x[j] = old[g + j]
    BY <1>2, SMT
  <2>3. QED
    BY <2>1, <2>2, <1>2, Zenon
<1> HIDE DEF x
<1>4. Rest(x, old, g)
  BY <1>2, <1>3, Zenon DEF Rest
<1>5. Carries(x, new, Len(new) - n)
  <2>1. n = Len(new) - (Len(new) - n)
    BY <1>1, <1>2, SMT
  <2>2. ASSUME NEW j \in 1 .. n PROVE x[j].frame = new[(Len(new) - n) + j]
    <3>1. /\ n + 1 - j \in 1 .. n /\ Len(new) + 1 - (n + 1 - j) = (Len(new) - n) + j
          /\ Len(old) + 1 - (n + 1 - j) = g + j
      BY <1>1, <1>2, SMT
    <3>2. new[Len(new) + 1 - (n + 1 - j)] = old[Len(old) + 1 - (n + 1 - j)].frame
      BY <3>1, <1>1, Zenon
    <3>3. QED
      BY <3>1, <3>2, <1>3, Zenon
  <2>3. QED
    BY <1>3, <2>1, <2>2, Zenon DEF Carries
<1>6. QED
  BY <1>2, <1>4, <1>5, Zenon DEF x

\* Where compareStackTraces starts.
Work(sp, st, old, g) ==
    [spans |-> sp, storage |-> st, frames |-> SubSeq(old, g + 1, Len(old)),
     previousId |-> 0, failed |-> FALSE, drop |-> FALSE]

\* The two loops.
Compare(sp, st, old, new, n, usePrevious, start, internal) ==
    startNewFrames(endOldFrames(Work(sp, st, old, Len(old) - n), old, Len(old) - n, IF internal THEN start ELSE clock),
                   new, Len(new) - n, usePrevious, start, internal)

\* The options' types.
IsOptions ==
    /\ opt.minDuration \in Nat /\ opt.sampled \in BOOLEAN
    /\ opt.reduction \in BOOLEAN /\ opt.canSetParent \in BOOLEAN

\* A tree since time t, with captures up to id.
Stands(sp, st, fr, t, id) ==
    /\ IsTree(sp, st, fr, 0, 0, t, t)
    /\ \A j \in 1 .. Len(fr) : fr[j].id <= id

\* What a comparison leaves.
ComparesTo(y, sp, st, old, new, n, internal) ==
    /\ IsBase(y.spans, y.storage, y.frames)
    /\ Carries(y.frames, new, IF internal /\ Len(new) - n > 0 THEN 1 ELSE 0)
    /\ ~opt.sampled /\ Quiet(sp, st) => Quiet(y.spans, y.storage)
    /\ opt.sampled /\ Stands(sp, st, old, captured, stackTraceId) => Stands(y.spans, y.storage, y.frames, clock, stackTraceId + 1)

\* The start of the first loop.
LEMMA EndingStarts ==
  ASSUME IsOptions, captured \in Nat, NEW sp, NEW st, NEW old, NEW g \in 0 .. Len(old), NEW b \in Nat, captured <= b,
         IsTree(sp, st, old, 0, 0, captured, captured)
  PROVE  Ending(Work(sp, st, old, g), old, 0, g, b)
<1> DEFINE w == Work(sp, st, old, g)
<1>1. /\ w.spans = sp /\ w.storage = st /\ w.previousId = 0 /\ w.failed = FALSE /\ w.drop = FALSE /\ IsWork(w)
  BY SMT DEF Work, IsWork
<1>2. /\ WellFormed(sp, st) /\ OnStack(sp, old, 0) /\ Hanging(sp, old, 0, 0) /\ Timed(sp, captured, captured) /\ Nested(sp)
  BY Zenon DEF IsTree
<1>3. sp \in Seq(SpanRecord) /\ old \in Seq(FrameRecord)
  BY <1>2, Zenon DEF WellFormed, OnStack
<1>4. Timed(sp, captured, b)
  <2>1. opt.minDuration \in Nat /\ captured <= captured
    BY SMT DEF IsOptions
  <2>2. QED
    BY <2>1, <1>2, <1>3, TimedLater, Zenon
<1>5. Hanging(sp, old, 0, g)
  <2>1. \A i \in 0 + 1 .. Len(old) - 1 : i # 0
    BY <1>3, SMT
  <2>2. QED
    BY <2>1, <1>2, Zenon DEF Hanging
<1> HIDE DEF w
<1>6. IsTree(w.spans, w.storage, old, 0, g, captured, b)
  BY <1>1, <1>2, <1>4, <1>5, Zenon DEF IsTree
<1>7. Ending(w, old, 0, g, b)
  BY <1>1, <1>6, Zenon DEF Ending
<1>8. QED
  BY <1>7, Zenon DEF w

\* The two loops together.
LEMMA CompareResult ==
  ASSUME IsOptions, stackTraceId \in Nat, clock \in Nat, captured \in Nat, NEW sp, NEW st, NEW old, IsBase(sp, st, old),
         NEW new \in Seq(AnyFrame), NEW n, SameBelow(n, new, old), NEW usePrevious, NEW start \in Nat,
         captured <= start, start <= clock, NEW internal \in BOOLEAN
  PROVE  ComparesTo(Compare(sp, st, old, new, n, usePrevious, start, internal), sp, st, old, new, n, internal)
<1> DEFINE g == Len(old) - n
           f == Len(new) - n
           b == IF internal THEN start ELSE clock
           w == Work(sp, st, old, g)
           x == SubSeq(old, g + 1, Len(old))
           e == endOldFrames(w, old, g, b)
           y == startNewFrames(e, new, f, usePrevious, start, internal)
<1>0. /\ sp \in Seq(SpanRecord) /\ st \in Seq(ScopeRecord) /\ old \in Seq(FrameRecord)
      /\ \A i \in 1 .. Len(old) : old[i].span \in 1 .. Len(sp)
  BY Zenon DEF IsBase
<1>1. Rest(x, old, g) /\ Carries(x, new, f) /\ g \in 0 .. Len(old) /\ f \in 0 .. Len(new)
  BY <1>0, KeptFrames, Zenon
<1>2. b \in Nat /\ captured <= b /\ b <= clock /\ clock <= clock /\ captured <= clock
  BY SMT
<1>3. w.spans = sp /\ w.storage = st /\ w.frames = x /\ IsWork(w)
  <2>1. w = [spans |-> sp, storage |-> st, frames |-> x, previousId |-> 0, failed |-> FALSE, drop |-> FALSE]
    BY Zenon DEF Work
  <2> HIDE DEF w, x, g
  <2>2. QED
    BY <2>1, SMT DEF IsWork
<1>y. Compare(sp, st, old, new, n, usePrevious, start, internal) = y
  BY Zenon DEF Compare
<1> HIDE DEF g, f, b, w, x
<1>4. Based(w)
  <2>1. x \in Seq(FrameRecord) /\ Len(x) = Len(old) - g /\ \A j \in 1 .. Len(old) - g : x[j] = old[g + j]
    BY <1>1, Zenon DEF Rest
  <2>2. \A j \in 1 .. Len(old) - g : g + j \in 1 .. Len(old)
    BY <1>0, <1>1, SMT
  <2>3. \A j \in 1 .. Len(x) : x[j].span \in 1 .. Len(sp)
    BY <2>1, <2>2, <1>0, Zenon
  <2>4. QED
    BY <2>1, <2>3, <1>0, <1>3, Zenon DEF Based, IsBase
<1>5. KeepsType(e, w)
  <2>1. opt.canSetParent \in BOOLEAN /\ opt.sampled \in BOOLEAN /\ opt.reduction \in BOOLEAN
    BY Zenon DEF IsOptions
  <2>2. \A j \in 1 .. Len(old) : old[j].span \in 1 .. Len(w.spans)
    BY <1>0, <1>3, Zenon
  <2>3. QED
    BY <2>1, <2>2, <1>0, <1>1, <1>2, <1>4, EndLoopType, Zenon
<1> HIDE DEF e
<1>6. Based(e) /\ e.frames = x /\ (~opt.sampled => e.spans = sp /\ e.storage = st)
  BY <1>3, <1>5, Zenon DEF KeepsType
<1>7. StartsTo(y, e, new, f, start, internal)
  <2>1. opt.minDuration \in Nat
    BY Zenon DEF IsOptions
  <2>2. Carries(e.frames, new, f)
    BY <1>1, <1>6, Zenon
  <2>3. QED
    BY <2>1, <2>2, <1>1, <1>6, StartLoopType, Zenon
<1> HIDE DEF y
<1>8. IsBase(y.spans, y.storage, y.frames) /\ Carries(y.frames, new, IF internal /\ f > 0 THEN 1 ELSE 0)
  BY <1>7, Zenon DEF StartsTo, Based
<1>9. ~opt.sampled /\ Quiet(sp, st) => Quiet(y.spans, y.storage)
  BY <1>6, <1>7, Zenon DEF StartsTo
<1>10. ASSUME opt.sampled, Stands(sp, st, old, captured, stackTraceId)
       PROVE  Stands(y.spans, y.storage, y.frames, clock, stackTraceId + 1)
  <2>0. opt.minDuration \in Nat /\ opt.reduction \in BOOLEAN /\ opt.canSetParent \in BOOLEAN
    BY Zenon DEF IsOptions
  <2>1. Ending(w, old, 0, g, b)
    <3>1. IsTree(sp, st, old, 0, 0, captured, captured)
      BY <1>10, Zenon DEF Stands
    <3>2. QED
      BY <3>1, <1>1, <1>2, EndingStarts, Zenon DEF w
  <2>2. Ending(e, old, g, g, b)
    BY <2>0, <2>1, <1>0, <1>1, <1>2, <1>10, EndLoopTree, Zenon DEF e
  <2>3. IsWork(e) /\ IsTree(e.spans, e.storage, old, g, g, captured, b)
    BY <2>2, Zenon DEF Ending
  <2>4. IsTree(e.spans, e.storage, x, 0, 0, start, clock)
    <3>1. g \in Nat /\ g <= Len(old) /\ g <= g
      BY <1>0, <1>1, SMT
    <3>2. QED
      BY <2>0, <2>3, <3>1, <1>1, <1>2, Reindex, Zenon
  <2>5. ASSUME NEW j \in 1 .. Len(x) PROVE x[j].id <= stackTraceId + 1 /\ x[j].id # stackTraceId + 1
    <3>1. x[j] = old[g + j] /\ g + j \in 1 .. Len(old) /\ old[g + j] \in FrameRecord
      <4>1. Len(x) = Len(old) - g /\ \A k \in 1 .. Len(old) - g : x[k] = old[g + k]
        BY <1>1, Zenon DEF Rest
      <4>2. g + j \in 1 .. Len(old)
        BY <4>1, <1>0, <1>1, SMT
      <4>3. old[g + j] \in FrameRecord
        BY <4>2, <1>0, SMT
      <4>4. QED
        BY <4>1, <4>2, <4>3, Zenon
    <3>2. old[g + j].id <= stackTraceId
      BY <3>1, <1>10, Zenon DEF Stands
    <3>3. old[g + j].id \in Nat
      BY <3>1, SMT DEF FrameRecord
    <3>4. QED
      BY <3>1, <3>2, <3>3, SMT
  <2>6. x # <<>> => 1 \in 1 .. Len(x)
    <3>1. x \in Seq(FrameRecord)
      BY <1>1, Zenon DEF Rest
    <3>2. QED
      BY <3>1, SMT
  <2>7. Starting(e, start)
    BY <2>3, <2>4, <2>5, <2>6, <1>6, Zenon DEF Starting
  <2>8. IsTree(y.spans, y.storage, y.frames, 0, 0, start, clock) /\ \A j \in 1 .. Len(y.frames) : y.frames[j].id <= stackTraceId + 1
    BY <2>7, <1>7, <1>10, Zenon DEF StartsTo
  <2>9. IsTree(y.spans, y.storage, y.frames, 0, 0, clock, clock)
    <3>1. Timed(y.spans, start, clock) /\ y.spans \in Seq(SpanRecord)
      BY <2>8, <1>8, Zenon DEF IsTree, IsBase
    <3>2. Timed(y.spans, clock, clock)
      BY <3>1, <2>0, <1>2, TimedLater, Zenon
    <3>3. QED
      BY <2>8, <3>2, Zenon DEF IsTree
  <2>10. QED
    BY <2>8, <2>9, Zenon DEF Stands
<1>11. ComparesTo(y, sp, st, old, new, n, internal)
  BY <1>8, <1>9, <1>10, Zenon DEF ComparesTo, f
<1>12. QED
  BY <1>11, <1>y, Zenon

-----------------------------------------------------------------------------
(* The invariant *)

\* The inductive invariant.  For a sampled request whose scopes nobody else touched
\* the spans are a tree, as the last capture left it; without sampling no inferred
\* span ends and none is dropped; in any case the frames are those of the trace.
TreeInv ==
    /\ IsOptions
    /\ clock \in Nat /\ captured \in Nat /\ captured <= clock /\ stackTraceId \in Nat
    /\ IsBase(spans, storage, lastStackTrace)
    /\ FramesOf(lastStackTrace) = trace
    /\ ~foreign /\ ~opt.sampled => Quiet(spans, storage)
    /\ ~foreign /\ opt.sampled => Stands(spans, storage, lastStackTrace, captured, stackTraceId)

\* The options stay.
LEMMA StandsNext ==
  ASSUME opt' = opt, Stands(spans', storage', lastStackTrace', captured', stackTraceId')
  PROVE  Stands(spans, storage, lastStackTrace, captured, stackTraceId)'
<1>1. /\ IsTree(spans', storage', lastStackTrace', 0, 0, captured', captured')
      /\ \A j \in 1 .. Len(lastStackTrace') : lastStackTrace'[j].id <= stackTraceId'
  BY Zenon DEF Stands
<1>2. /\ WellFormed(spans', storage') /\ OnStack(spans', lastStackTrace', 0) /\ Hanging(spans', lastStackTrace', 0, 0)
      /\ Timed(spans', captured', captured') /\ Nested(spans')
  BY <1>1, Zenon DEF IsTree
<1>3. Timed(spans, captured, captured)'
  BY <1>2, Zenon DEF Timed
<1>4. Nested(spans)'
  BY <1>2, Zenon DEF Nested
<1>5. WellFormed(spans, storage)' /\ OnStack(spans, lastStackTrace, 0)' /\ Hanging(spans, lastStackTrace, 0, 0)'
  BY <1>2, Zenon DEF WellFormed, OnStack, Hanging
<1>6. IsTree(spans, storage, lastStackTrace, 0, 0, captured, captured)'
  BY <1>3, <1>4, <1>5, Zenon DEF IsTree
<1>7. QED
  BY <1>1, <1>6, Zenon DEF Stands

\* What a step must show for the invariant.
LEMMA TreeNext ==
  ASSUME IsOptions, opt' = opt, clock' \in Nat, captured' \in Nat, captured' <= clock', stackTraceId' \in Nat,
         IsBase(spans', storage', lastStackTrace'), FramesOf(lastStackTrace') = trace',
         ~foreign' /\ ~opt.sampled => Quiet(spans', storage'),
         ~foreign' /\ opt.sampled => Stands(spans', storage', lastStackTrace', captured', stackTraceId')
  PROVE  TreeInv'
<1>1. IsOptions'
  BY Zenon DEF IsOptions
<1>2. IsBase(spans, storage, lastStackTrace)'
  BY Zenon DEF IsBase
<1>3. (FramesOf(lastStackTrace) = trace)'
  BY Zenon DEF FramesOf
<1>4. (~foreign /\ ~opt.sampled => Quiet(spans, storage))'
  BY Zenon DEF Quiet
<1>5. (~foreign /\ opt.sampled => Stands(spans, storage, lastStackTrace, captured, stackTraceId))'
  BY StandsNext, Zenon
<1>6. QED
  BY <1>1, <1>2, <1>3, <1>4, <1>5, Zenon DEF TreeInv

\* A comparison keeps the invariant.
LEMMA CompareStep ==
  ASSUME TreeInv, NEW new \in Seq(AnyFrame), NEW d \in Nat, d <= clock - captured,
         NEW internal \in BOOLEAN, NEW usePrevious, compareStackTraces(new, d, internal, usePrevious),
         opt' = opt, clock' = clock, foreign' = foreign
  PROVE  TreeInv'
<1> DEFINE old == lastStackTrace
           n == getHowManyStackFramesAreIdenticalFromStackBottom(new, FramesOf(old))
           start == clock - d
           y == Compare(spans, storage, old, new, n, usePrevious, start, internal)
           g == IF internal /\ Len(new) - n > 0 THEN 1 ELSE 0
<1>0. /\ IsOptions /\ clock \in Nat /\ captured \in Nat /\ captured <= clock /\ stackTraceId \in Nat
      /\ IsBase(spans, storage, old)
      /\ ~foreign /\ ~opt.sampled => Quiet(spans, storage)
      /\ ~foreign /\ opt.sampled => Stands(spans, storage, old, captured, stackTraceId)
  BY Zenon DEF TreeInv
<1>1. /\ stackTraceId' = stackTraceId + 1 /\ spans' = y.spans /\ storage' = y.storage /\ lastStackTrace' = y.frames
      /\ captured' = clock /\ trace' = IF internal /\ Len(new) - n > 0 THEN Tail(new) ELSE new
  BY Zenon DEF compareStackTraces, Compare, Work
<1>2. SameBelow(n, new, old)
  BY <1>0, Identical, Zenon DEF IsBase
<1>3. start \in Nat /\ captured <= start /\ start <= clock
  BY <1>0, SMT
<1> HIDE DEF n, start, old
<1>4. ComparesTo(y, spans, storage, old, new, n, internal)
  BY <1>0, <1>2, <1>3, CompareResult, Zenon
<1> HIDE DEF y
<1>5. /\ IsBase(y.spans, y.storage, y.frames) /\ Carries(y.frames, new, g)
      /\ ~opt.sampled /\ Quiet(spans, storage) => Quiet(y.spans, y.storage)
      /\ opt.sampled /\ Stands(spans, storage, old, captured, stackTraceId) => Stands(y.spans, y.storage, y.frames, clock, stackTraceId + 1)
  BY <1>4, Zenon DEF ComparesTo
<1>6. FramesOf(y.frames) = trace'
  <2>1. y.frames \in Seq(FrameRecord)
    BY <1>5, Zenon DEF IsBase
  <2>2. /\ FramesOf(y.frames) \in Seq(AnyFrame) /\ Len(FramesOf(y.frames)) = Len(y.frames)
        /\ \A i \in 1 .. Len(y.frames) : FramesOf(y.frames)[i] = y.frames[i].frame
    BY <2>1, FramesType, Zenon
  <2>3. Len(y.frames) = Len(new) - g /\ \A i \in 1 .. Len(y.frames) : y.frames[i].frame = new[g + i]
    BY <1>5, Zenon DEF Carries
  <2> DEFINE fs == FramesOf(y.frames)
  <2>4. /\ fs \in Seq(AnyFrame) /\ Len(fs) = Len(new) - g
        /\ \A i \in 1 .. Len(new) - g : fs[i] = new[g + i]
    BY <2>2, <2>3, Zenon
  <2> HIDE DEF fs
  <2>5. n \in Nat /\ n <= Len(new)
    BY <1>2, Zenon DEF SameBelow
  <2>6. CASE internal /\ Len(new) - n > 0
    <3>1. g = 1 /\ trace' = Tail(new)
      BY <2>6, <1>1, Zenon
    <3>2. new # <<>>
      BY <2>5, <2>6, SMT
    <3>3. Tail(new) \in Seq(AnyFrame) /\ Len(Tail(new)) = Len(new) - 1 /\ \A i \in 1 .. Len(new) - 1 : Tail(new)[i] = new[1 + i]
      BY <3>2, SMT
    <3> DEFINE t == Tail(new)
    <3>4. fs \in Seq(AnyFrame) /\ t \in Seq(AnyFrame) /\ Len(fs) = Len(t) /\ \A i \in 1 .. Len(t) : fs[i] = t[i]
      BY <3>1, <3>3, <2>4, Zenon
    <3> HIDE DEF t
    <3>5. fs = t
      BY <3>4, SMT
    <3>6. QED
      BY <3>1, <3>5, Zenon DEF fs, t
  <2>7. CASE ~(internal /\ Len(new) - n > 0)
    <3>1. g = 0 /\ trace' = new
      BY <2>7, <1>1, Zenon
    <3>2. Len(new) - 0 = Len(new) /\ \A i \in 1 .. Len(new) : 0 + i = i
      BY SMT
    <3>3. /\ fs \in Seq(AnyFrame) /\ new \in Seq(AnyFrame) /\ Len(fs) = Len(new)
          /\ \A i \in 1 .. Len(new) : fs[i] = new[i]
      BY <3>1, <3>2, <2>4, Zenon
    <3>4. fs = new
      BY <3>3, SMT
    <3>5. QED
      BY <3>1, <3>4, Zenon DEF fs
  <2>8. QED
    BY <2>6, <2>7, Zenon
<1>7. stackTraceId + 1 \in Nat /\ clock <= clock
  BY <1>0, SMT
<1>8. /\ clock' \in Nat /\ captured' \in Nat /\ captured' <= clock' /\ stackTraceId' \in Nat
      /\ IsBase(spans', storage', lastStackTrace') /\ FramesOf(lastStackTrace') = trace'
      /\ ~foreign' /\ ~opt.sampled => Quiet(spans', storage')
      /\ ~foreign' /\ opt.sampled => Stands(spans', storage', lastStackTrace', captured', stackTraceId')
  BY <1>0, <1>1, <1>5, <1>6, <1>7, Zenon
<1>9. QED
  BY <1>0, <1>8, TreeNext, Zenon

\* What captureStackTrace is given.
LEMMA Filtered ==
  ASSUME NEW raw \in Seq(AnyFrame)
  PROVE  filterOutAPMFrames(raw).frames \in Seq(AnyFrame)
<1> DEFINE apm == {i \in DOMAIN raw : raw[i] = ApmFrame}
           m == Max(apm)
<1>1. CASE apm = {}
  <2>1. filterOutAPMFrames(raw) = [cutIndex |-> 0, frames |-> raw]
    BY <1>1, Zenon DEF filterOutAPMFrames
  <2>2. filterOutAPMFrames(raw).frames = raw
    BY <2>1, SMT
  <2>3. QED
    BY <2>2, Zenon
<1>2. CASE apm # {}
  <2>1. filterOutAPMFrames(raw) = [cutIndex |-> m - 1, frames |-> SubSeq(raw, m + 1, Len(raw))]
    BY <1>2, Zenon DEF filterOutAPMFrames
  <2>2. apm \subseteq 1 .. Len(raw) /\ 1 \in Nat /\ Len(raw) \in Nat
    BY SMT
  <2>3. m \in apm
    <3> HIDE DEF apm
    <3>1. QED
      BY <2>2, <1>2, MaxOf, Zenon
  <2>4. m \in 1 .. Len(raw)
    BY <2>2, <2>3, Zenon
  <2> HIDE DEF m
  <2>5. SubSeq(raw, m + 1, Len(raw)) \in Seq(AnyFrame)
    BY <2>4, SMT
  <2> DEFINE x == SubSeq(raw, m + 1, Len(raw))
             c == m - 1
  <2>6. filterOutAPMFrames(raw) = [cutIndex |-> c, frames |-> x]
    BY <2>1, Zenon
  <2> HIDE DEF x, c
  <2>7. filterOutAPMFrames(raw).frames = x
    BY <2>6, SMT
  <2>8. QED
    BY <2>5, <2>7, Zenon DEF x
<1>3. QED
  BY <1>1, <1>2, Zenon

\* A stack of the application below the frames of a hook.
LEMMA TraceType ==
  ASSUME NEW top \in HookFrames, NEW stack \in Traces
  PROVE  top \o stack \in Seq(AnyFrame)
<1>1. top \in Seq(AnyFrame)
  BY HookAssumption, Zenon DEF AnyFrame
<1>2. PICK n \in 0 .. MaxDepth : stack \in [1 .. n -> Frames]
  BY Zenon DEF Traces
<1>3. n \in Nat
  BY DepthAssumption, SMT
<1>4. stack \in Seq(AnyFrame)
  BY <1>2, <1>3, SMT DEF AnyFrame
<1>5. QED
  BY <1>1, <1>4, SMT

\* captureStackTrace and shutdown.
LEMMA CaptureSteps ==
  ASSUME TreeInv,
         \/ \E top \in HookFrames, stack \in Traces, d \in 0 .. MaxClock, internal \in BOOLEAN :
               captureStackTrace(top \o stack, d, internal)
         \/ Shutdown
  PROVE  TreeInv'
<1>1. ASSUME NEW top \in HookFrames, NEW stack \in Traces, NEW d \in 0 .. MaxClock, NEW internal \in BOOLEAN,
             captureStackTrace(top \o stack, d, internal)
      PROVE  TreeInv'
  <2> DEFINE x == filterOutAPMFrames(top \o stack).frames
             c == filterOutAPMFrames(top \o stack).cutIndex > 0
  <2>1. x \in Seq(AnyFrame)
    BY TraceType, Filtered, Zenon
  <2>2. /\ d <= clock - captured /\ compareStackTraces(x, d, internal, c)
        /\ opt' = opt /\ clock' = clock /\ foreign' = foreign
    BY <1>1, Zenon DEF captureStackTrace
  <2>3. d \in Nat
    BY SMT
  <2> HIDE DEF x, c
  <2>4. QED
    BY <2>1, <2>2, <2>3, CompareStep, Zenon
<1>2. ASSUME Shutdown PROVE TreeInv'
  <2>1. compareStackTraces(<<>>, 0, FALSE, FALSE) /\ opt' = opt /\ clock' = clock /\ foreign' = foreign
    BY <1>2, Zenon DEF Shutdown
  <2>2. <<>> \in Seq(AnyFrame) /\ 0 \in Nat
    BY SMT
  <2>3. 0 <= clock - captured
    BY SMT DEF TreeInv
  <2>4. QED
    BY <2>1, <2>2, <2>3, CompareStep, Zenon
<1>3. QED
  BY <1>1, <1>2, Zenon

-----------------------------------------------------------------------------
(* The application's own spans *)

\* The application ends a span of its own.
LEMMA EndAtEnds ==
  ASSUME NEW sp \in Seq(SpanRecord), NEW s \in 1 .. Len(sp), sp[s].state = "open", NEW time \in Nat
  PROVE  Ended(EndAt(sp, s, time), sp, s, FALSE, time)
<1> DEFINE a == sp[s]
           r == [a EXCEPT !.state = "ended"]
           q == [r EXCEPT !.end = time]
           x == [sp EXCEPT ![s] = r]
           y == EndAt(sp, s, time)
<1>1. a \in SpanRecord
  BY SMT
<1>2. y = [sp EXCEPT ![s].state = "ended", ![s].end = time]
  BY Zenon DEF EndAt
<1>3. x = [sp EXCEPT ![s].state = "ended"]
  BY Zenon
<1>4. a = [inferred |-> a.inferred, parent |-> a.parent, start |-> a.start, end |-> a.end, state |-> a.state]
  BY <1>1, SMT DEF SpanRecord
<1>5. /\ r \in SpanRecord /\ q \in SpanRecord /\ q.state = "ended" /\ q.end = time
      /\ q.inferred = a.inferred /\ q.parent = a.parent /\ q.start = a.start
  <2> HIDE DEF a
  <2>1. r = [inferred |-> a.inferred, parent |-> a.parent, start |-> a.start, end |-> a.end, state |-> "ended"]
    BY <1>4, SMT
  <2> HIDE DEF r
  <2>2. q = [inferred |-> a.inferred, parent |-> a.parent, start |-> a.start, end |-> time, state |-> "ended"]
    BY <2>1, SMT
  <2>3. r \in SpanRecord
    BY <2>1, <1>1, SMT DEF SpanRecord
  <2>4. q \in SpanRecord
    BY <2>2, <1>1, SMT DEF SpanRecord
  <2>5. /\ q.state = "ended" /\ q.end = time
        /\ q.inferred = a.inferred /\ q.parent = a.parent /\ q.start = a.start
    BY <2>2, SMT
  <2>6. QED
    BY <2>3, <2>4, <2>5, Zenon DEF r
<1>6. Swapped(x, sp, s, r)
  <2> HIDE DEF r
  <2>1. QED
    BY <1>5, ReplaceType, Zenon
<1>7. y = [x EXCEPT ![s].end = time]
  BY <1>2, <1>3, Zenon
<1> HIDE DEF x, y, r
<1>8. x \in Seq(SpanRecord) /\ Len(x) = Len(sp) /\ x[s] = r /\ \A c \in 1 .. Len(sp) : c # s => x[c] = sp[c]
  BY <1>6, Zenon DEF Swapped
<1>9. y = [x EXCEPT ![s] = q]
  BY <1>7, <1>8, Zenon
<1> HIDE DEF q
<1>10. Swapped([x EXCEPT ![s] = q], x, s, q)
  <2>1. s \in 1 .. Len(x)
    BY <1>8, Zenon
  <2>2. QED
    BY <2>1, <1>5, <1>8, ReplaceType, Zenon
<1>11. y \in Seq(SpanRecord) /\ Len(y) = Len(sp) /\ y[s] = q /\ \A c \in 1 .. Len(sp) : c # s => y[c] = sp[c]
  BY <1>8, <1>9, <1>10, Zenon DEF Swapped
<1>12. Ended(y, sp, s, FALSE, time)
  BY <1>5, <1>11, Zenon DEF Ended, a
<1>13. QED
  BY <1>12, Zenon DEF y

\* The scopes of d are scopes of st.
From(d, st) == \A p \in 1 .. Len(d) : \E k \in 1 .. Len(st) : d[p] = st[k]

\* Detaching leaves scopes that were there.
LEMMA DetachKeeps ==
  ASSUME NEW st \in Seq(ScopeRecord), NEW s
  PROVE  From(Detach(st, s), st)
<1>0. SUFFICES ASSUME NEW p \in 1 .. Len(Detach(st, s)) PROVE \E k \in 1 .. Len(st) : Detach(st, s)[p] = st[k]
  BY Zenon DEF From
<1>1. CASE ~IsAttached(st, s)
  <2>1. Detach(st, s) = st
    BY <1>1, Zenon DEF Detach
  <2>2. QED
    BY <2>1, Zenon
<1>2. CASE IsAttached(st, s)
  <2> DEFINE k == CHOOSE i \in DOMAIN st : st[i] = Scope(s, TRUE)
             d == Detach(st, s)
  <2>1. k \in DOMAIN st
    BY <1>2, Zenon DEF IsAttached
  <2>2. DOMAIN st = 1 .. Len(st) /\ Len(st) \in Nat
    BY SMT
  <2>3. d = RemoveAt(st, k)
    BY <1>2, Zenon DEF Detach
  <2> HIDE DEF k
  <2>4. Without(ScopeRecord, RemoveAt(st, k), st, k)
    BY <2>1, <2>2, Removed, Zenon
  <2> HIDE DEF d
  <2>5. Len(d) = Len(st) - 1 /\ \A c \in 1 .. Len(st) - 1 : d[c] = IF c < k THEN st[c] ELSE st[c + 1]
    BY <2>3, <2>4, Zenon DEF Without
  <2>6. p \in 1 .. Len(d)
    BY Zenon DEF d
  <2>7. p \in 1 .. Len(st) /\ p + 1 \in 1 .. Len(st) /\ p \in 1 .. Len(st) - 1
    BY <2>2, <2>5, <2>6, SMT
  <2>8. d[p] = st[p] \/ d[p] = st[p + 1]
    BY <2>5, <2>7, Zenon
  <2>9. QED
    BY <2>7, <2>8, Zenon DEF d
<1>3. QED
  BY <1>1, <1>2, Zenon

\* Detaching the scope of one span leaves those of the others.
LEMMA DetachSpares ==
  ASSUME NEW st \in Seq(ScopeRecord), NEW s \in Nat, NEW c \in Nat, c # s,
         NEW q \in 1 .. Len(st), st[q] = Scope(c, TRUE)
  PROVE  \E p \in 1 .. Len(Detach(st, s)) : Detach(st, s)[p] = Scope(c, TRUE)
<1>1. CASE ~IsAttached(st, s)
  <2>1. Detach(st, s) = st
    BY <1>1, Zenon DEF Detach
  <2>2. QED
    BY <2>1, Zenon
<1>2. CASE IsAttached(st, s)
  <2> DEFINE k == CHOOSE i \in DOMAIN st : st[i] = Scope(s, TRUE)
             d == Detach(st, s)
  <2>1. k \in DOMAIN st /\ st[k] = Scope(s, TRUE)
    BY <1>2, Zenon DEF IsAttached
  <2>2. DOMAIN st = 1 .. Len(st) /\ Len(st) \in Nat
    BY SMT
  <2>3. d = RemoveAt(st, k)
    BY <1>2, Zenon DEF Detach
  <2> HIDE DEF k
  <2>4. Without(ScopeRecord, RemoveAt(st, k), st, k)
    BY <2>1, <2>2, Removed, Zenon
  <2> HIDE DEF d
  <2>5. Len(d) = Len(st) - 1 /\ \A i \in 1 .. Len(st) - 1 : d[i] = IF i < k THEN st[i] ELSE st[i + 1]
    BY <2>3, <2>4, Zenon DEF Without
  <2>6. q # k
    <3>1. Scope(c, TRUE).span = c /\ Scope(s, TRUE).span = s
      BY Zenon DEF Scope
    <3>2. QED
      BY <2>1, <3>1, Zenon
  <2>7. \/ q \in 1 .. Len(st) - 1 /\ q < k
        \/ q - 1 \in 1 .. Len(st) - 1 /\ ~(q - 1 < k) /\ (q - 1) + 1 = q
    BY <2>1, <2>2, <2>6, SMT
  <2>8. CASE q \in 1 .. Len(st) - 1 /\ q < k
    BY <2>5, <2>8, Zenon DEF d
  <2>9. CASE q - 1 \in 1 .. Len(st) - 1 /\ ~(q - 1 < k) /\ (q - 1) + 1 = q
    <3>1. d[q - 1] = st[q]
      BY <2>5, <2>9, Zenon
    <3>2. QED
      BY <2>5, <2>9, <3>1, Zenon DEF d
  <2>10. QED
    BY <2>7, <2>8, <2>9, Zenon
<1>3. QED
  BY <1>1, <1>2, Zenon

\* A span of the application that starts under the current one.
LEMMA UserStarts ==
  ASSUME IsOptions, NEW sp, NEW st, NEW fr, NEW t \in Nat, NEW id, NEW new, NEW now \in Nat,
         Stands(sp, st, fr, t, id), Grown(new, sp, FALSE, Current(st), now)
  PROVE  Stands(new, Append(st, Scope(Len(sp) + 1, TRUE)), fr, t, id)
<1> DEFINE p == Current(st)
           s == Len(sp) + 1
           x == Append(st, Scope(s, TRUE))
<1>1. /\ WellFormed(sp, st) /\ OnStack(sp, fr, 0) /\ Hanging(sp, fr, 0, 0) /\ Timed(sp, t, t) /\ Nested(sp)
      /\ \A j \in 1 .. Len(fr) : fr[j].id <= id
  BY Zenon DEF Stands, IsTree
<1>2. /\ p \in Nat
      /\ p # 0 => p \in 1 .. Len(sp) /\ sp[p].state = "open"
      /\ \A c \in 1 .. Len(sp) : sp[c].state = "open" => c <= p
  BY <1>1, CurrentIsLast, Zenon
<1>3. WellFormed(new, x) /\ Timed(new, t, t) /\ Nested(new)
  <2>1. opt.minDuration \in Nat
    BY Zenon DEF IsOptions
  <2> HIDE DEF p
  <2>2. Grown(new, sp, FALSE, p, now)
    BY Zenon DEF p
  <2>3. QED
    BY <2>1, <2>2, <1>1, <1>2, GrowTree, Zenon
<1>t. /\ Len(sp) \in Nat /\ fr \in Seq(FrameRecord) /\ Len(fr) \in Nat
      /\ \A c \in 1 .. Len(sp) : sp[c].parent # 0 => sp[c].parent \in 1 .. Len(sp)
      /\ \A i \in 1 .. Len(fr) : fr[i].span \in 1 .. Len(sp) /\ fr[i].id \in Nat
  BY <1>1, TreeTypes, Zenon
<1>4. /\ Len(new) = s /\ \A c \in 1 .. Len(sp) : new[c] = sp[c]
      /\ new[s].inferred = FALSE /\ new[s].parent = p
  BY Zenon DEF Grown
<1>5. \A c \in 1 .. s : c \in 1 .. Len(sp) \/ c = s
  BY <1>t, SMT
<1>6. \A c \in 1 .. Len(sp) : c \in 1 .. s
  BY <1>t, SMT
<1> HIDE DEF p, s, x
<1>7. OnStack(new, fr, 0)
  <2>1. /\ \A i \in 1 .. Len(fr) : fr[i].id >= 1 /\ fr[i].span \in 1 .. Len(sp)
        /\ \A i \in 0 + 1 .. Len(fr) : sp[fr[i].span].inferred /\ sp[fr[i].span].state = "open"
        /\ \A i, j \in 1 .. Len(fr) : i < j => fr[i].span > fr[j].span /\ fr[i].id >= fr[j].id
        /\ \A c \in 1 .. Len(sp) : sp[c].inferred /\ sp[c].state = "open" => \E i \in 0 + 1 .. Len(fr) : fr[i].span = c
    BY <1>1, Zenon DEF OnStack
  <2>2. \A i \in 0 + 1 .. Len(fr) : i \in 1 .. Len(fr)
    BY <1>t, SMT
  <2>3. ASSUME NEW i \in 0 + 1 .. Len(fr) PROVE new[fr[i].span].inferred /\ new[fr[i].span].state = "open"
    <3>0. fr[i].span \in 1 .. Len(sp)
      BY <2>1, <2>2, Zenon
    <3>1. new[fr[i].span] = sp[fr[i].span]
      BY <3>0, <1>4, Zenon
    <3>2. sp[fr[i].span].inferred /\ sp[fr[i].span].state = "open"
      BY <2>1, Zenon
    <3>3. QED
      BY <3>1, <3>2, Zenon
  <2>4. ASSUME NEW c \in 1 .. Len(new), new[c].inferred, new[c].state = "open" PROVE \E i \in 0 + 1 .. Len(fr) : fr[i].span = c
    <3>1. c \in 1 .. Len(sp)
      <4>1. CASE c = s
        BY <4>1, <2>4, <1>4, Zenon
      <4>2. QED
        BY <4>1, <1>4, <1>5, Zenon
    <3>2. QED
      BY <3>1, <2>1, <2>4, <1>4, Zenon
  <2>5. \A i \in 1 .. Len(fr) : fr[i].id >= 1 /\ fr[i].span \in 1 .. Len(new)
    BY <2>1, <1>4, <1>6, Zenon
  <2>6. QED
    BY <2>1, <2>3, <2>4, <2>5, <1>t, Zenon DEF OnStack
<1>8. Hanging(new, fr, 0, 0)
  <2>0. \A i \in 0 + 1 .. Len(fr) : i \in 1 .. Len(fr)
    BY <1>t, SMT
  <2>1. ASSUME NEW i \in 0 + 1 .. Len(fr)
        PROVE  LET q == new[fr[i].span].parent
               IN  q = 0 \/ ~new[q].inferred \/ (i < Len(fr) /\ q = fr[i + 1].span)
    <3>1. i \in 1 .. Len(fr) /\ fr[i].span \in 1 .. Len(sp) /\ new[fr[i].span] = sp[fr[i].span]
      BY <2>0, <1>t, <1>4, Zenon
    <3> DEFINE q == sp[fr[i].span].parent
    <3>2. q = 0 \/ ~sp[q].inferred \/ (i < Len(fr) /\ q = fr[i + 1].span)
      BY <1>1, Zenon DEF Hanging
    <3>3. q # 0 => q \in 1 .. Len(sp)
      BY <3>1, <1>t, Zenon
    <3>4. QED
      BY <3>1, <3>2, <3>3, <1>4, Zenon
  <2>2. ASSUME NEW i \in 1 .. Len(fr), NEW j \in 1 .. Len(fr), fr[i].id = fr[j].id
        PROVE  new[fr[i].span].start = new[fr[j].span].start
    <3>1. sp[fr[i].span].start = sp[fr[j].span].start
      BY <2>2, <1>1, Zenon DEF Hanging
    <3>2. fr[i].span \in 1 .. Len(sp) /\ fr[j].span \in 1 .. Len(sp)
      BY <1>t, Zenon
    <3>3. QED
      BY <3>1, <3>2, <1>4, Zenon
  <2>3. ASSUME NEW i \in 0 + 1 .. Len(fr) - 1, i # 0, fr[i].id = fr[i + 1].id,
               NEW c \in 1 .. Len(new), new[c].parent = fr[i + 1].span
        PROVE  c = fr[i].span
    <3>0. i \in 1 .. Len(fr) /\ i + 1 \in 1 .. Len(fr) /\ i < i + 1 /\ i \in 0 + 1 .. Len(fr)
      BY <1>t, SMT
    <3>1. CASE c \in 1 .. Len(sp)
      BY <2>3, <3>1, <1>1, <1>4, Zenon DEF Hanging
    <3>2. CASE c = s
      <4>1. p = fr[i + 1].span
        BY <3>2, <2>3, <1>4, Zenon
      <4>2. sp[fr[i].span].state = "open" /\ fr[i].span > fr[i + 1].span
        BY <3>0, <1>1, Zenon DEF OnStack
      <4>3. fr[i].span <= p /\ fr[i].span \in Nat /\ fr[i + 1].span \in Nat
        <5>1. fr[i].span \in 1 .. Len(sp) /\ fr[i + 1].span \in 1 .. Len(sp)
          BY <3>0, <1>t, Zenon
        <5>2. fr[i].span <= p
          BY <5>1, <4>2, <1>2, Zenon
        <5>3. QED
          BY <5>1, <5>2, <1>t, SMT
      <4>4. FALSE
        BY <4>1, <4>2, <4>3, <1>2, SMT
      <4>5. QED
        BY <4>4, Zenon
    <3>3. QED
      BY <3>1, <3>2, <1>4, <1>5, Zenon
  <2>4. QED
    BY <2>1, <2>2, <2>3, Zenon DEF Hanging
<1>9. QED
  BY <1>1, <1>3, <1>7, <1>8, Zenon DEF Stands, IsTree, x, s

\* A span of the application that ends.
LEMMA UserEnds ==
  ASSUME NEW sp, NEW st, NEW fr, NEW t, NEW id, NEW new, NEW now, NEW s \in 1 .. Len(sp),
         Stands(sp, st, fr, t, id), sp[s].state = "open", ~sp[s].inferred, Ended(new, sp, s, FALSE, now)
  PROVE  Stands(new, Detach(st, s), fr, t, id)
<1>1. /\ WellFormed(sp, st) /\ OnStack(sp, fr, 0) /\ Hanging(sp, fr, 0, 0) /\ Timed(sp, t, t) /\ Nested(sp)
      /\ \A j \in 1 .. Len(fr) : fr[j].id <= id
  BY Zenon DEF Stands, IsTree
<1>2. WellFormed(new, Detach(st, s))
  BY <1>1, EndWellFormed, Zenon
<1>t. /\ Len(sp) \in Nat /\ fr \in Seq(FrameRecord) /\ Len(fr) \in Nat
      /\ \A c \in 1 .. Len(sp) : sp[c].parent # 0 => sp[c].parent \in 1 .. Len(sp)
      /\ \A i \in 1 .. Len(fr) : fr[i].span \in 1 .. Len(sp) /\ fr[i].id \in Nat
  BY <1>1, TreeTypes, Zenon
<1>3. /\ Len(new) = Len(sp)
      /\ \A c \in 1 .. Len(sp) : /\ new[c].inferred = sp[c].inferred /\ new[c].parent = sp[c].parent
                                 /\ new[c].start = sp[c].start
                                 /\ sp[c].inferred => new[c].state = sp[c].state /\ new[c].end = sp[c].end
                                 /\ new[c].state = "dropped" <=> sp[c].state = "dropped"
  <2>1. /\ Len(new) = Len(sp) /\ new[s].state = "ended"
        /\ \A c \in 1 .. Len(sp) : /\ new[c].inferred = sp[c].inferred /\ new[c].parent = sp[c].parent
                                   /\ new[c].start = sp[c].start
                                   /\ c # s => new[c].state = sp[c].state /\ new[c].end = sp[c].end
    BY Zenon DEF Ended
  <2>2. sp[s].state # "dropped" /\ new[s].state # "dropped"
    BY <2>1, SMT
  <2>3. QED
    BY <2>1, <2>2, Zenon
<1>4. OnStack(new, fr, 0)
  <2>1. /\ \A i \in 1 .. Len(fr) : fr[i].id >= 1 /\ fr[i].span \in 1 .. Len(sp)
        /\ \A i \in 0 + 1 .. Len(fr) : sp[fr[i].span].inferred /\ sp[fr[i].span].state = "open"
        /\ \A i, j \in 1 .. Len(fr) : i < j => fr[i].span > fr[j].span /\ fr[i].id >= fr[j].id
        /\ \A c \in 1 .. Len(sp) : sp[c].inferred /\ sp[c].state = "open" => \E i \in 0 + 1 .. Len(fr) : fr[i].span = c
    BY <1>1, Zenon DEF OnStack
  <2>2. \A i \in 0 + 1 .. Len(fr) : i \in 1 .. Len(fr)
    BY <1>t, SMT
  <2>3. ASSUME NEW i \in 0 + 1 .. Len(fr) PROVE new[fr[i].span].inferred /\ new[fr[i].span].state = "open"
    <3>1. fr[i].span \in 1 .. Len(sp) /\ sp[fr[i].span].inferred /\ sp[fr[i].span].state = "open"
      BY <2>1, <2>2, Zenon
    <3>2. new[fr[i].span].inferred = sp[fr[i].span].inferred /\ new[fr[i].span].state = sp[fr[i].span].state
      BY <3>1, <1>3, Zenon
    <3>3. QED
      BY <3>1, <3>2, Zenon
  <2>4. ASSUME NEW c \in 1 .. Len(new), new[c].inferred, new[c].state = "open" PROVE \E i \in 0 + 1 .. Len(fr) : fr[i].span = c
    <3>1. c \in 1 .. Len(sp) /\ sp[c].inferred /\ sp[c].state = "open"
      BY <2>4, <1>3, Zenon
    <3>2. QED
      BY <3>1, <2>1, Zenon
  <2>5. \A i \in 1 .. Len(fr) : fr[i].id >= 1 /\ fr[i].span \in 1 .. Len(new)
    BY <2>1, <1>3, Zenon
  <2>6. QED
    BY <2>1, <2>3, <2>4, <2>5, <1>t, Zenon DEF OnStack
<1>5. Hanging(new, fr, 0, 0)
  <2>0. \A i \in 0 + 1 .. Len(fr) : i \in 1 .. Len(fr)
    BY <1>t, SMT
  <2>1. ASSUME NEW i \in 0 + 1 .. Len(fr)
        PROVE  LET q == new[fr[i].span].parent
               IN  q = 0 \/ ~new[q].inferred \/ (i < Len(fr) /\ q = fr[i + 1].span)
    <3>1. fr[i].span \in 1 .. Len(sp) /\ new[fr[i].span].parent = sp[fr[i].span].parent
      BY <2>0, <1>t, <1>3, Zenon
    <3> DEFINE q == sp[fr[i].span].parent
    <3>2. q = 0 \/ ~sp[q].inferred \/ (i < Len(fr) /\ q = fr[i + 1].span)
      BY <1>1, Zenon DEF Hanging
    <3>3. q # 0 => q \in 1 .. Len(sp)
      BY <3>1, <1>t, Zenon
    <3>4. q # 0 => new[q].inferred = sp[q].inferred
      BY <3>3, <1>3, Zenon
    <3>5. QED
      BY <3>1, <3>2, <3>4, Zenon
  <2>2. ASSUME NEW i \in 1 .. Len(fr), NEW j \in 1 .. Len(fr), fr[i].id = fr[j].id
        PROVE  new[fr[i].span].start = new[fr[j].span].start
    <3>1. sp[fr[i].span].start = sp[fr[j].span].start
      BY <2>2, <1>1, Zenon DEF Hanging
    <3>2. fr[i].span \in 1 .. Len(sp) /\ fr[j].span \in 1 .. Len(sp)
      BY <1>t, Zenon
    <3>3. QED
      BY <3>1, <3>2, <1>3, Zenon
  <2>3. ASSUME NEW i \in 0 + 1 .. Len(fr) - 1, i # 0, fr[i].id = fr[i + 1].id,
               NEW c \in 1 .. Len(new), new[c].parent = fr[i + 1].span
        PROVE  c = fr[i].span
    BY <2>3, <1>1, <1>3, Zenon DEF Hanging
  <2>4. QED
    BY <2>1, <2>2, <2>3, Zenon DEF Hanging
<1>6. Timed(new, t, t)
  BY <1>1, <1>3, Zenon DEF Timed
<1>7. Nested(new)
  <2>1. ASSUME NEW c \in 1 .. Len(new), new[c].inferred, new[c].parent # 0, new[new[c].parent].inferred
        PROVE  LET p == new[c].parent
               IN  /\ new[p].start <= new[c].start
                   /\ new[c].state = "open" => new[p].state = "open"
                   /\ new[c].state = "ended" /\ new[p].state = "ended" => new[c].end <= new[p].end
    <3> DEFINE p == sp[c].parent
    <3>1. c \in 1 .. Len(sp) /\ new[c].parent = p /\ p # 0 /\ sp[c].inferred
      BY <2>1, <1>3, Zenon
    <3>2. p \in 1 .. Len(sp)
      BY <3>1, <1>t, Zenon
    <3>3. sp[p].inferred
      BY <3>1, <3>2, <2>1, <1>3, Zenon
    <3>4. /\ sp[p].start <= sp[c].start
          /\ sp[c].state = "open" => sp[p].state = "open"
          /\ sp[c].state = "ended" /\ sp[p].state = "ended" => sp[c].end <= sp[p].end
      BY <3>1, <3>3, <1>1, Zenon DEF Nested
    <3>5. /\ new[c].start = sp[c].start /\ new[c].state = sp[c].state /\ new[c].end = sp[c].end
          /\ new[p].start = sp[p].start /\ new[p].state = sp[p].state /\ new[p].end = sp[p].end
      BY <3>1, <3>2, <3>3, <1>3, Zenon
    <3>6. QED
      BY <3>1, <3>4, <3>5, Zenon
  <2>2. ASSUME NEW c \in 1 .. Len(new), new[c].parent # 0, new[c].state # "dropped", new[c].inferred \/ opt.minDuration = 0
        PROVE  new[new[c].parent].state # "dropped"
    <3> DEFINE p == sp[c].parent
    <3>1. c \in 1 .. Len(sp) /\ new[c].parent = p /\ p # 0 /\ sp[c].state # "dropped" /\ (sp[c].inferred \/ opt.minDuration = 0)
      BY <2>2, <1>3, Zenon
    <3>2. p \in 1 .. Len(sp)
      BY <3>1, <1>t, Zenon
    <3>3. sp[p].state # "dropped"
      BY <3>1, <1>1, Zenon DEF Nested
    <3>4. QED
      BY <3>1, <3>2, <3>3, <1>3, Zenon
  <2>3. \A c \in 1 .. Len(new) : ~new[c].inferred => new[c].state # "dropped"
    BY <1>1, <1>3, Zenon DEF Nested
  <2>4. QED
    BY <2>1, <2>2, <2>3, Zenon DEF Nested
<1>8. QED
  BY <1>1, <1>2, <1>4, <1>5, <1>6, <1>7, Zenon DEF Stands, IsTree

\* Ending whatever span it is.
LEMMA EndAnyType ==
  ASSUME NEW sp \in Seq(SpanRecord), NEW s, NEW time \in Nat
  PROVE  EndAt(sp, s, time) \in Seq(SpanRecord) /\ Len(EndAt(sp, s, time)) = Len(sp)
<1>1. CASE s \in 1 .. Len(sp)
  BY <1>1, EndAtType, Zenon
<1>2. CASE s \notin 1 .. Len(sp)
  <2>1. EndAt(sp, s, time) = sp \/ EndAt(sp, s, time) = [sp EXCEPT ![s].state = "ended", ![s].end = time]
    BY Zenon DEF EndAt
  <2>2. \A e \in Seq(SpanRecord) : \A v : s \notin 1 .. Len(e) => [e EXCEPT ![s] = v] = e
    <3>1. SUFFICES ASSUME NEW e \in Seq(SpanRecord), NEW v, s \notin 1 .. Len(e) PROVE [e EXCEPT ![s] = v] = e
      BY Zenon
    <3>2. DOMAIN e = 1 .. Len(e) /\ e = [c \in DOMAIN e |-> e[c]]
      BY SMT
    <3>3. s \notin DOMAIN e
      BY <3>1, <3>2, Zenon
    <3> DEFINE h == [e EXCEPT ![s] = v]
    <3>4. h = [c \in DOMAIN e |-> h[c]] /\ \A c \in DOMAIN e : h[c] = e[c]
      BY <3>3, SMT
    <3> HIDE DEF h
    <3>5. h = e
      BY <3>2, <3>4, SMT
    <3>6. QED
      BY <3>5, Zenon DEF h
  <2>3. [sp EXCEPT ![s].state = "ended"] = sp
    BY <2>2, <1>2, Zenon
  <2>4. [sp EXCEPT ![s].end = time] = sp
    BY <2>2, <1>2, Zenon
  <2>5. [sp EXCEPT ![s].state = "ended", ![s].end = time] = sp
    BY <2>3, <2>4, Zenon
  <2>6. EndAt(sp, s, time) = sp
    BY <2>1, <2>5, Zenon
  <2>7. QED
    BY <2>6, Zenon
<1>3. QED
  BY <1>1, <1>2, Zenon

\* UserSpanStart keeps the invariant.
LEMMA UserStartStep ==
  ASSUME TreeInv, UserSpanStart
  PROVE  TreeInv'
<1> DEFINE p == Current(storage)
           s == Len(spans) + 1
<1>0. /\ IsOptions /\ clock \in Nat /\ captured \in Nat /\ captured <= clock /\ stackTraceId \in Nat
      /\ IsBase(spans, storage, lastStackTrace) /\ FramesOf(lastStackTrace) = trace
      /\ ~foreign /\ ~opt.sampled => Quiet(spans, storage)
      /\ ~foreign /\ opt.sampled => Stands(spans, storage, lastStackTrace, captured, stackTraceId)
  BY Zenon DEF TreeInv
<1>1. /\ spans' = Append(spans, NewSpan(FALSE, p, clock)) /\ storage' = Append(storage, Scope(s, TRUE))
      /\ opt' = opt /\ lastStackTrace' = lastStackTrace /\ stackTraceId' = stackTraceId /\ clock' = clock
      /\ captured' = captured /\ trace' = trace /\ foreign' = foreign
  BY Zenon DEF UserSpanStart
<1>2. /\ spans \in Seq(SpanRecord) /\ storage \in Seq(ScopeRecord) /\ lastStackTrace \in Seq(FrameRecord)
      /\ \A i \in 1 .. Len(lastStackTrace) : lastStackTrace[i].span \in 1 .. Len(spans)
  BY <1>0, Zenon DEF IsBase
<1>3. p \in Nat
  BY <1>2, CurrentType, Zenon
<1> HIDE DEF p
<1>4. Grown(spans', spans, FALSE, p, clock)
  <2>1. Grown(Append(spans, NewSpan(FALSE, p, clock)), spans, FALSE, p, clock)
    BY <1>0, <1>2, <1>3, GrownOf, Zenon
  <2>2. QED
    BY <2>1, <1>1, Zenon
<1>5. IsBase(spans', storage', lastStackTrace')
  <2>1. spans' \in Seq(SpanRecord) /\ Len(spans') = s
    BY <1>4, Zenon DEF Grown
  <2>2. Scope(s, TRUE) \in ScopeRecord /\ \A c : c \in 1 .. Len(spans) => c \in 1 .. s
    BY <1>2, SMT DEF Scope, ScopeRecord
  <2> DEFINE e == Scope(s, TRUE)
  <2>3. e \in ScopeRecord
    BY <2>2, Zenon
  <2> HIDE DEF e
  <2>4. Append(storage, e) \in Seq(ScopeRecord)
    BY <2>3, <1>2, SMT
  <2>5. QED
    BY <2>1, <2>2, <2>4, <1>1, <1>2, Zenon DEF IsBase, e
<1>6. ASSUME ~foreign, ~opt.sampled PROVE Quiet(spans', storage')
  <2>1. Quiet(spans, storage)
    BY <1>6, <1>0, Zenon
  <2>2. p <= Len(spans)
    BY <2>1, <1>2, CurrentQuiet, Zenon DEF p
  <2>3. Quiet(spans', Append(storage, Scope(Len(spans) + 1, TRUE)))
    BY <2>1, <2>2, <1>2, <1>3, <1>4, QuietGrows, Zenon
  <2>4. QED
    BY <2>3, <1>1, Zenon
<1>7. ASSUME ~foreign, opt.sampled PROVE Stands(spans', storage', lastStackTrace', captured', stackTraceId')
  <2>1. Stands(spans, storage, lastStackTrace, captured, stackTraceId)
    BY <1>7, <1>0, Zenon
  <2>2. Stands(spans', Append(storage, Scope(Len(spans) + 1, TRUE)), lastStackTrace, captured, stackTraceId)
    BY <2>1, <1>0, <1>4, UserStarts, Zenon DEF p
  <2>3. QED
    BY <2>2, <1>1, Zenon
<1>8. clock' \in Nat /\ captured' \in Nat /\ captured' <= clock' /\ stackTraceId' \in Nat /\ FramesOf(lastStackTrace') = trace'
  BY <1>0, <1>1, Zenon
<1>9. QED
  BY <1>0, <1>1, <1>5, <1>6, <1>7, <1>8, TreeNext, Zenon

\* UserSpanEnd keeps the invariant.
LEMMA UserEndStep ==
  ASSUME TreeInv, NEW s \in DOMAIN spans, UserSpanEnd(s)
  PROVE  TreeInv'
<1>0. /\ IsOptions /\ clock \in Nat /\ captured \in Nat /\ captured <= clock /\ stackTraceId \in Nat
      /\ IsBase(spans, storage, lastStackTrace) /\ FramesOf(lastStackTrace) = trace
      /\ ~foreign /\ ~opt.sampled => Quiet(spans, storage)
      /\ ~foreign /\ opt.sampled => Stands(spans, storage, lastStackTrace, captured, stackTraceId)
  BY Zenon DEF TreeInv
<1>1. /\ spans' = EndAt(spans, s, clock) /\ storage' = Detach(storage, s) /\ ~spans[s].inferred /\ spans[s].state = "open"
      /\ opt' = opt /\ lastStackTrace' = lastStackTrace /\ stackTraceId' = stackTraceId /\ clock' = clock
      /\ captured' = captured /\ trace' = trace /\ foreign' = foreign
  BY Zenon DEF UserSpanEnd
<1>2. /\ spans \in Seq(SpanRecord) /\ storage \in Seq(ScopeRecord) /\ lastStackTrace \in Seq(FrameRecord)
      /\ \A i \in 1 .. Len(lastStackTrace) : lastStackTrace[i].span \in 1 .. Len(spans)
  BY <1>0, Zenon DEF IsBase
<1>3. s \in 1 .. Len(spans)
  BY <1>2, SMT
<1>4. Ended(spans', spans, s, FALSE, clock)
  <2>1. Ended(EndAt(spans, s, clock), spans, s, FALSE, clock)
    BY <1>0, <1>1, <1>2, <1>3, EndAtEnds, Zenon
  <2>2. QED
    BY <2>1, <1>1, Zenon
<1>d. storage' \in Seq(ScopeRecord)
  <2>1. Detach(storage, s) \in Seq(ScopeRecord)
    BY <1>2, DetachType, Zenon
  <2>2. QED
    BY <2>1, <1>1, Zenon
<1>e. /\ spans' \in Seq(SpanRecord) /\ Len(spans') = Len(spans) /\ spans'[s].state = "ended"
      /\ \A c \in 1 .. Len(spans) : /\ spans'[c].inferred = spans[c].inferred
                                    /\ spans'[c].parent = spans[c].parent
                                    /\ c # s => spans'[c].state = spans[c].state
  BY <1>4, Zenon DEF Ended
<1>5. IsBase(spans', storage', lastStackTrace')
  BY <1>d, <1>e, <1>1, <1>2, Zenon DEF IsBase
<1>6. ASSUME ~foreign, ~opt.sampled PROVE Quiet(spans', storage')
  <2>1. Quiet(spans, storage)
    BY <1>6, <1>0, Zenon
  <2>2. ASSUME NEW c \in 1 .. Len(spans')
        PROVE  /\ spans'[c].state # "dropped" /\ (spans'[c].inferred => spans'[c].state # "ended")
               /\ spans'[c].parent <= Len(spans')
    <3>1. c \in 1 .. Len(spans) /\ spans[c].parent <= Len(spans)
      BY <2>1, <1>e, Zenon DEF Quiet
    <3>2. CASE c = s
      <4>1. "ended" # "dropped"
        BY SMT
      <4>2. QED
        BY <4>1, <3>1, <3>2, <1>e, <1>1, Zenon
    <3>3. CASE c # s
      BY <3>1, <3>3, <2>1, <1>e, Zenon DEF Quiet
    <3>4. QED
      BY <3>2, <3>3, Zenon
  <2>3. ASSUME NEW q \in 1 .. Len(storage') PROVE storage'[q].span <= Len(spans')
    <3>1. q \in 1 .. Len(Detach(storage, s))
      BY <1>1, Zenon
    <3>2. PICK k \in 1 .. Len(storage) : Detach(storage, s)[q] = storage[k]
      <4>1. From(Detach(storage, s), storage)
        BY <1>2, DetachKeeps, Zenon
      <4>2. QED
        BY <4>1, <3>1, Zenon DEF From
    <3>3. storage[k].span <= Len(spans)
      BY <2>1, Zenon DEF Quiet
    <3>4. QED
      BY <3>2, <3>3, <1>1, <1>e, Zenon
  <2>4. ASSUME NEW c \in 1 .. Len(spans'), spans'[c].inferred
        PROVE  \E q \in 1 .. Len(storage') : storage'[q] = Scope(c, TRUE)
    <3>1. c \in 1 .. Len(spans) /\ spans[c].inferred /\ c # s
      BY <2>4, <1>1, <1>e, Zenon
    <3>2. PICK q \in 1 .. Len(storage) : storage[q] = Scope(c, TRUE)
      BY <2>1, <3>1, Zenon DEF Quiet, ScopesStay
    <3>3. c \in Nat /\ s \in Nat
      BY <3>1, <1>3, SMT
    <3>4. \E r \in 1 .. Len(Detach(storage, s)) : Detach(storage, s)[r] = Scope(c, TRUE)
      BY <1>2, <3>1, <3>2, <3>3, DetachSpares, Zenon
    <3>5. QED
      BY <3>4, <1>1, Zenon
  <2>5. QED
    BY <2>2, <2>3, <2>4, Zenon DEF Quiet, ScopesStay
<1>7. ASSUME ~foreign, opt.sampled PROVE Stands(spans', storage', lastStackTrace', captured', stackTraceId')
  <2>1. Stands(spans, storage, lastStackTrace, captured, stackTraceId)
    BY <1>7, <1>0, Zenon
  <2>2. Stands(spans', Detach(storage, s), lastStackTrace, captured, stackTraceId)
    BY <2>1, <1>1, <1>3, <1>4, UserEnds, Zenon
  <2>3. QED
    BY <2>2, <1>1, Zenon
<1>8. clock' \in Nat /\ captured' \in Nat /\ captured' <= clock' /\ stackTraceId' \in Nat /\ FramesOf(lastStackTrace') = trace'
  BY <1>0, <1>1, Zenon
<1>9. QED
  BY <1>0, <1>1, <1>5, <1>6, <1>7, <1>8, TreeNext, Zenon

\* Others, and time.
LEMMA OtherSteps ==
  ASSUME TreeInv, ForeignDetach \/ ForeignAttach \/ Tick \/ UNCHANGED spansVars
  PROVE  TreeInv'
<1>0. /\ IsOptions /\ clock \in Nat /\ captured \in Nat /\ captured <= clock /\ stackTraceId \in Nat
      /\ IsBase(spans, storage, lastStackTrace) /\ FramesOf(lastStackTrace) = trace
      /\ ~foreign /\ ~opt.sampled => Quiet(spans, storage)
      /\ ~foreign /\ opt.sampled => Stands(spans, storage, lastStackTrace, captured, stackTraceId)
  BY Zenon DEF TreeInv
<1>1. /\ spans \in Seq(SpanRecord) /\ storage \in Seq(ScopeRecord) /\ lastStackTrace \in Seq(FrameRecord)
      /\ \A i \in 1 .. Len(lastStackTrace) : lastStackTrace[i].span \in 1 .. Len(spans)
  BY <1>0, Zenon DEF IsBase
<1>2. CASE ForeignDetach
  <2>1. /\ spans' = EndAt(spans, Last(storage).span, clock) /\ storage' = Front(storage) /\ Len(storage) > 1 /\ foreign' = TRUE
        /\ opt' = opt /\ lastStackTrace' = lastStackTrace /\ stackTraceId' = stackTraceId /\ clock' = clock
        /\ captured' = captured /\ trace' = trace
    BY <1>2, Zenon DEF ForeignDetach
  <2>2. Front(storage) \in Seq(ScopeRecord)
    <3>1. Front(storage) = SubSeq(storage, 1, Len(storage) - 1)
      BY Zenon DEF Front
    <3>2. SubSeq(storage, 1, Len(storage) - 1) \in Seq(ScopeRecord)
      BY <2>1, <1>1, SMT
    <3>3. QED
      BY <3>1, <3>2, Zenon
  <2> DEFINE l == Last(storage).span
  <2> HIDE DEF l
  <2>3. EndAt(spans, l, clock) \in Seq(SpanRecord) /\ Len(EndAt(spans, l, clock)) = Len(spans)
    BY <1>0, <1>1, EndAnyType, Zenon
  <2>4. IsBase(spans', storage', lastStackTrace')
    BY <2>1, <2>2, <2>3, <1>1, Zenon DEF IsBase, l
  <2>5. clock' \in Nat /\ captured' \in Nat /\ captured' <= clock' /\ stackTraceId' \in Nat /\ FramesOf(lastStackTrace') = trace'
    BY <2>1, <1>0, Zenon
  <2>6. QED
    BY <2>1, <2>4, <2>5, <1>0, TreeNext, Zenon
<1>3. CASE ForeignAttach
  <2>1. /\ spans' = spans /\ storage' = Append(storage, Scope(Last(storage).span, FALSE)) /\ Len(storage) > 1 /\ foreign' = TRUE
        /\ opt' = opt /\ lastStackTrace' = lastStackTrace /\ stackTraceId' = stackTraceId /\ clock' = clock
        /\ captured' = captured /\ trace' = trace
    BY <1>3, Zenon DEF ForeignAttach
  <2> DEFINE e == Scope(Last(storage).span, FALSE)
  <2>2. e \in ScopeRecord
    <3>1. storage[Len(storage)] \in ScopeRecord
      BY <2>1, <1>1, SMT
    <3>2. Last(storage) \in ScopeRecord
      BY <3>1, Zenon DEF Last
    <3>3. Last(storage).span \in Nat
      BY <3>2, SMT DEF ScopeRecord
    <3>4. QED
      BY <3>3, SMT DEF Scope, ScopeRecord
  <2> HIDE DEF e
  <2>3. Append(storage, e) \in Seq(ScopeRecord)
    BY <2>2, <1>1, SMT
  <2>4. IsBase(spans', storage', lastStackTrace')
    BY <2>1, <2>3, <1>1, Zenon DEF IsBase, e
  <2>5. clock' \in Nat /\ captured' \in Nat /\ captured' <= clock' /\ stackTraceId' \in Nat /\ FramesOf(lastStackTrace') = trace'
    BY <2>1, <1>0, Zenon
  <2>6. QED
    BY <2>1, <2>4, <2>5, <1>0, TreeNext, Zenon
<1>4. CASE Tick \/ UNCHANGED spansVars
  <2>1. /\ spans' = spans /\ storage' = storage /\ foreign' = foreign
        /\ opt' = opt /\ lastStackTrace' = lastStackTrace /\ stackTraceId' = stackTraceId
        /\ captured' = captured /\ trace' = trace /\ (clock' = clock + 1 \/ clock' = clock)
    BY <1>4, Zenon DEF Tick, spansVars
  <2>2. clock' \in Nat /\ captured <= clock'
    BY <2>1, <1>0, SMT
  <2>3. /\ captured' \in Nat /\ captured' <= clock' /\ stackTraceId' \in Nat /\ FramesOf(lastStackTrace') = trace'
        /\ IsBase(spans', storage', lastStackTrace')
        /\ ~foreign' /\ ~opt.sampled => Quiet(spans', storage')
        /\ ~foreign' /\ opt.sampled => Stands(spans', storage', lastStackTrace', captured', stackTraceId')
    BY <2>1, <2>2, <1>0, Zenon
  <2>4. QED
    BY <2>1, <2>2, <2>3, <1>0, TreeNext, Zenon
<1>5. QED
  BY <1>2, <1>3, <1>4, Zenon

\* The invariant holds at first.
LEMMA TreeStarts ==
  ASSUME SpansInit
  PROVE  TreeInv
<1>0. /\ opt \in Options /\ lastStackTrace = <<>> /\ stackTraceId = 0 /\ spans = <<>> /\ storage = <<RootScope>>
      /\ clock = 0 /\ captured = 0 /\ trace = <<>>
  BY Zenon DEF SpansInit
<1>1. IsOptions
  <2>1. opt \in [reduction : BOOLEAN, minDuration : Nat, canSetParent : BOOLEAN, sampled : BOOLEAN, foreign : BOOLEAN]
    BY <1>0, OptionsAssumption, Zenon
  <2>2. QED
    BY <2>1, SMT DEF IsOptions
<1>2. /\ clock \in Nat /\ captured \in Nat /\ captured <= clock /\ stackTraceId \in Nat
      /\ spans \in Seq(SpanRecord) /\ lastStackTrace \in Seq(FrameRecord)
      /\ Len(spans) = 0 /\ Len(lastStackTrace) = 0 /\ 1 .. 0 = {} /\ 0 + 1 .. 0 = {} /\ 0 + 1 .. 0 - 1 = {}
  BY <1>0, SMT
<1>3. RootScope = [span |-> 0, own |-> TRUE]
  BY Zenon DEF RootScope, Scope
<1>4. RootScope \in ScopeRecord /\ RootScope.span = 0
  BY <1>3, SMT DEF ScopeRecord
<1> DEFINE r == RootScope
<1>5. storage = <<r>> /\ r \in ScopeRecord /\ r.span = 0 /\ r = Scope(0, TRUE)
  BY <1>0, <1>4, Zenon DEF RootScope
<1> HIDE DEF r
<1>6. storage \in Seq(ScopeRecord) /\ Len(storage) = 1 /\ storage[1] = r
  <2>1. r \in ScopeRecord
    BY <1>5, Zenon
  <2>2. <<r>> \in Seq(ScopeRecord)
    BY <2>1, SMT
  <2>3. Len(<<r>>) = 1
    BY SMT
  <2>4. <<r>>[1] = r
    BY SMT
  <2>5. QED
    BY <2>2, <2>3, <2>4, <1>5, Zenon
<1>7. /\ 1 >= 1 /\ \A p \in 1 .. 1 : p = 1
      /\ \A p, q \in 1 .. 1 : ~(p < q)
      /\ 0 <= 0
  BY SMT
<1>8. FramesOf(lastStackTrace) = trace
  <2>1. /\ FramesOf(lastStackTrace) \in Seq(AnyFrame) /\ Len(FramesOf(lastStackTrace)) = Len(lastStackTrace)
    BY <1>2, FramesType, Zenon
  <2> DEFINE x == FramesOf(lastStackTrace)
  <2>2. x \in Seq(AnyFrame) /\ Len(x) = 0
    BY <2>1, <1>2, Zenon
  <2> HIDE DEF x
  <2>3. x = <<>>
    BY <2>2, SMT
  <2>4. QED
    BY <2>3, <1>0, Zenon DEF x
<1>9. IsBase(spans, storage, lastStackTrace)
  BY <1>2, <1>6, Zenon DEF IsBase
<1>10. Quiet(spans, storage)
  <2>1. \A p \in 1 .. Len(storage) : storage[p].span <= Len(spans)
    BY <1>2, <1>5, <1>6, <1>7, Zenon
  <2>2. QED
    BY <2>1, <1>2, Zenon DEF Quiet, ScopesStay
<1>11. Stands(spans, storage, lastStackTrace, captured, stackTraceId)
  <2>1. WellFormed(spans, storage)
    <3>1. \A p \in 1 .. Len(storage) : storage[p] = Scope(storage[p].span, TRUE) /\ storage[p].span = 0
      BY <1>5, <1>6, <1>7, Zenon
    <3>2. Len(storage) >= 1 /\ storage[1].span = 0 /\ \A p, q \in 1 .. Len(storage) : ~(p < q)
      BY <1>5, <1>6, <1>7, Zenon
    <3>3. QED
      BY <3>1, <3>2, <1>2, <1>6, Zenon DEF WellFormed
  <2>2. OnStack(spans, lastStackTrace, 0)
    BY <1>2, Zenon DEF OnStack
  <2>3. Hanging(spans, lastStackTrace, 0, 0)
    BY <1>2, Zenon DEF Hanging
  <2>4. Timed(spans, captured, captured) /\ Nested(spans)
    BY <1>2, Zenon DEF Timed, Nested
  <2>5. QED
    BY <2>1, <2>2, <2>3, <2>4, <1>2, Zenon DEF Stands, IsTree
<1>12. QED
  BY <1>1, <1>2, <1>8, <1>9, <1>10, <1>11, Zenon DEF TreeInv

\* For any frames, options, stack traces, and number of captures: however stack traces
\* follow each other in captureStackTrace, and whatever spans the application starts
\* and ends in between, TreeInv holds.
THEOREM TreeInvariant == SpansSpec => []TreeInv
<1>1. SpansInit => TreeInv
  BY TreeStarts, Zenon
<1>2. TreeInv /\ [SpansNext]_spansVars => TreeInv'
  <2>1. SUFFICES ASSUME TreeInv, [SpansNext]_spansVars PROVE TreeInv'
    BY Zenon
  <2>2. CASE \/ \E top \in HookFrames, stack \in Traces, d \in 0 .. MaxClock, internal \in BOOLEAN :
                   captureStackTrace(top \o stack, d, internal)
             \/ Shutdown
    BY <2>1, <2>2, CaptureSteps, Zenon
  <2>3. CASE UserSpanStart
    BY <2>1, <2>3, UserStartStep, Zenon
  <2>4. CASE \E s \in DOMAIN spans : UserSpanEnd(s)
    BY <2>1, <2>4, UserEndStep, Zenon
  <2>5. CASE ForeignDetach \/ ForeignAttach \/ Tick \/ UNCHANGED spansVars
    BY <2>1, <2>5, OtherSteps, Zenon
  <2>6. QED
    BY <2>1, <2>2, <2>3, <2>4, <2>5, Zenon DEF SpansNext
<1>3. QED
  BY <1>1, <1>2, PTL DEF SpansSpec

\* The tree has what SpansFollowTrace says.
LEMMA TreeFollows ==
  ASSUME TreeInv
  PROVE  SpansFollowTrace
<1> DEFINE sp == spans
           st == storage
           fr == lastStackTrace
           At(p, i) == st[p] = Scope(fr[i].span, TRUE)
<1>1. FramesOf(lastStackTrace) = trace
  BY Zenon DEF TreeInv
<1>q. ASSUME ~opt.sampled, ~foreign PROVE \A s \in Inferred : IsAttached(storage, s)
  <2>1. Quiet(spans, storage) /\ spans \in Seq(SpanRecord) /\ storage \in Seq(ScopeRecord)
    BY <1>q, Zenon DEF TreeInv, IsBase
  <2>2. DOMAIN spans = 1 .. Len(spans) /\ DOMAIN storage = 1 .. Len(storage)
    BY <2>1, SMT
  <2>3. QED
    BY <2>1, <2>2, Zenon DEF Quiet, ScopesStay, Inferred, IsAttached
<1>2. SUFFICES ASSUME opt.sampled, ~foreign
               PROVE  /\ {s \in Inferred : sp[s].state = "open"} = {fr[i].span : i \in DOMAIN fr}
                      /\ \A i \in DOMAIN fr : \E p \in DOMAIN st : At(p, i)
                      /\ \A p \in DOMAIN st : st[p].span \in Inferred => \E i \in DOMAIN fr : At(p, i)
                      /\ \A p, q \in DOMAIN st, i, j \in DOMAIN fr : At(p, i) /\ At(q, j) => (p < q <=> i > j)
  BY <1>1, <1>q, Zenon DEF SpansFollowTrace
<1>3. WellFormed(sp, st) /\ OnStack(sp, fr, 0)
  BY <1>2, Zenon DEF TreeInv, Stands, IsTree
<1>4. /\ DOMAIN sp = 1 .. Len(sp) /\ DOMAIN st = 1 .. Len(st) /\ DOMAIN fr = 1 .. Len(fr)
      /\ Len(sp) \in Nat /\ Len(st) \in Nat /\ Len(fr) \in Nat
      /\ 0 + 1 .. Len(fr) = 1 .. Len(fr) /\ 0 \notin 1 .. Len(sp)
  <2>1. sp \in Seq(SpanRecord) /\ st \in Seq(ScopeRecord) /\ fr \in Seq(FrameRecord)
    BY <1>3, Zenon DEF WellFormed, OnStack
  <2>2. QED
    BY <2>1, SMT
<1>5. /\ \A p \in 1 .. Len(st) : st[p] = Scope(st[p].span, TRUE)
      /\ \A p, q \in 1 .. Len(st) : p < q => st[p].span < st[q].span
      /\ \A p \in 1 .. Len(st) : st[p].span = 0 \/ (st[p].span \in 1 .. Len(sp) /\ sp[st[p].span].state = "open")
      /\ \A s \in 1 .. Len(sp) : sp[s].state = "open" => \E p \in 1 .. Len(st) : st[p].span = s
  BY <1>3, Zenon DEF WellFormed
<1>6. /\ \A i \in 1 .. Len(fr) : fr[i].span \in 1 .. Len(sp)
      /\ \A i \in 1 .. Len(fr) : sp[fr[i].span].inferred /\ sp[fr[i].span].state = "open"
      /\ \A i, j \in 1 .. Len(fr) : i < j => fr[i].span > fr[j].span
      /\ \A s \in 1 .. Len(sp) : sp[s].inferred /\ sp[s].state = "open" => \E i \in 1 .. Len(fr) : fr[i].span = s
  BY <1>3, <1>4, Zenon DEF OnStack
<1>7. \A s : s \in Inferred <=> s \in 1 .. Len(sp) /\ sp[s].inferred
  BY <1>4, Zenon DEF Inferred
<1>8. {s \in Inferred : sp[s].state = "open"} = {fr[i].span : i \in DOMAIN fr}
  <2>1. ASSUME NEW s \in Inferred, sp[s].state = "open" PROVE \E i \in DOMAIN fr : s = fr[i].span
    <3>1. s \in 1 .. Len(sp) /\ sp[s].inferred
      BY <1>7, Zenon
    <3>2. PICK i \in 1 .. Len(fr) : fr[i].span = s
      BY <3>1, <2>1, <1>6, Zenon
    <3>3. QED
      BY <3>2, <1>4, Zenon
  <2>2. ASSUME NEW i \in DOMAIN fr PROVE fr[i].span \in Inferred /\ sp[fr[i].span].state = "open"
    <3>1. i \in 1 .. Len(fr)
      BY <1>4, Zenon
    <3>2. fr[i].span \in 1 .. Len(sp) /\ sp[fr[i].span].inferred /\ sp[fr[i].span].state = "open"
      BY <3>1, <1>6, Zenon
    <3>3. QED
      BY <3>2, <1>7, Zenon
  <2>3. {s \in Inferred : sp[s].state = "open"} \subseteq {fr[i].span : i \in DOMAIN fr}
    BY <2>1, SMT
  <2>4. {fr[i].span : i \in DOMAIN fr} \subseteq {s \in Inferred : sp[s].state = "open"}
    BY <2>2, SMT
  <2>5. QED
    BY <2>3, <2>4, Zenon
<1>9. ASSUME NEW i \in DOMAIN fr PROVE \E p \in DOMAIN st : At(p, i)
  <2>1. fr[i].span \in 1 .. Len(sp) /\ sp[fr[i].span].state = "open"
    BY <1>4, <1>6, Zenon
  <2>2. PICK p \in 1 .. Len(st) : st[p].span = fr[i].span
    BY <2>1, <1>5, Zenon
  <2>3. st[p] = Scope(st[p].span, TRUE)
    BY <1>5, Zenon
  <2>4. QED
    BY <2>2, <2>3, <1>4, Zenon
<1>10. ASSUME NEW p \in DOMAIN st, st[p].span \in Inferred PROVE \E i \in DOMAIN fr : At(p, i)
  <2>1. st[p].span \in 1 .. Len(sp) /\ sp[st[p].span].inferred /\ st[p].span # 0
    BY <1>10, <1>4, <1>7, Zenon
  <2>2. sp[st[p].span].state = "open" /\ st[p] = Scope(st[p].span, TRUE)
    BY <2>1, <1>4, <1>5, Zenon
  <2>3. PICK i \in 1 .. Len(fr) : fr[i].span = st[p].span
    BY <2>1, <2>2, <1>6, Zenon
  <2>4. QED
    BY <2>2, <2>3, <1>4, Zenon
<1>11. ASSUME NEW p \in DOMAIN st, NEW q \in DOMAIN st, NEW i \in DOMAIN fr, NEW j \in DOMAIN fr, At(p, i), At(q, j)
       PROVE  p < q <=> i > j
  <2>1. st[p].span = fr[i].span /\ st[q].span = fr[j].span
    <3>1. \A x : Scope(x, TRUE).span = x
      BY SMT DEF Scope
    <3>2. QED
      BY <3>1, <1>11, Zenon
  <2> DEFINE a == fr[i].span
             b == fr[j].span
  <2>2. a \in Nat /\ b \in Nat /\ p \in Nat /\ q \in Nat /\ i \in Nat /\ j \in Nat
    <3>1. a \in 1 .. Len(sp) /\ b \in 1 .. Len(sp) /\ p \in 1 .. Len(st) /\ q \in 1 .. Len(st)
          /\ i \in 1 .. Len(fr) /\ j \in 1 .. Len(fr)
      BY <1>4, <1>6, Zenon
    <3>2. \A n, x : n \in Nat /\ x \in 1 .. n => x \in Nat
      BY SMT
    <3>3. QED
      BY <3>1, <3>2, <1>4, Zenon
  <2>3. (p < q => a < b) /\ (q < p => b < a) /\ (p = q => a = b)
    <3>1. (p < q => a < b) /\ (q < p => b < a)
      BY <2>1, <1>4, <1>5, Zenon
    <3>2. p = q => a = b
      BY <2>1, Zenon
    <3>3. QED
      BY <3>1, <3>2, Zenon
  <2>4. (i < j => a > b) /\ (j < i => b > a) /\ (i = j => a = b)
    <3>1. (i < j => a > b) /\ (j < i => b > a)
      BY <1>4, <1>6, Zenon
    <3>2. QED
      BY <3>1, Zenon
  <2> HIDE DEF a, b
  <2>5. QED
    BY <2>2, <2>3, <2>4, SMT
<1>12. QED
  BY <1>8, <1>9, <1>10, <1>11, Zenon

\* The tree has what ReportedSpansNest says.
LEMMA TreeNests ==
  ASSUME TreeInv
  PROVE  ReportedSpansNest
<1>1. /\ spans \in Seq(SpanRecord)
      /\ ~foreign /\ ~opt.sampled => Quiet(spans, storage)
      /\ ~foreign /\ opt.sampled => Nested(spans) /\ WellFormed(spans, storage)
  BY Zenon DEF TreeInv, Stands, IsTree, IsBase
<1>2. DOMAIN spans = 1 .. Len(spans) /\ Len(spans) \in Nat /\ "ended" # "dropped"
      /\ \A s \in 1 .. Len(spans) : spans[s].parent \in Nat /\ s # 0
  <2>1. \A s \in 1 .. Len(spans) : spans[s] \in SpanRecord
    BY <1>1, SMT
  <2>2. \A s \in 1 .. Len(spans) : spans[s].parent \in Nat
    BY <2>1, SMT DEF SpanRecord
  <2>3. DOMAIN spans = 1 .. Len(spans) /\ Len(spans) \in Nat /\ "ended" # "dropped" /\ \A s \in 1 .. Len(spans) : s # 0
    BY <1>1, SMT
  <2>4. QED
    BY <2>2, <2>3, Zenon
<1>3. NoOrphans
  <2>1. SUFFICES ASSUME ~foreign, NEW s \in 1 .. Len(spans), spans[s].state = "ended", spans[s].parent # 0,
                        spans[s].inferred \/ opt.minDuration = 0
                 PROVE  spans[spans[s].parent].state # "dropped"
    BY <1>2, Zenon DEF NoOrphans
  <2>2. CASE opt.sampled
    <3>1. Nested(spans)
      BY <2>1, <2>2, <1>1, Zenon
    <3>2. spans[s].state # "dropped"
      BY <2>1, <1>2, Zenon
    <3>3. QED
      BY <3>1, <3>2, <2>1, Zenon DEF Nested
  <2>3. CASE ~opt.sampled
    <3>1. Quiet(spans, storage)
      BY <2>1, <2>3, <1>1, Zenon
    <3>2. spans[s].parent <= Len(spans) /\ spans[s].parent \in Nat
      BY <3>1, <1>2, Zenon DEF Quiet
    <3>3. spans[s].parent \in 1 .. Len(spans)
      BY <3>2, <2>1, <1>2, SMT
    <3>4. QED
      BY <3>1, <3>3, Zenon DEF Quiet
  <2>4. QED
    BY <2>2, <2>3, Zenon
<1>4. TimesNest
  <2>1. SUFFICES ASSUME ~foreign, NEW s \in 1 .. Len(spans), spans[s].inferred, spans[s].state = "ended",
                        spans[s].parent \in 1 .. Len(spans), spans[spans[s].parent].inferred,
                        spans[spans[s].parent].state = "ended"
                 PROVE  /\ spans[spans[s].parent].start <= spans[s].start
                        /\ spans[s].end <= spans[spans[s].parent].end
    BY <1>2, Zenon DEF TimesNest, Inferred
  <2>2. CASE opt.sampled
    <3>1. Nested(spans) /\ spans[s].parent # 0
      BY <2>1, <2>2, <1>1, <1>2, Zenon
    <3>2. QED
      BY <3>1, <2>1, Zenon DEF Nested
  <2>3. CASE ~opt.sampled
    <3>1. Quiet(spans, storage)
      BY <2>1, <2>3, <1>1, Zenon
    <3>2. QED
      BY <3>1, <2>1, Zenon DEF Quiet
  <2>4. QED
    BY <2>2, <2>3, Zenon
<1>5. QED
  BY <1>3, <1>4, Zenon DEF ReportedSpansNest

\* As long as no other code touches the scopes of inferred spans: in a sampled request
\* the frames that the last stack trace left are exactly the ones with an open inferred
\* span, their scopes lie in the storage in the order of the stack, and no other
\* inferred span has a scope; in a request that is not sampled compareStackTraces takes
\* no scope back, so that each one it ever attached is still there.
THEOREM SpansFollow == SpansSpec => []SpansFollowTrace
<1>1. TreeInv => SpansFollowTrace
  BY TreeFollows, Zenon
<1>2. QED
  BY <1>1, TreeInvariant, PTL

\* An inferred span that is reported hangs under a span that is reported or open, and
\* lies within the time of its inferred parent, however endFrameSpan drops short spans
\* and shouldReduceFrame moves and drops the spans of one capture.
THEOREM SpansNest == SpansSpec => []ReportedSpansNest
<1>1. TreeInv => ReportedSpansNest
  BY TreeNests, Zenon
<1>2. QED
  BY <1>1, TreeInvariant, PTL

=============================================================================
