-------------------------- MODULE InferredSpanTree --------------------------
(***************************************************************************)
(* The PHP side of inferred spans (InferredSpans.php): every interrupt     *)
(* brings a stack trace, which is compared with the previous one; frames   *)
(* that left the stack end their spans, new frames start spans.  The spans *)
(* are attached to OpenTelemetry's context storage, which the application  *)
(* and other instrumentation use at the same time.                         *)
(***************************************************************************)
EXTENDS Naturals, Sequences, FiniteSetsExt, SequencesExt

CONSTANTS
    Frames,       \* frames of the application (class, function, file, line)
    ApmFrame,     \* any frame of the distro or of the OpenTelemetry SDK
    HookFrames,   \* what may lie on the application's frames while a hook runs
    Options,      \* the combinations of options to check
    MaxDepth,     \* bound: frames in a stack trace
    MaxCaptures,  \* bound: interrupts
    MaxUser,      \* bound: actions of the application on the storage
    MaxClock      \* bound: time

ASSUME DepthAssumption == MaxDepth \in Nat \ {0}
ASSUME HookAssumption == HookFrames \subseteq Seq(Frames \cup {ApmFrame})
ASSUME OptionsAssumption ==
    Options \subseteq [reduction : BOOLEAN, minDuration : Nat, canSetParent : BOOLEAN,
                       sampled : BOOLEAN, foreign : BOOLEAN]

VARIABLES
    opt,             \* options and what the SDK and the engine decide once
    lastStackTrace,  \* frames with their spans, innermost first
    stackTraceId,
    shutdown,
    spans,           \* every span ever started, in order
    storage,         \* attached scopes, the current one last
    clock,
    captured,        \* time of the last compareStackTraces
    trace,           \* history: frames that the last capture left on the stack
    user,            \* number of actions of the application so far
    foreign          \* history: someone else touched a scope of an inferred span

spansVars == <<opt, lastStackTrace, stackTraceId, shutdown, spans, storage, clock,
          captured, trace, user, foreign>>

(***************************************************************************)
(* OpenTelemetry's context storage: a scope holds a context, and a context *)
(* is named by its span (0 stands for the root span's).  "own" tells the   *)
(* scope attached when the span started from a later one of the same       *)
(* context.  detach() takes a scope out wherever it is.                    *)
(***************************************************************************)
Scope(s, own) == [span |-> s, own |-> own]

RootScope == Scope(0, TRUE)

Current(st) == IF st = <<>> THEN 0 ELSE Last(st).span

IsAttached(st, s) == \E i \in DOMAIN st : st[i] = Scope(s, TRUE)

Detach(st, s) ==
    IF IsAttached(st, s) THEN RemoveAt(st, CHOOSE i \in DOMAIN st : st[i] = Scope(s, TRUE)) ELSE st

NewSpan(inferred, parent, start) ==
    [inferred |-> inferred, parent |-> parent, start |-> start, end |-> start, state |-> "open"]

\* Span::end does nothing on a span that has ended.
EndAt(sp, s, time) ==
    IF sp[s].state = "open"
    THEN [sp EXCEPT ![s].state = "ended", ![s].end = time]
    ELSE sp

SpansInit ==
    /\ opt \in Options
    /\ lastStackTrace = <<>>
    /\ stackTraceId = 0
    /\ shutdown = FALSE
    /\ spans = <<>>
    /\ storage = <<RootScope>>
    /\ clock = 0
    /\ captured = 0
    /\ trace = <<>>
    /\ user = 0
    /\ foreign = FALSE

-----------------------------------------------------------------------------
(***************************************************************************)
(* compareStackTraces works on w: the spans and the storage so far, the    *)
(* frames kept, and the two variables that shouldReduceFrame passes from   *)
(* one frame to the next.  old is lastStackTrace at the start.             *)
(***************************************************************************)

shouldDropTooShortSpan(sp, s, time) ==
    /\ opt.minDuration > 0
    /\ time - sp[s].start < opt.minDuration

Settle(w, s, dropSpan, time) ==
    IF dropSpan \/ shouldDropTooShortSpan(w.spans, s, time)
    THEN [w EXCEPT !.spans[s].state = IF @ = "open" THEN "dropped" ELSE @]
    ELSE [w EXCEPT !.spans = EndAt(@, s, time)]

endFrameSpan(w, s, dropSpan, time) ==
    LET detached == Detach(w.storage, s)
        settled  == Settle(w, s, dropSpan, time)
        dropped  == dropSpan \/ shouldDropTooShortSpan(w.spans, s, time)
    IN  CASE ~opt.sampled -> w    \* the span is no SDK span
          [] opt.sampled /\ ~dropped /\ IsAttached(w.storage, s) /\ Current(detached) = s
               -> [w EXCEPT !.storage = detached]
          [] OTHER -> [settled EXCEPT !.storage = detached]

\* The frames after the i-th that came with the same stack trace.
SameCapture(old, i, n) ==
    {j \in (i + 1)..n : \A k \in i..j : old[k].id = old[i].id}

\* Mutant: the span that stays keeps the parent that is dropped.
ReducesWithoutMove(w, old, i, n) ==
    [w EXCEPT !.drop = w.previousId = old[i].id, !.previousId = old[i].id]

shouldReduceFrame(w, old, i, n) ==
    LET drop    == w.previousId = old[i].id
        group   == SameCapture(old, i, n)
        moves   == ~drop /\ opt.sampled /\ group # {}
        parent  == w.spans[old[Max(group)].span].parent
        failed  == IF moves THEN ~opt.canSetParent ELSE w.failed
    IN  [w EXCEPT !.drop = drop /\ ~failed,
                  !.previousId = old[i].id,
                  !.failed = failed,
                  !.spans[old[i].span].parent = IF moves /\ opt.canSetParent THEN parent ELSE @]

endOldFrame(w, old, i, n, time) ==
    LET reduced == IF opt.reduction THEN shouldReduceFrame(w, old, i, n) ELSE w
    IN  endFrameSpan(reduced, old[i].span, reduced.drop, time)

\* The loop over the first n frames of old, innermost first.
endOldFrames(w, old, n, time) ==
    LET ended[i \in 0 .. n] == IF i = 0 THEN w ELSE endOldFrame(ended[i - 1], old, i, n, time)
    IN  ended[n]

startFrameSpan(w, parent, start) ==
    LET s == Len(w.spans) + 1
    IN  [w EXCEPT !.spans = Append(@, NewSpan(TRUE, parent, start)),
                  !.storage = Append(@, Scope(s, TRUE))]

startNewFrame(w, frame, usePrevious, start, isInternalTop) ==
    LET parent  == IF usePrevious /\ w.frames # <<>> THEN w.frames[1].span
                                                     ELSE Current(w.storage)
        started == startFrameSpan(w, parent, start)
        s       == Len(started.spans)
    IN  IF isInternalTop
        THEN endFrameSpan(started, s, FALSE, clock)
        ELSE [started EXCEPT !.frames =
                  Cons([frame |-> frame, span |-> s, id |-> stackTraceId + 1], @)]

\* The loop over the first n frames of new, outermost first.
startNewFrames(w, new, n, usePrevious, start, topFrameIsInternal) ==
    LET done[i \in 0 .. n] ==
            IF i = 0 THEN w
            ELSE startNewFrame(done[i - 1], new[n + 1 - i], i = 1 /\ usePrevious, start,
                               i = n /\ topFrameIsInternal)
    IN  done[n]

FramesOf(st) == [i \in DOMAIN st |-> st[i].frame]

\* Mutant: the innermost frame is never compared.
IdenticalBelowTop(new, old) ==
    Max({n \in 0..Min({Len(new), Len(old)}) :
            \A k \in 1..(n - 1) : new[Len(new) + 1 - k] = old[Len(old) + 1 - k]})

getHowManyStackFramesAreIdenticalFromStackBottom(new, old) ==
    Max({n \in 0..Min({Len(new), Len(old)}) :
            \A k \in 1..n : new[Len(new) + 1 - k] = old[Len(old) + 1 - k]})

compareStackTraces(new, durationMs, topFrameIsInternal, apmFramesFilteredOut) ==
    LET old       == lastStackTrace
        identical == getHowManyStackFramesAreIdenticalFromStackBottom(new, FramesOf(old))
        gone      == Len(old) - identical
        fresh     == Len(new) - identical
        startTime == clock - durationMs
        w0        == [spans |-> spans, storage |-> storage, frames |-> SubSeq(old, gone + 1, Len(old)),
                      previousId |-> 0, failed |-> FALSE, drop |-> FALSE]
        ended     == endOldFrames(w0, old, gone, IF topFrameIsInternal THEN startTime ELSE clock)
        done      == startNewFrames(ended, new, fresh, apmFramesFilteredOut, startTime, topFrameIsInternal)
    IN  /\ stackTraceId' = stackTraceId + 1
        /\ spans' = done.spans
        /\ storage' = done.storage
        /\ lastStackTrace' = done.frames
        /\ captured' = clock
        /\ trace' = IF topFrameIsInternal /\ fresh > 0 THEN Tail(new) ELSE new

\* The index, from zero, of the outermost frame of the distro or the SDK:
\* what lies above it is cut off.  No such frame: the trace stays.
filterOutAPMFrames(raw) ==
    LET apm == {i \in DOMAIN raw : raw[i] = ApmFrame}
    IN  IF apm = {} THEN [cutIndex |-> 0, frames |-> raw]
        ELSE [cutIndex |-> Max(apm) - 1, frames |-> SubSeq(raw, Max(apm) + 1, Len(raw))]

\* The catch of everything that comparing throws is left out: nothing that is
\* modelled throws.
captureStackTrace(raw, durationMs, topFrameIsInternal) ==
    LET filtered == filterOutAPMFrames(raw)
    IN  /\ ~shutdown
        /\ stackTraceId < MaxCaptures
        /\ durationMs <= clock - captured   \* one interrupt at a time
        /\ compareStackTraces(filtered.frames, durationMs, topFrameIsInternal, filtered.cutIndex > 0)
        /\ UNCHANGED <<opt, shutdown, clock, user, foreign>>

Shutdown ==
    /\ ~shutdown
    /\ shutdown' = TRUE
    /\ compareStackTraces(<<>>, 0, FALSE, FALSE)
    /\ UNCHANGED <<opt, clock, user, foreign>>

-----------------------------------------------------------------------------
(***************************************************************************)
(* The application and other instrumentation, as the distro meets them.    *)
(***************************************************************************)

\* A span of the application, active until UserSpanEnd.
UserSpanStart ==
    /\ user < MaxUser
    /\ ~shutdown
    /\ user' = user + 1
    /\ spans' = Append(spans, NewSpan(FALSE, Current(storage), clock))
    /\ storage' = Append(storage, Scope(Len(spans) + 1, TRUE))
    /\ UNCHANGED <<opt, lastStackTrace, stackTraceId, shutdown, clock, captured, trace, foreign>>

UserSpanEnd(s) ==
    /\ s \in DOMAIN spans
    /\ ~spans[s].inferred
    /\ spans[s].state = "open"
    /\ spans' = EndAt(spans, s, clock)
    /\ storage' = Detach(storage, s)
    /\ UNCHANGED <<opt, lastStackTrace, stackTraceId, shutdown, clock, captured, trace, user, foreign>>

\* A hook that takes Context::storage()->scope() for its own scope, detaches
\* it and ends its span.
ForeignDetach ==
    /\ opt.foreign
    /\ user < MaxUser
    /\ Len(storage) > 1
    /\ Last(storage).own
    /\ user' = user + 1
    /\ foreign' = TRUE
    /\ storage' = Front(storage)
    /\ spans' = EndAt(spans, Last(storage).span, clock)
    /\ UNCHANGED <<opt, lastStackTrace, stackTraceId, shutdown, clock, captured, trace>>

\* Code that attaches the current context again.
ForeignAttach ==
    /\ opt.foreign
    /\ user < MaxUser
    /\ Len(storage) > 1
    /\ user' = user + 1
    /\ foreign' = TRUE
    /\ storage' = Append(storage, Scope(Last(storage).span, FALSE))
    /\ UNCHANGED <<opt, lastStackTrace, stackTraceId, shutdown, spans, clock, captured, trace>>

Tick ==
    /\ clock < MaxClock
    /\ clock' = clock + 1
    /\ UNCHANGED <<opt, lastStackTrace, stackTraceId, shutdown, spans, storage, captured,
                   trace, user, foreign>>

\* A stack of the application, below the frames of a hook if it is in one.
Traces == UNION {[1..n -> Frames] : n \in 0..MaxDepth}

SpansNext ==
    \/ \E top \in HookFrames, stack \in Traces, d \in 0..MaxClock, internal \in BOOLEAN :
          captureStackTrace(top \o stack, d, internal)
    \/ Shutdown
    \/ UserSpanStart
    \/ \E s \in DOMAIN spans : UserSpanEnd(s)
    \/ ForeignDetach
    \/ ForeignAttach
    \/ Tick

SpansSpec == SpansInit /\ [][SpansNext]_spansVars

-----------------------------------------------------------------------------
Inferred == {s \in DOMAIN spans : spans[s].inferred}

(* What is still on the stack is what the last trace had, frame by frame;  *)
(* exactly these frames have an open span, and their scopes are in the     *)
(* storage in the order of the stack.  So after the shutdown() of a        *)
(* sampled request every inferred span was ended or dropped and no scope   *)
(* of one is left.  In a request that is not sampled endFrameSpan returns  *)
(* before it detaches: each scope that was ever attached stays, also after *)
(* shutdown().  Nothing is said once other code has detached a scope of an *)
(* inferred span or attached its context again.                            *)
SpansFollowTrace ==
    /\ FramesOf(lastStackTrace) = trace
    /\ opt.sampled /\ ~foreign =>
          LET At(p, i) == storage[p] = Scope(lastStackTrace[i].span, TRUE)
          IN  /\ {s \in Inferred : spans[s].state = "open"}
                   = {lastStackTrace[i].span : i \in DOMAIN lastStackTrace}
              /\ \A i \in DOMAIN lastStackTrace : \E p \in DOMAIN storage : At(p, i)
              /\ \A p \in DOMAIN storage :
                    storage[p].span \in Inferred => \E i \in DOMAIN lastStackTrace : At(p, i)
              /\ \A p, q \in DOMAIN storage, i, j \in DOMAIN lastStackTrace :
                    At(p, i) /\ At(q, j) => (p < q <=> i > j)
    /\ ~opt.sampled /\ ~foreign => \A s \in Inferred : IsAttached(storage, s)

(* A span that is reported hangs under a span that is reported or will be: *)
(* dropping the spans of frames that were seen together (span reduction)   *)
(* never cuts off a child, whoever started it, and dropping short spans    *)
(* cuts off no inferred one.                                               *)
NoOrphans ==
    ~foreign =>
        \A s \in DOMAIN spans :
            /\ spans[s].state = "ended"
            /\ spans[s].parent # 0
            /\ spans[s].inferred \/ opt.minDuration = 0
            => spans[spans[s].parent].state # "dropped"

(* A reported inferred span lies within the time of its reported inferred  *)
(* parent, although starts and ends are moved back to the interrupt.       *)
TimesNest ==
    ~foreign =>
        \A s \in Inferred :
            LET p == spans[s].parent
            IN  /\ spans[s].state = "ended"
                /\ p \in Inferred
                /\ spans[p].state = "ended"
                => spans[p].start <= spans[s].start /\ spans[s].end <= spans[p].end

(* The spans that InferredSpans.php reports form a tree whose parts lie    *)
(* within each other, however spans were reduced, moved back and ended.    *)
ReportedSpansNest == NoOrphans /\ TimesNest

=============================================================================
