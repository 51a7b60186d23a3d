--------------------------- MODULE FunctionHooks ---------------------------
(***************************************************************************)
(* The instrumentation of functions in one PHP process.  hook() stores     *)
(* pairs of a pre and a post hook under the key of a function.  Internal   *)
(* functions get the wrapper internal_function_handler once per process;   *)
(* user functions are offered to registerObserverHandlers by the engine at *)
(* their first call in each request.  #[WithSpan] on a user function adds  *)
(* the two WithSpan handlers, whose metadata is kept for the life of the   *)
(* process.  The error callback runs the error handler of the PHP side.    *)
(*                                                                         *)
(* PHP code (bodies, hooks, handlers) may call functions, call hook(),     *)
(* throw, catch, exit, raise errors and hit a fatal error.  Arguments and  *)
(* return values are left out; a key stands for its hash.                  *)
(***************************************************************************)
EXTENDS Integers, Sequences, FiniteSets

CONSTANTS Internal,    \* internal functions
          User,        \* user functions and methods
          Interface,   \* methods of interfaces, which are hooked but never called
          Implements,  \* the interface methods a user method implements, in order
          Spans,       \* possible contents of a #[WithSpan] attribute
          NoSpan,      \* no such attribute
          PairKinds,   \* which of the two closures hook() is given
          Deployments, \* what a request can find: the two options and the code
          MaxRequests, \* bound: requests of the process
          MaxHooks,    \* bound: calls of hook()
          MaxDepth     \* bound: depth of the call stack

Keys == Internal \cup User \cup Interface
None == "none"

\* Exceptions by who throws them.  exit() is one that nobody catches.
Exceptions == {"of body", "of hook"}

ASSUME KindsAssumption == PairKinds \subseteq [pre : BOOLEAN, post : BOOLEAN]
ASSUME DeploymentsAssumption ==
    Deployments \subseteq [config : [attr : BOOLEAN, all : BOOLEAN],
                           code : [User -> Spans \cup {NoSpan}]]
ASSUME ImplementsAssumption == Implements \in [User -> Seq(Interface)]
ASSUME SpansAssumption == NoSpan \notin Spans
ASSUME DisjointAssumption ==
    Internal \cap User = {} /\ Interface \cap (Internal \cup User) = {}
ASSUME BoundsAssumption == {MaxRequests, MaxHooks, MaxDepth} \subseteq Nat

VARIABLES
    request,       \* "outside", "bootstrapping" or "running"
    requests,      \* history: number of requests
    functional,    \* bootstrapSuccessfull_
    config,        \* the snapshot's attr_hooks_enabled and debug_instrument_all
    code,          \* the #[WithSpan] of the code of each user function
    registered,    \* history: calls of hook()
    hooks,         \* hooksStorage_
    handler,       \* the engine's handler of each internal function
    originals,     \* InternalFunctionInstrumentationStorage
    spans,         \* AttrHooksStorage
    observed,      \* the handlers the engine keeps for each user function
    stack,         \* call frames
    exception,     \* EG(exception)
    errorHandling  \* the static flag of otel_observer_error_cb

scopeVars == <<request, requests, functional, config, code>>
storageVars == <<registered, hooks, handler, originals, spans, observed>>
vars == <<scopeVars, storageVars, stack, exception, errorHandling>>

\* The smallest of a set of positions, if there is one.
First(S) == {i \in S : \A j \in S : i <= j}

NotYet == [begin |-> FALSE, end |-> FALSE, known |-> FALSE]

-----------------------------------------------------------------------------
(* Frames *)

\* The frame of a call.  saved is what AutomaticExceptionStateRestorer holds; the
\* last six fields are history: the number of hook() calls before the call, how
\* often the body ran and what it threw, the hooks that ran and the span begun.
Frame(f, step, ends) ==
    [f |-> f, step |-> step, ends |-> ends, at |-> 1, saved |-> None,
     born |-> registered, ran |-> IF step = "body" THEN 1 ELSE 0, left |-> None,
     pres |-> <<>>, posts |-> <<>>, span |-> NoSpan, spanEnded |-> FALSE]

Top == stack[Len(stack)]
Below == SubSeq(stack, 1, Len(stack) - 1)
Replace(frame) == [stack EXCEPT ![Len(stack)] = frame]

\* Steps of a frame in which PHP code runs.
CodeSteps == {"inPre", "inSpanPre", "body", "inPost", "inSpanPost", "error"}

\* PHP code runs: the main script or entry point, or the code of the top frame.
PhpRuns ==
    /\ request # "outside"
    /\ stack # <<>> => Top.step \in CodeSteps

\* PHP code goes on with its next statement.
PhpContinues == PhpRuns /\ exception = None

-----------------------------------------------------------------------------
(* Requests *)

\* Request startup: the engine forgets the observer handlers, resetRequest clears
\* the hooks, the configuration is taken over and the current code is loaded.  The
\* distro may be disabled or leave the request alone.
RequestInit(bootstraps, deployed) ==
    /\ request = "outside"
    /\ requests < MaxRequests
    /\ requests' = requests + 1
    /\ request' = IF bootstraps THEN "bootstrapping" ELSE "running"
    /\ config' = deployed.config
    /\ code' = deployed.code
    /\ functional' = FALSE
    /\ hooks' = [k \in Keys |-> <<>>]
    /\ observed' = [f \in User |-> NotYet]
    /\ UNCHANGED <<registered, handler, originals, spans, stack, exception, errorHandling>>

\* bootstrapPHPSideInstrumentation returns; it fails if an exception comes out.
Bootstrapped(success) ==
    /\ request = "bootstrapping"
    /\ stack = <<>>
    /\ success => exception = None
    /\ request' = "running"
    /\ functional' = success
    /\ exception' = None
    /\ UNCHANGED <<requests, config, code, storageVars, stack, errorHandling>>

\* The script and the exit point of the PHP side have ended; onRequestPostDeactivate.
RequestEnd ==
    /\ request = "running"
    /\ stack = <<>>
    /\ request' = "outside"
    /\ functional' = FALSE
    /\ hooks' = [k \in Keys |-> <<>>]
    /\ exception' = None
    /\ UNCHANGED <<requests, config, code, registered, handler, originals, spans,
                   observed, stack, errorHandling>>

-----------------------------------------------------------------------------
(* hook() *)

\* Mutant of OriginalOf: the handler is replaced before it is stored.
OriginalOfPatched(f) == IF originals[f] = None THEN "wrapper" ELSE originals[f]

\* InternalFunctionInstrumentationStorage::store keeps what it has.
OriginalOf(f) == IF originals[f] = None THEN handler[f] ELSE originals[f]

\* instrumentFunction: the pair is appended to those of the function, and an
\* internal function gets the wrapper.  late is history: the engine has already
\* asked for the observers of this function.
Hook(k, kind) ==
    /\ PhpContinues
    /\ registered < MaxHooks
    /\ registered' = registered + 1
    /\ hooks' = [hooks EXCEPT ![k] =
           Append(@, [n |-> registered + 1, pre |-> kind.pre, post |-> kind.post,
                      late |-> k \in User /\ observed[k].known])]
    /\ IF k \in Internal /\ handler[k] # "wrapper"
       THEN /\ originals' = [originals EXCEPT ![k] = OriginalOf(k)]
            /\ handler' = [handler EXCEPT ![k] = "wrapper"]
       ELSE UNCHANGED <<originals, handler>>
    /\ UNCHANGED <<scopeVars, spans, observed, stack, exception, errorHandling>>

-----------------------------------------------------------------------------
(* registerObserverHandlers *)

\* Mutant of HandlersFor: the search stops at the first pair with a hook.
HandlersOfFirst(list, spanned) ==
    [begin |-> spanned \/ (list # <<>> /\ list[1].pre),
     end |-> spanned \/ (list # <<>> /\ list[1].post), known |-> TRUE]

\* Which of the two observer handlers the engine is given.
HandlersFor(list, spanned) ==
    [begin |-> spanned \/ \E i \in DOMAIN list : list[i].pre,
     end |-> spanned \/ \E i \in DOMAIN list : list[i].post, known |-> TRUE]

\* The hooks of a method without hooks of its own: those of the first of its
\* interfaces that has some.
FromInterface(f) ==
    LET hooked == {i \in DOMAIN Implements[f] : hooks[Implements[f][i]] # <<>>}
    IN  IF First(hooked) = {} THEN <<>>
        ELSE hooks[Implements[f][CHOOSE i \in First(hooked) : TRUE]]

\* The pair of PhpPartFacade::debugPreHook and debugPostHook.
DebugPair == [n |-> 0, pre |-> TRUE, post |-> TRUE, late |-> FALSE]

\* The hooks of f when its observer handlers have been determined.
HooksWhenObserved(f) ==
    LET found == IF hooks[f] # <<>> THEN hooks[f] ELSE FromInterface(f)
    IN  IF config.all /\ functional THEN <<DebugPair>> \o found ELSE found

Spanned(f) == config.attr /\ code[f] # NoSpan

\* Mutant of SpanStored: an entry is never overwritten.
SpanEmplaced(f) == IF Spanned(f) /\ spans[f] = NoSpan THEN code[f] ELSE spans[f]

\* AttrHooksStorage::store overwrites.
SpanStored(f) == IF Spanned(f) THEN code[f] ELSE spans[f]

\* The engine asks for observers at the first call of a function in a request.
Observe(f) ==
    IF observed[f].known
    THEN UNCHANGED <<hooks, spans, observed>>
    ELSE /\ hooks' = [hooks EXCEPT ![f] = HooksWhenObserved(f)]
         /\ spans' = [spans EXCEPT ![f] = SpanStored(f)]
         /\ observed' = [observed EXCEPT ![f] = HandlersFor(hooks'[f], Spanned(f))]

-----------------------------------------------------------------------------
(* Calls *)

\* internal_function_handler up to its first loop, or the plain original.  Without
\* an original handler it returns at once.
CallInternal(f) ==
    LET wrapped == handler[f] = "wrapper"
        lost == wrapped /\ originals[f] # "original"
        plain == ~wrapped \/ ~functional \/ hooks[f] = <<>>
        step == IF lost THEN "return" ELSE IF plain THEN "body" ELSE "pre"
    IN  /\ PhpContinues
        /\ Len(stack) < MaxDepth
        /\ stack' = Append(stack, Frame(f, step, step = "pre"))
        /\ UNCHANGED <<scopeVars, storageVars, exception, errorHandling>>

\* The engine's call of a user function with its begin handler, if there is one.
CallUser(f) ==
    /\ PhpContinues
    /\ Len(stack) < MaxDepth
    /\ Observe(f)
    /\ stack' = Append(stack, Frame(f, IF observed'[f].begin THEN "pre" ELSE "body",
                                    observed'[f].end))
    /\ UNCHANGED <<scopeVars, registered, handler, originals, exception, errorHandling>>

\* The frame's hooks from position at on that have the closure of this side.
Remaining(side) ==
    {i \in Top.at .. Len(hooks[Top.f]) : hooks[Top.f][i][side]}

\* The WithSpan handlers run for this function.
SpanHandlersRun(f) == f \in User /\ spans[f] # NoSpan /\ functional

\* The loop over the pre hooks: AutomaticExceptionStateRestorer takes the
\* exception and the next hook starts; after the last one the WithSpan handler, if
\* any, and the body.
NextPre ==
    /\ stack # <<>>
    /\ Top.step = "pre"
    /\ \/ /\ \E i \in First(Remaining("pre")) :
                stack' = Replace([Top EXCEPT !.step = "inPre", !.at = i, !.saved = exception,
                                             !.pres = Append(@, hooks[Top.f][i].n)])
          /\ exception' = None
       \/ /\ Remaining("pre") = {}
          /\ SpanHandlersRun(Top.f)
          /\ stack' = Replace([Top EXCEPT !.step = "inSpanPre", !.saved = exception,
                                          !.span = spans[Top.f]])
          /\ exception' = None
       \/ /\ Remaining("pre") = {}
          /\ ~SpanHandlersRun(Top.f)
          /\ stack' = Replace([Top EXCEPT !.step = "body", !.ran = @ + 1])
          /\ UNCHANGED exception
    /\ UNCHANGED <<scopeVars, storageVars, errorHandling>>

\* The loop over the post hooks and the WithSpan handler after it.
NextPost ==
    /\ stack # <<>>
    /\ Top.step = "post"
    /\ \/ /\ \E i \in First(Remaining("post")) :
                stack' = Replace([Top EXCEPT !.step = "inPost", !.at = i, !.saved = exception,
                                             !.posts = Append(@, hooks[Top.f][i].n)])
          /\ exception' = None
       \/ /\ Remaining("post") = {}
          /\ SpanHandlersRun(Top.f)
          /\ stack' = Replace([Top EXCEPT !.step = "inSpanPost", !.saved = exception,
                                          !.spanEnded = TRUE])
          /\ exception' = None
       \/ /\ Remaining("post") = {}
          /\ ~SpanHandlersRun(Top.f)
          /\ stack' = Replace([Top EXCEPT !.step = "return"])
          /\ UNCHANGED exception
    /\ UNCHANGED <<scopeVars, storageVars, errorHandling>>

\* Mutant of Restored: the exception of the hook stays.
NotRestored(e) == IF e = None THEN Top.saved ELSE e

\* What handleAndReleaseHookException and the restorer make of a hook's exception.
Restored(e) == Top.saved

\* PHP code ends with e: the exception it does not catch, or thrown if it throws now.
EndsWith(e, thrown) == IF exception = None THEN e \in {None, thrown} ELSE e = exception

\* A hook or WithSpan handler ends.
EndHook(e) ==
    /\ PhpRuns
    /\ stack # <<>>
    /\ EndsWith(e, "of hook")
    /\ \/ /\ Top.step = "inPre"
          /\ stack' = Replace([Top EXCEPT !.step = "pre", !.at = @ + 1, !.saved = None])
       \/ /\ Top.step = "inSpanPre"
          /\ stack' = Replace([Top EXCEPT !.step = "body", !.ran = @ + 1, !.saved = None])
       \/ /\ Top.step = "inPost"
          /\ stack' = Replace([Top EXCEPT !.step = "post", !.at = @ + 1, !.saved = None])
       \/ /\ Top.step = "inSpanPost"
          /\ stack' = Replace([Top EXCEPT !.step = "return", !.saved = None])
    /\ exception' = Restored(e)
    /\ UNCHANGED <<scopeVars, storageVars, errorHandling>>

\* The body ends, the post hooks follow if the function has an end handler.
EndBody(e) ==
    /\ PhpRuns
    /\ stack # <<>>
    /\ Top.step = "body"
    /\ EndsWith(e, "of body")
    /\ stack' = Replace([Top EXCEPT !.step = IF Top.ends THEN "post" ELSE "return",
                                    !.at = 1, !.left = e])
    /\ exception' = e
    /\ UNCHANGED <<scopeVars, storageVars, errorHandling>>

\* The call returns to the code below it.
Return ==
    /\ stack # <<>>
    /\ Top.step = "return"
    /\ stack' = Below
    /\ UNCHANGED <<scopeVars, storageVars, exception, errorHandling>>

\* PHP code catches an exception that came out of a call.
Catch ==
    /\ PhpRuns
    /\ exception # None
    /\ exception' = None
    /\ UNCHANGED <<scopeVars, storageVars, stack, errorHandling>>

-----------------------------------------------------------------------------
(* Errors *)

\* otel_observer_error_cb gets to the handler: none is running, and the running
\* function has no hooks, whose post hook would see the error.
HandlesError ==
    /\ ~errorHandling
    /\ (stack # <<>> /\ Top.step = "body") => hooks[Top.f] = <<>>

\* PHP code raises an error, and the error handler of the PHP side starts.
RaiseError ==
    /\ PhpContinues
    /\ Len(stack) < MaxDepth
    /\ HandlesError
    /\ errorHandling' = TRUE
    /\ stack' = Append(stack, Frame(None, "error", FALSE))
    /\ UNCHANGED <<scopeVars, storageVars, exception>>

\* The error handler ends; callMethod restores the exception, which was none.
EndErrorHandler(e) ==
    /\ PhpRuns
    /\ stack # <<>>
    /\ Top.step = "error"
    /\ EndsWith(e, "of hook")
    /\ errorHandling' = FALSE
    /\ stack' = Below
    /\ exception' = None
    /\ UNCHANGED <<scopeVars, storageVars>>

\* A fatal error jumps out of all C++ and PHP frames; in the bootstrap also out of
\* onRequestInit.
Bailout ==
    /\ PhpContinues
    /\ stack # <<>>
    /\ stack' = <<>>
    /\ request' = "running"
    /\ UNCHANGED <<requests, functional, config, code, storageVars, exception, errorHandling>>

-----------------------------------------------------------------------------
Init ==
    /\ request = "outside"
    /\ requests = 0
    /\ functional = FALSE
    /\ config = [attr |-> FALSE, all |-> FALSE]
    /\ code = [f \in User |-> NoSpan]
    /\ registered = 0
    /\ hooks = [k \in Keys |-> <<>>]
    /\ handler = [f \in Internal |-> "original"]
    /\ originals = [f \in Internal |-> None]
    /\ spans = [f \in User |-> NoSpan]
    /\ observed = [f \in User |-> NotYet]
    /\ stack = <<>>
    /\ exception = None
    /\ errorHandling = FALSE

Next ==
    \/ \E bootstraps \in BOOLEAN, d \in Deployments : RequestInit(bootstraps, d)
    \/ \E success \in BOOLEAN : Bootstrapped(success)
    \/ RequestEnd
    \/ \E k \in Keys, kind \in PairKinds : Hook(k, kind)
    \/ \E f \in Internal : CallInternal(f)
    \/ \E f \in User : CallUser(f)
    \/ NextPre
    \/ NextPost
    \/ \E e \in Exceptions \cup {None} : EndHook(e) \/ EndBody(e) \/ EndErrorHandler(e)
    \/ Return
    \/ Catch
    \/ RaiseError
    \/ Bailout

Spec == Init /\ [][Next]_vars

-----------------------------------------------------------------------------
(* Properties *)

Pairs == [n : 0 .. MaxHooks, pre : BOOLEAN, post : BOOLEAN, late : BOOLEAN]
MaybeException == Exceptions \cup {None}
Frames ==
    [f : Internal \cup User \cup {None}, step : CodeSteps \cup {"pre", "post", "return"},
     ends : BOOLEAN, at : Nat \ {0}, saved : MaybeException, born : 0 .. MaxHooks,
     ran : 0 .. 1, left : MaybeException, pres : Seq(0 .. MaxHooks),
     posts : Seq(0 .. MaxHooks), span : Spans \cup {NoSpan}, spanEnded : BOOLEAN]

\* Every variable stays in its domain, and the stack within its bound.
TypeOK ==
    /\ request \in {"outside", "bootstrapping", "running"}
    /\ requests \in 0 .. MaxRequests
    /\ functional \in BOOLEAN
    /\ config \in [attr : BOOLEAN, all : BOOLEAN]
    /\ code \in [User -> Spans \cup {NoSpan}]
    /\ registered \in 0 .. MaxHooks
    /\ hooks \in [Keys -> Seq(Pairs)]
    /\ handler \in [Internal -> {"original", "wrapper"}]
    /\ originals \in [Internal -> {None, "original", "wrapper"}]
    /\ spans \in [User -> Spans \cup {NoSpan}]
    /\ observed \in [User -> [begin : BOOLEAN, end : BOOLEAN, known : BOOLEAN]]
    /\ stack \in Seq(Frames)
    /\ Len(stack) <= MaxDepth
    /\ exception \in MaybeException
    /\ errorHandling \in BOOLEAN

\* An instrumented call looks to its caller like the call without hooks: whatever
\* hooks, WithSpan handlers and functions called by them throw, the body starts
\* without a pending exception, and the call ends with the exception or exit() of
\* the body, which no hook replaces or loses (AutomaticExceptionStateRestorer).
ExceptionTransparent ==
    stack # <<>> =>
        /\ Top.step = "pre" => exception = None
        /\ Top.step \in {"post", "return"} => exception = Top.left

\* hook() was called before the call of the frame, and before the function's first
\* call in the request.
InTime(p, frame) == p.n <= frame.born /\ ~p.late

Increasing(seq) == \A i, j \in DOMAIN seq : i < j => seq[i] < seq[j]

\* The numbers seq of the hooks of one side of a list of pairs that the call of the
\* frame ran: none twice, and all that were in time.
RanAll(seq, list, side, frame) ==
    /\ Increasing(seq)
    /\ \A j \in DOMAIN seq : \E i \in DOMAIN list : list[i][side] /\ list[i].n = seq[j]
    /\ \A i \in DOMAIN list : list[i][side] /\ InTime(list[i], frame) =>
           \E j \in DOMAIN seq : seq[j] = list[i].n

\* A finished call has run each pre and each post hook that was registered in time
\* exactly once and in the order of registration, and no pre hook of such a pair
\* without its post hook; also for hooks of an interface, for pairs with only one
\* closure, and when hooks register hooks during the call.  Internal functions are
\* left alone until the bootstrap has succeeded.
PairsRun ==
    (stack # <<>> /\ Top.step = "return" /\ (Top.f \in User \/ functional)) =>
        /\ RanAll(Top.pres, hooks[Top.f], "pre", Top)
        /\ RanAll(Top.posts, hooks[Top.f], "post", Top)

\* A finished call of a function with #[WithSpan] has begun and ended a span with
\* the attribute of the code that ran, also after a deploy changed it under a
\* running worker (AttrHooksStorage).
SpanIsCurrent ==
    (stack # <<>> /\ Top.step = "return" /\ Top.f \in User /\ functional /\ Spanned(Top.f)) =>
        Top.span = code[Top.f] /\ Top.spanEnded

\* A call never loses its function: when it is finished, the body has run once.
OriginalRuns ==
    (stack # <<>> /\ Top.step = "return") => Top.ran = 1

\* Errors raised by the error handler, or by anything it calls, do not start it again.
OneErrorHandler == Cardinality({i \in DOMAIN stack : stack[i].step = "error"}) <= 1
=============================================================================
