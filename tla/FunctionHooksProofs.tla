------------------------ MODULE FunctionHooksProofs ------------------------
(***************************************************************************)
(* FunctionHooks for every set of functions, interfaces, attributes and    *)
(* deployments and every bound: type correctness, ExceptionTransparent,    *)
(* OriginalRuns and OneErrorHandler, which rest on an inductive invariant  *)
(* that is mostly about the call stack (IInv), then PairsRun and           *)
(* SpanIsCurrent, which need a second one about lists of hooks, observers  *)
(* and the progress of each call (PInv).                                   *)
(*                                                                         *)
(* The last part is about HookValues: what its two loops compute, by       *)
(* induction over their rounds, and that arguments, span attributes and    *)
(* return value follow the hooks (HookInv).                                *)
(***************************************************************************)
EXTENDS FunctionHooks, HookValues, FiniteSetTheorems, SequenceTheorems,
        NaturalsInduction, WellFoundedInduction, TLAPS

\* What holds of a frame wherever it is on the stack: its body has run or not
\* according to its step, and while a hook runs the restorer holds what the call
\* must end with.
FrameInv(frame) ==
    /\ frame.step # "error" => frame.f \in Internal \cup User
    /\ frame.step \in {"pre", "inPre", "inSpanPre"} => frame.ran = 0
    /\ frame.step \in {"body", "post", "inPost", "inSpanPost", "return"} => frame.ran = 1
    /\ frame.step \in {"inPre", "inSpanPre"} => frame.saved = None
    /\ frame.step \in {"inPost", "inSpanPost"} => frame.saved = frame.left

\* What holds of the top frame and EG(exception).
TopInv(frame, exc) ==
    /\ frame.step = "pre" => exc = None
    /\ frame.step \in {"post", "return"} => exc = frame.left

\* What holds of a stack st, the exception exc and the flag eh: only the top frame
\* may be between two pieces of PHP code, and a handler on the stack has set eh.
StackInv(st, exc, eh) ==
    /\ st \in Seq(Frames)
    /\ Len(st) <= MaxDepth
    /\ \A i \in 1 .. Len(st) : FrameInv(st[i])
    /\ \A i \in 1 .. Len(st) : i < Len(st) => st[i].step \in CodeSteps
    /\ st # <<>> => TopInv(st[Len(st)], exc)
    /\ \A i \in 1 .. Len(st) : st[i].step = "error" => eh
    /\ \A i, j \in 1 .. Len(st) : st[i].step = "error" /\ st[j].step = "error" => i = j

\* The wrapper is installed only where the original handler is known.
HandlersInv ==
    \A f \in Internal : /\ originals[f] # "wrapper"
                        /\ handler[f] = "wrapper" => originals[f] = "original"

IInv == TypeOK /\ StackInv(stack, exception, errorHandling) /\ HandlersInv

-----------------------------------------------------------------------------
(* Stacks *)

\* Replacing the top frame by one that fits the new exception keeps StackInv.
LEMMA StackReplace ==
    ASSUME NEW st, NEW exc, NEW eh, StackInv(st, exc, eh), st # <<>>,
           NEW frame \in Frames, FrameInv(frame), NEW exc2, TopInv(frame, exc2),
           frame.step # "error"
    PROVE  StackInv([st EXCEPT ![Len(st)] = frame], exc2, eh)
<1> DEFINE new == [st EXCEPT ![Len(st)] = frame]
<1>1. st \in Seq(Frames) /\ Len(st) \in Nat \ {0}
  BY DEF StackInv
<1>2. new \in Seq(Frames) /\ Len(new) = Len(st) /\ new # <<>>
  BY <1>1
<1>3. \A i \in 1 .. Len(new) : new[i] = IF i = Len(st) THEN frame ELSE st[i]
  BY <1>1, <1>2
<1>4. \A i \in 1 .. Len(new) : FrameInv(new[i])
  BY <1>1, <1>2, <1>3 DEF StackInv
<1>5. TopInv(new[Len(new)], exc2)
  BY <1>1, <1>2, <1>3
<1> HIDE DEF new
<1>6. StackInv(new, exc2, eh)
  BY <1>1, <1>2, <1>3, <1>4, <1>5 DEF StackInv
<1>7. QED
  BY <1>6 DEF new

\* Pushing a frame on running PHP code keeps StackInv; an error frame needs that no
\* handler was running, and sets the flag.
LEMMA StackPush ==
    ASSUME NEW st, NEW exc, NEW eh, StackInv(st, exc, eh),
           st # <<>> => st[Len(st)].step \in CodeSteps, Len(st) < MaxDepth,
           NEW frame \in Frames, FrameInv(frame), NEW exc2, TopInv(frame, exc2),
           NEW eh2, eh => eh2, frame.step = "error" => ~eh /\ eh2
    PROVE  StackInv(Append(st, frame), exc2, eh2)
<1> DEFINE new == Append(st, frame)
<1>1. st \in Seq(Frames) /\ Len(st) \in Nat /\ (Len(st) # 0 => st # <<>>)
  BY DEF StackInv
<1>2. new \in Seq(Frames) /\ Len(new) = Len(st) + 1
  BY <1>1
<1>3. \A i \in 1 .. Len(new) : new[i] = IF i = Len(st) + 1 THEN frame ELSE st[i]
  BY <1>1, <1>2
<1>4. \A i \in 1 .. Len(new) : FrameInv(new[i])
  BY <1>1, <1>2, <1>3 DEF StackInv
<1>5. TopInv(new[Len(new)], exc2)
  BY <1>1, <1>2, <1>3
<1>6. Len(new) <= MaxDepth
  BY <1>1, <1>2, BoundsAssumption
<1>7. \A i \in 1 .. Len(new) : i < Len(new) => new[i].step \in CodeSteps
  BY <1>1, <1>2, <1>3 DEF StackInv
<1>8. \A i \in 1 .. Len(new) : new[i].step = "error" => eh2
  BY <1>1, <1>2, <1>3 DEF StackInv
<1>9. \A i, j \in 1 .. Len(new) : new[i].step = "error" /\ new[j].step = "error" => i = j
  BY <1>1, <1>2, <1>3 DEF StackInv
<1> HIDE DEF new
<1>10. StackInv(new, exc2, eh2)
  BY <1>2, <1>4, <1>5, <1>6, <1>7, <1>8, <1>9 DEF StackInv
<1>11. QED
  BY <1>10 DEF new

\* The error handler is pushed when the flag is not set, and sets it.
LEMMA StackPushHandler ==
    ASSUME IInv, ~errorHandling,
           stack # <<>> => stack[Len(stack)].step \in CodeSteps, Len(stack) < MaxDepth,
           NEW frame \in Frames, FrameInv(frame), NEW exc2, TopInv(frame, exc2)
    PROVE  StackInv(Append(stack, frame), exc2, TRUE)
<1> DEFINE st == stack
           eh == errorHandling
           yes == TRUE
<1>1. (eh => yes) /\ (frame.step = "error" => ~eh /\ yes)
  OBVIOUS
<1>2. /\ StackInv(st, exception, eh) /\ Len(st) < MaxDepth
      /\ st # <<>> => st[Len(st)].step \in CodeSteps
  BY DEF IInv
<1> HIDE DEF yes, eh, st
<1>3. StackInv(Append(st, frame), exc2, yes)
  BY <1>1, <1>2, StackPush
<1>4. QED
  BY <1>3 DEF yes, st

\* A sequence without its last element.
LEMMA FrontOfSeq ==
    ASSUME NEW S, NEW s \in Seq(S), s # <<>>
    PROVE  /\ SubSeq(s, 1, Len(s) - 1) \in Seq(S)
           /\ Len(SubSeq(s, 1, Len(s) - 1)) = Len(s) - 1
           /\ \A i \in 1 .. Len(s) - 1 : SubSeq(s, 1, Len(s) - 1)[i] = s[i]
<1>1. \A n \in 0 .. Len(s) : /\ SubSeq(s, 1, n) \in Seq(S)
                            /\ Len(SubSeq(s, 1, n)) = n
                            /\ \A i \in 1 .. n : SubSeq(s, 1, n)[i] = s[i]
  OBVIOUS
<1>2. Len(s) - 1 \in 0 .. Len(s)
  OBVIOUS
<1>3. QED
  BY <1>1, <1>2

\* Popping a frame keeps StackInv whatever the exception; popping the handler
\* permits to clear the flag.
LEMMA StackPop ==
    ASSUME NEW st, NEW exc, NEW eh, StackInv(st, exc, eh), st # <<>>, NEW exc2,
           NEW eh2, (eh => eh2) \/ st[Len(st)].step = "error"
    PROVE  StackInv(SubSeq(st, 1, Len(st) - 1), exc2, eh2)
<1> DEFINE new == SubSeq(st, 1, Len(st) - 1)
<1>1. st \in Seq(Frames) /\ Len(st) \in Nat \ {0}
  BY DEF StackInv
<1>2. new \in Seq(Frames) /\ Len(new) = Len(st) - 1
  BY <1>1, FrontOfSeq
<1>3. \A i \in 1 .. Len(new) : new[i] = st[i]
  BY <1>1, <1>2, FrontOfSeq
<1>4. \A i \in 1 .. Len(new) : FrameInv(new[i]) /\ new[i].step \in CodeSteps
  BY <1>1, <1>2, <1>3 DEF StackInv
<1>5. new # <<>> => TopInv(new[Len(new)], exc2)
  <2>1. new # <<>> => Len(new) \in 1 .. Len(new)
    BY <1>1, <1>2
  <2>2. QED
    BY <2>1, <1>4 DEF TopInv, CodeSteps
<1>6. Len(new) <= MaxDepth
  BY <1>1, <1>2, BoundsAssumption DEF StackInv
<1>7. \A i \in 1 .. Len(new) : new[i].step = "error" => eh2
  BY <1>1, <1>2, <1>3 DEF StackInv
<1>8. \A i, j \in 1 .. Len(new) : new[i].step = "error" /\ new[j].step = "error" => i = j
  BY <1>1, <1>2, <1>3 DEF StackInv
<1> HIDE DEF new
<1>9. StackInv(new, exc2, eh2)
  BY <1>2, <1>4, <1>5, <1>6, <1>7, <1>8 DEF StackInv
<1>10. QED
  BY <1>9 DEF new

\* The empty stack.
LEMMA StackEmpty ==
    ASSUME NEW exc, NEW eh
    PROVE  StackInv(<<>>, exc, eh)
BY BoundsAssumption DEF StackInv

\* The top frame is a frame with FrameInv and TopInv.
LEMMA TopFacts ==
    ASSUME IInv, stack # <<>>
    PROVE  /\ Top \in Frames /\ FrameInv(Top) /\ TopInv(Top, exception)
           /\ Len(stack) \in Nat \ {0}
<1>1. stack \in Seq(Frames) /\ Len(stack) \in Nat \ {0}
  BY DEF IInv, StackInv
<1>2. QED
  BY <1>1 DEF IInv, StackInv, Top

\* A new frame is a frame.
LEMMA FrameType ==
    ASSUME TypeOK, NEW f \in Internal \cup User \cup {None},
           NEW step \in CodeSteps \cup {"pre", "post", "return"}, NEW ends \in BOOLEAN
    PROVE  Frame(f, step, ends) \in Frames
BY DEF TypeOK, Frame, Frames, MaybeException

-----------------------------------------------------------------------------
(* The actions *)

\* The part of TypeOK that is not about the stack.
TypeRest ==
    /\ request \in {"outside", "bootstrapping", "running"}
    /\ requests \in 0 .. MaxRequests
    /\ functional \in BOOLEAN
    /\ config \in [attr : BOOLEAN, all : BOOLEAN]
    /\ code \in [User -> Spans \cup {NoSpan}]
    /\ registered \in 0 .. MaxHooks
    /\ hooks \in [Keys -> Seq(Pairs)]
    /\ handler \in [Internal -> {"original", "wrapper"}]
    /\ originals \in [Internal -> {None, "original", "wrapper"}]
    /\ spans \in [User -> Spans \cup {NoSpan}]
    /\ observed \in [User -> [begin : BOOLEAN, end : BOOLEAN, known : BOOLEAN]]
    /\ exception \in MaybeException
    /\ errorHandling \in BOOLEAN

\* IInv has three parts.
LEMMA Parts ==
    IInv <=> TypeRest /\ StackInv(stack, exception, errorHandling) /\ HandlersInv
BY DEF IInv, TypeOK, TypeRest, StackInv

\* An action that leaves the storages, the scope and the exception's type alone.
LEMMA RestUnchanged ==
    ASSUME IInv, UNCHANGED <<scopeVars, storageVars>>, exception' \in MaybeException,
           errorHandling' \in BOOLEAN, StackInv(stack', exception', errorHandling')
    PROVE  IInv'
<1>1. TypeRest' /\ HandlersInv'
  BY Parts DEF TypeRest, HandlersInv, scopeVars, storageVars, Keys
<1>2. QED
  BY <1>1, Parts DEF IInv, TypeOK, TypeRest, StackInv

\* Without hooks, and without observers.
LEMMA NothingHooked ==
    /\ [k \in Keys |-> <<>>] \in [Keys -> Seq(Pairs)]
    /\ [f \in User |-> NotYet] \in [User -> [begin : BOOLEAN, end : BOOLEAN, known : BOOLEAN]]
<1>1. <<>> \in Seq(Pairs)
  OBVIOUS
<1>2. NotYet \in [begin : BOOLEAN, end : BOOLEAN, known : BOOLEAN]
  BY DEF NotYet
<1>3. QED
  BY <1>1, <1>2

\* Requests: the stack is empty and stays so.
LEMMA RequestStep ==
    ASSUME IInv,
           \/ \E bootstraps \in BOOLEAN, d \in Deployments : RequestInit(bootstraps, d)
           \/ \E success \in BOOLEAN : Bootstrapped(success)
           \/ RequestEnd
    PROVE  IInv'
<1>1. ASSUME NEW b \in BOOLEAN, NEW d \in Deployments, RequestInit(b, d) PROVE IInv'
  <2>1. TypeRest'
    <3>1. /\ d.config \in [attr : BOOLEAN, all : BOOLEAN]
          /\ d.code \in [User -> Spans \cup {NoSpan}]
      BY DeploymentsAssumption
    <3>2. requests' \in 0 .. MaxRequests
      BY <1>1, Parts, BoundsAssumption DEF RequestInit, TypeRest
    <3>3. QED
      BY <1>1, <3>1, <3>2, Parts, NothingHooked DEF RequestInit, TypeRest
  <2>2. HandlersInv' /\ StackInv(stack', exception', errorHandling')
    BY <1>1, Parts DEF RequestInit, HandlersInv
  <2>3. QED
    BY <2>1, <2>2 DEF IInv, TypeOK, TypeRest, StackInv
<1>2. ASSUME NEW success \in BOOLEAN, Bootstrapped(success) PROVE IInv'
  <2>1. TypeRest' /\ HandlersInv'
    BY <1>2, Parts DEF Bootstrapped, TypeRest, HandlersInv, storageVars, MaybeException
  <2>2. StackInv(stack', exception', errorHandling')
    BY <1>2, StackEmpty DEF Bootstrapped
  <2>3. QED
    BY <2>1, <2>2 DEF IInv, TypeOK, TypeRest, StackInv
<1>3. ASSUME RequestEnd PROVE IInv'
  <2>1. TypeRest' /\ HandlersInv'
    BY <1>3, Parts, NothingHooked DEF RequestEnd, TypeRest, HandlersInv, MaybeException
  <2>2. StackInv(stack', exception', errorHandling')
    BY <1>3, StackEmpty DEF RequestEnd
  <2>3. QED
    BY <2>1, <2>2 DEF IInv, TypeOK, TypeRest, StackInv
<1>4. QED
  BY <1>1, <1>2, <1>3

\* hook() keeps the invariant; here the wrapper is installed.
LEMMA HookStep ==
    ASSUME IInv, NEW k \in Keys, NEW kind \in PairKinds, Hook(k, kind)
    PROVE  IInv'
<1> DEFINE pair == [n |-> registered + 1, pre |-> kind.pre, post |-> kind.post,
                    late |-> k \in User /\ observed[k].known]
<1>1. registered' \in 0 .. MaxHooks
  BY BoundsAssumption, Parts DEF Hook, TypeRest
<1>2. pair \in Pairs
  <2>1. registered + 1 \in 0 .. MaxHooks
    BY BoundsAssumption, Parts DEF Hook, TypeRest
  <2>2. kind.pre \in BOOLEAN /\ kind.post \in BOOLEAN
    BY KindsAssumption
  <2>3. (k \in User /\ observed[k].known) \in BOOLEAN
    BY Parts DEF TypeRest
  <2>4. QED
    BY <2>1, <2>2, <2>3 DEF Pairs
<1>3. hooks' \in [Keys -> Seq(Pairs)]
  <2>1. hooks[k] \in Seq(Pairs)
    BY Parts DEF TypeRest
  <2>2. Append(hooks[k], pair) \in Seq(Pairs)
    BY <1>2, <2>1
  <2>3. hooks' = [hooks EXCEPT ![k] = Append(hooks[k], pair)]
    BY DEF Hook
  <2>4. QED
    BY <2>2, <2>3, Parts DEF TypeRest
<1>4. /\ handler' \in [Internal -> {"original", "wrapper"}]
      /\ originals' \in [Internal -> {None, "original", "wrapper"}]
      /\ HandlersInv'
  BY Parts DEF Hook, TypeRest, HandlersInv, OriginalOf, None
<1>5. TypeRest'
  BY <1>1, <1>3, <1>4, Parts DEF Hook, TypeRest, scopeVars
<1>6. StackInv(stack', exception', errorHandling')
  BY Parts DEF Hook
<1>7. QED
  BY <1>4, <1>5, <1>6 DEF IInv, TypeOK, TypeRest, StackInv

\* The hooks of an observed function are pairs again.
LEMMA ObservedHooks ==
    ASSUME IInv, NEW f \in User
    PROVE  HooksWhenObserved(f) \in Seq(Pairs)
<1>1. hooks \in [Keys -> Seq(Pairs)] /\ config \in [attr : BOOLEAN, all : BOOLEAN]
  BY Parts DEF TypeRest
<1>2. FromInterface(f) \in Seq(Pairs)
  <2> DEFINE hooked == {i \in DOMAIN Implements[f] : hooks[Implements[f][i]] # <<>>}
  <2>1. CASE First(hooked) = {}
    BY <2>1 DEF FromInterface
  <2>2. CASE First(hooked) # {}
    <3>1. PICK i \in First(hooked) : i = CHOOSE j \in First(hooked) : TRUE
      BY <2>2
    <3>2. i \in DOMAIN Implements[f]
      BY <3>1 DEF First
    <3>3. Implements[f][i] \in Keys
      BY <3>2, ImplementsAssumption DEF Keys
    <3>4. FromInterface(f) = hooks[Implements[f][i]]
      BY <2>2, <3>1 DEF FromInterface
    <3>5. QED
      BY <1>1, <3>3, <3>4
  <2>3. QED
    BY <2>1, <2>2
<1>3. <<DebugPair>> \in Seq(Pairs)
  BY BoundsAssumption DEF DebugPair, Pairs
<1>4. hooks[f] \in Seq(Pairs)
  BY <1>1 DEF Keys
<1>5. QED
  BY <1>2, <1>3, <1>4 DEF HooksWhenObserved

\* The call of an internal function pushes a frame whose body has run or will run.
LEMMA CallInternalStep ==
    ASSUME IInv, NEW f \in Internal, CallInternal(f)
    PROVE  IInv'
<1>1. PICK step \in {"body", "pre"} : stack' = Append(stack, Frame(f, step, step = "pre"))
  BY Parts DEF CallInternal, HandlersInv
<1> DEFINE frame == Frame(f, step, step = "pre")
<1>2. frame \in Frames
  BY <1>1, FrameType DEF IInv, CodeSteps
<1>3. FrameInv(frame) /\ TopInv(frame, exception') /\ frame.step # "error"
  BY <1>1 DEF CallInternal, PhpContinues, Frame, FrameInv, TopInv
<1>4. stack # <<>> => stack[Len(stack)].step \in CodeSteps
  BY DEF CallInternal, PhpContinues, PhpRuns, Top
<1>5. Len(stack) < MaxDepth /\ UNCHANGED <<scopeVars, storageVars, exception, errorHandling>>
  BY DEF CallInternal
<1> HIDE DEF frame
<1>6. StackInv(stack', exception', errorHandling')
  BY <1>1, <1>2, <1>3, <1>4, <1>5, Parts, StackPush DEF frame
<1>7. QED
  BY <1>5, <1>6, Parts, RestUnchanged DEF TypeRest

\* The call of a user function observes it first.
LEMMA CallUserStep ==
    ASSUME IInv, NEW f \in User, CallUser(f)
    PROVE  IInv'
<1>1. /\ hooks' \in [Keys -> Seq(Pairs)]
      /\ spans' \in [User -> Spans \cup {NoSpan}]
      /\ observed' \in [User -> [begin : BOOLEAN, end : BOOLEAN, known : BOOLEAN]]
  <2>1. CASE observed[f].known
    BY <2>1, Parts DEF CallUser, Observe, TypeRest
  <2>2. CASE ~observed[f].known
    <3>1. hooks' \in [Keys -> Seq(Pairs)]
      BY <2>2, Parts, ObservedHooks DEF CallUser, Observe, TypeRest
    <3>2. SpanStored(f) \in Spans \cup {NoSpan}
      BY Parts DEF SpanStored, TypeRest
    <3>3. spans' \in [User -> Spans \cup {NoSpan}]
      BY <2>2, <3>2, Parts DEF CallUser, Observe, TypeRest
    <3>4. HandlersFor(hooks'[f], Spanned(f))
            \in [begin : BOOLEAN, end : BOOLEAN, known : BOOLEAN]
      BY DEF HandlersFor
    <3>5. observed' = [observed EXCEPT ![f] = HandlersFor(hooks'[f], Spanned(f))]
      BY <2>2 DEF CallUser, Observe
    <3>6. observed' \in [User -> [begin : BOOLEAN, end : BOOLEAN, known : BOOLEAN]]
      BY <3>4, <3>5, Parts DEF TypeRest
    <3>7. QED
      BY <3>1, <3>3, <3>6
  <2>3. QED
    BY <2>1, <2>2
<1>2. TypeRest' /\ HandlersInv'
  BY <1>1, Parts DEF CallUser, TypeRest, HandlersInv, scopeVars
<1>3. PICK step \in {"body", "pre"}, ends \in BOOLEAN :
        stack' = Append(stack, Frame(f, step, ends))
  BY <1>1 DEF CallUser
<1> DEFINE frame == Frame(f, step, ends)
<1>4. frame \in Frames
  BY <1>3, FrameType DEF IInv, CodeSteps
<1>5. FrameInv(frame) /\ TopInv(frame, exception') /\ frame.step # "error"
  BY <1>3 DEF CallUser, PhpContinues, Frame, FrameInv, TopInv
<1>6. stack # <<>> => stack[Len(stack)].step \in CodeSteps
  BY DEF CallUser, PhpContinues, PhpRuns, Top
<1>7. Len(stack) < MaxDepth /\ UNCHANGED <<exception, errorHandling>>
  BY DEF CallUser
<1> HIDE DEF frame
<1>8. StackInv(stack', exception', errorHandling')
  BY <1>3, <1>4, <1>5, <1>6, <1>7, Parts, StackPush DEF frame
<1>9. QED
  BY <1>2, <1>8 DEF IInv, TypeOK, TypeRest, StackInv

\* An action that replaces the top frame and leaves the storages alone.
LEMMA ReplaceStep ==
    ASSUME IInv, stack # <<>>, NEW frame \in Frames, stack' = Replace(frame),
           FrameInv(frame), TopInv(frame, exception'), frame.step # "error",
           exception' \in MaybeException,
           UNCHANGED <<scopeVars, storageVars, errorHandling>>
    PROVE  IInv'
<1>1. StackInv(stack', exception', errorHandling')
  BY Parts, StackReplace DEF Replace
<1>2. errorHandling' \in BOOLEAN
  BY Parts DEF TypeRest
<1>3. QED
  BY <1>1, <1>2, RestUnchanged

\* The loop over the pre hooks.
LEMMA NextPreStep ==
    ASSUME IInv, NextPre
    PROVE  IInv'
<1>1. Top \in Frames /\ FrameInv(Top) /\ exception = None /\ Top.step = "pre"
  BY TopFacts DEF NextPre, TopInv
<1>2. Top.f \in Internal \cup User /\ Top.ran = 0 /\ Top.saved \in MaybeException
  BY <1>1 DEF FrameInv, Frames
<1>3. /\ stack # <<>> /\ UNCHANGED <<scopeVars, storageVars, errorHandling>>
      /\ exception \in MaybeException /\ exception' \in MaybeException
  BY Parts DEF NextPre, TypeRest, MaybeException
<1>4. ASSUME NEW i \in First(Remaining("pre")), exception' = None,
             stack' = Replace([Top EXCEPT !.step = "inPre", !.at = i, !.saved = exception,
                                          !.pres = Append(@, hooks[Top.f][i].n)])
      PROVE  IInv'
  <2> DEFINE frame == [Top EXCEPT !.step = "inPre", !.at = i, !.saved = exception,
                                  !.pres = Append(@, hooks[Top.f][i].n)]
  <2>1. hooks[Top.f] \in Seq(Pairs)
    BY <1>2, Parts DEF TypeRest, Keys
  <2>2. i \in 1 .. Len(hooks[Top.f])
    BY <1>1, <2>1 DEF First, Remaining, Frames
  <2>3. hooks[Top.f][i] \in Pairs
    BY <2>1, <2>2
  <2>4. hooks[Top.f][i].n \in 0 .. MaxHooks
    BY <2>3 DEF Pairs
  <2>5. Append(Top.pres, hooks[Top.f][i].n) \in Seq(0 .. MaxHooks)
    BY <1>1, <2>4 DEF Frames
  <2>6. i \in Nat \ {0}
    BY <2>1, <2>2
  <2>7. frame \in Frames
    BY <1>1, <1>3, <2>5, <2>6 DEF Frames, CodeSteps
  <2>8. FrameInv(frame) /\ TopInv(frame, exception') /\ frame.step # "error"
    BY <1>1, <1>2 DEF FrameInv, TopInv, Frames
  <2>9. QED
    BY <1>3, <1>4, <2>7, <2>8, ReplaceStep
<1>5. ASSUME SpanHandlersRun(Top.f), exception' = None,
             stack' = Replace([Top EXCEPT !.step = "inSpanPre", !.saved = exception,
                                          !.span = spans[Top.f]])
      PROVE  IInv'
  <2> DEFINE frame == [Top EXCEPT !.step = "inSpanPre", !.saved = exception,
                                  !.span = spans[Top.f]]
  <2>1. spans[Top.f] \in Spans \cup {NoSpan}
    BY <1>5, Parts DEF TypeRest, SpanHandlersRun
  <2>2. frame \in Frames
    BY <1>1, <1>3, <2>1 DEF Frames, CodeSteps
  <2>3. FrameInv(frame) /\ TopInv(frame, exception') /\ frame.step # "error"
    BY <1>1, <1>2 DEF FrameInv, TopInv, Frames
  <2>4. QED
    BY <1>3, <1>5, <2>2, <2>3, ReplaceStep
<1>6. ASSUME exception' = exception,
             stack' = Replace([Top EXCEPT !.step = "body", !.ran = @ + 1])
      PROVE  IInv'
  <2> DEFINE frame == [Top EXCEPT !.step = "body", !.ran = @ + 1]
  <2>0. Top.ran + 1 \in 0 .. 1
    BY <1>2
  <2>1. frame \in Frames
    BY <1>1, <2>0 DEF Frames, CodeSteps
  <2>2. FrameInv(frame) /\ TopInv(frame, exception') /\ frame.step # "error"
    BY <1>1, <1>2, <1>6 DEF FrameInv, TopInv, Frames
  <2>3. QED
    BY <1>3, <1>6, <2>1, <2>2, ReplaceStep
<1>7. QED
  BY <1>4, <1>5, <1>6 DEF NextPre

\* The loop over the post hooks.
LEMMA NextPostStep ==
    ASSUME IInv, NextPost
    PROVE  IInv'
<1>1. Top \in Frames /\ FrameInv(Top) /\ exception = Top.left /\ Top.step = "post"
  BY TopFacts DEF NextPost, TopInv
<1>2. Top.f \in Internal \cup User /\ Top.ran = 1 /\ Top.saved \in MaybeException
  BY <1>1 DEF FrameInv, Frames
<1>3. /\ stack # <<>> /\ UNCHANGED <<scopeVars, storageVars, errorHandling>>
      /\ exception \in MaybeException /\ exception' \in MaybeException
  BY Parts DEF NextPost, TypeRest, MaybeException
<1>4. ASSUME NEW i \in First(Remaining("post")), exception' = None,
             stack' = Replace([Top EXCEPT !.step = "inPost", !.at = i, !.saved = exception,
                                          !.posts = Append(@, hooks[Top.f][i].n)])
      PROVE  IInv'
  <2> DEFINE frame == [Top EXCEPT !.step = "inPost", !.at = i, !.saved = exception,
                                  !.posts = Append(@, hooks[Top.f][i].n)]
  <2>1. hooks[Top.f] \in Seq(Pairs)
    BY <1>2, Parts DEF TypeRest, Keys
  <2>2. i \in 1 .. Len(hooks[Top.f])
    BY <1>1, <2>1 DEF First, Remaining, Frames
  <2>3. hooks[Top.f][i] \in Pairs
    BY <2>1, <2>2
  <2>4. hooks[Top.f][i].n \in 0 .. MaxHooks
    BY <2>3 DEF Pairs
  <2>5. Append(Top.posts, hooks[Top.f][i].n) \in Seq(0 .. MaxHooks)
    BY <1>1, <2>4 DEF Frames
  <2>6. i \in Nat \ {0}
    BY <2>1, <2>2
  <2>7. frame \in Frames
    BY <1>1, <1>3, <2>5, <2>6 DEF Frames, CodeSteps
  <2>8. FrameInv(frame) /\ TopInv(frame, exception') /\ frame.step # "error"
    BY <1>1, <1>2 DEF FrameInv, TopInv, Frames
  <2>9. QED
    BY <1>3, <1>4, <2>7, <2>8, ReplaceStep
<1>5. ASSUME SpanHandlersRun(Top.f), exception' = None,
             stack' = Replace([Top EXCEPT !.step = "inSpanPost", !.saved = exception,
                                          !.spanEnded = TRUE])
      PROVE  IInv'
  <2> DEFINE frame == [Top EXCEPT !.step = "inSpanPost", !.saved = exception,
                                  !.spanEnded = TRUE]
  <2>1. spans[Top.f] \in Spans \cup {NoSpan}
    BY <1>5, Parts DEF TypeRest, SpanHandlersRun
  <2>2. frame \in Frames
    BY <1>1, <1>3, <2>1 DEF Frames, CodeSteps
  <2>3. FrameInv(frame) /\ TopInv(frame, exception') /\ frame.step # "error"
    BY <1>1, <1>2 DEF FrameInv, TopInv, Frames
  <2>4. QED
    BY <1>3, <1>5, <2>2, <2>3, ReplaceStep
<1>6. ASSUME exception' = exception,
             stack' = Replace([Top EXCEPT !.step = "return"])
      PROVE  IInv'
  <2> DEFINE frame == [Top EXCEPT !.step = "return"]
  <2>1. frame \in Frames
    BY <1>1, <1>2 DEF Frames, CodeSteps
  <2>2. FrameInv(frame) /\ TopInv(frame, exception') /\ frame.step # "error"
    BY <1>1, <1>2, <1>6 DEF FrameInv, TopInv, Frames
  <2>3. QED
    BY <1>3, <1>6, <2>1, <2>2, ReplaceStep
<1>7. QED
  BY <1>4, <1>5, <1>6 DEF NextPost

\* A hook ends, and the restorer puts back what it holds.
LEMMA EndHookStep ==
    ASSUME IInv, NEW e \in Exceptions \cup {None}, EndHook(e)
    PROVE  IInv'
<1>1. Top \in Frames /\ FrameInv(Top) /\ stack # <<>>
  BY TopFacts DEF EndHook
<1>2. /\ exception' = Top.saved /\ exception' \in MaybeException
      /\ UNCHANGED <<scopeVars, storageVars, errorHandling>>
  BY <1>1 DEF EndHook, Restored, Frames
<1>3. None \in MaybeException
  BY DEF MaybeException
<1>4. ASSUME Top.step = "inPre",
             stack' = Replace([Top EXCEPT !.step = "pre", !.at = @ + 1, !.saved = None])
      PROVE  IInv'
  <2> DEFINE frame == [Top EXCEPT !.step = "pre", !.at = @ + 1, !.saved = None]
  <2>0. Top.at + 1 \in Nat \ {0}
    BY <1>1 DEF Frames
  <2>1. frame \in Frames
    BY <1>1, <1>3, <2>0 DEF Frames, CodeSteps
  <2>2. FrameInv(frame) /\ TopInv(frame, exception') /\ frame.step # "error"
    BY <1>1, <1>2, <1>4 DEF FrameInv, TopInv, Frames
  <2>3. QED
    BY <1>1, <1>2, <1>4, <2>1, <2>2, ReplaceStep
<1>5. ASSUME Top.step = "inSpanPre",
             stack' = Replace([Top EXCEPT !.step = "body", !.ran = @ + 1, !.saved = None])
      PROVE  IInv'
  <2> DEFINE frame == [Top EXCEPT !.step = "body", !.ran = @ + 1, !.saved = None]
  <2>1. Top.ran = 0 /\ Top.ran + 1 \in 0 .. 1
    BY <1>1, <1>5 DEF FrameInv
  <2>2. frame \in Frames
    BY <1>1, <1>3, <2>1 DEF Frames, CodeSteps
  <2>3. FrameInv(frame) /\ TopInv(frame, exception') /\ frame.step # "error"
    BY <1>1, <1>5, <2>1 DEF FrameInv, TopInv, Frames
  <2>4. QED
    BY <1>1, <1>2, <1>5, <2>2, <2>3, ReplaceStep
<1>6. ASSUME Top.step = "inPost",
             stack' = Replace([Top EXCEPT !.step = "post", !.at = @ + 1, !.saved = None])
      PROVE  IInv'
  <2> DEFINE frame == [Top EXCEPT !.step = "post", !.at = @ + 1, !.saved = None]
  <2>0. Top.at + 1 \in Nat \ {0}
    BY <1>1 DEF Frames
  <2>1. frame \in Frames
    BY <1>1, <1>3, <2>0 DEF Frames, CodeSteps
  <2>2. FrameInv(frame) /\ TopInv(frame, exception') /\ frame.step # "error"
    BY <1>1, <1>2, <1>6 DEF FrameInv, TopInv, Frames
  <2>3. QED
    BY <1>1, <1>2, <1>6, <2>1, <2>2, ReplaceStep
<1>7. ASSUME Top.step = "inSpanPost",
             stack' = Replace([Top EXCEPT !.step = "return", !.saved = None])
      PROVE  IInv'
  <2> DEFINE frame == [Top EXCEPT !.step = "return", !.saved = None]
  <2>1. frame \in Frames
    BY <1>1, <1>3 DEF Frames, CodeSteps
  <2>2. FrameInv(frame) /\ TopInv(frame, exception') /\ frame.step # "error"
    BY <1>1, <1>2, <1>7 DEF FrameInv, TopInv, Frames
  <2>3. QED
    BY <1>1, <1>2, <1>7, <2>1, <2>2, ReplaceStep
<1>8. QED
  BY <1>4, <1>5, <1>6, <1>7 DEF EndHook

\* The body ends: from now on left says how the call must end.
LEMMA EndBodyStep ==
    ASSUME IInv, NEW e \in Exceptions \cup {None}, EndBody(e)
    PROVE  IInv'
<1> DEFINE step == IF Top.ends THEN "post" ELSE "return"
           frame == [Top EXCEPT !.step = step, !.at = 1, !.left = e]
<1>1. Top \in Frames /\ FrameInv(Top) /\ stack # <<>> /\ Top.step = "body"
  BY TopFacts DEF EndBody
<1>2. /\ exception' = e /\ e \in MaybeException /\ stack' = Replace(frame)
      /\ UNCHANGED <<scopeVars, storageVars, errorHandling>>
  BY DEF EndBody, MaybeException
<1>3. frame \in Frames
  <2>1. step \in CodeSteps \cup {"pre", "post", "return"} /\ 1 \in Nat \ {0}
    OBVIOUS
  <2> HIDE DEF step
  <2>2. QED
    BY <1>1, <1>2, <2>1 DEF Frames
<1>4. FrameInv(frame) /\ TopInv(frame, exception') /\ frame.step # "error"
  BY <1>1, <1>2 DEF FrameInv, TopInv, Frames
<1> HIDE DEF frame
<1>5. QED
  BY <1>1, <1>2, <1>3, <1>4, ReplaceStep

\* Calls and the error handler return, exceptions are caught, fatal errors unwind.
LEMMA UnwindStep ==
    ASSUME IInv,
           \/ Return \/ Catch \/ Bailout
           \/ \E e \in Exceptions \cup {None} : EndErrorHandler(e)
    PROVE  IInv'
<1>1. ASSUME Return PROVE IInv'
  <2>1. StackInv(stack', exception', errorHandling')
    BY <1>1, Parts, StackPop DEF Return, Below
  <2>2. QED
    BY <1>1, <2>1, Parts, RestUnchanged DEF Return, TypeRest
<1>2. ASSUME Catch PROVE IInv'
  <2>1. stack # <<>> => Top.step \in CodeSteps
    BY <1>2 DEF Catch, PhpRuns
  <2>2. StackInv(stack', exception', errorHandling')
    BY <1>2, <2>1, Parts DEF Catch, StackInv, TopInv, Top, CodeSteps
  <2>3. QED
    BY <1>2, <2>2, Parts, RestUnchanged DEF Catch, TypeRest, MaybeException
<1>3. ASSUME Bailout PROVE IInv'
  <2>1. TypeRest' /\ HandlersInv'
    BY <1>3, Parts DEF Bailout, TypeRest, HandlersInv, storageVars
  <2>2. StackInv(stack', exception', errorHandling')
    BY <1>3, StackEmpty DEF Bailout
  <2>3. QED
    BY <2>1, <2>2 DEF IInv, TypeOK, TypeRest, StackInv
<1>4. ASSUME NEW e \in Exceptions \cup {None}, EndErrorHandler(e) PROVE IInv'
  <2>1. StackInv(stack', exception', errorHandling')
    BY <1>4, Parts, StackPop DEF EndErrorHandler, Below, Top
  <2>2. QED
    BY <1>4, <2>1, RestUnchanged DEF EndErrorHandler, MaybeException
<1>5. QED
  BY <1>1, <1>2, <1>3, <1>4

\* The error callback starts the handler only when none is on the stack.
LEMMA RaiseErrorStep ==
    ASSUME IInv, RaiseError
    PROVE  IInv'
<1> DEFINE frame == Frame(None, "error", FALSE)
<1>1. frame \in Frames
  BY FrameType DEF IInv, CodeSteps
<1>2. FrameInv(frame) /\ TopInv(frame, exception') /\ frame.step = "error"
  BY DEF Frame, FrameInv, TopInv
<1>3. /\ stack # <<>> => stack[Len(stack)].step \in CodeSteps
      /\ Len(stack) < MaxDepth /\ ~errorHandling /\ errorHandling' = TRUE
      /\ stack' = Append(stack, frame) /\ UNCHANGED <<scopeVars, storageVars, exception>>
  BY DEF RaiseError, HandlesError, PhpContinues, PhpRuns, Top
<1> HIDE DEF frame
<1>4. StackInv(stack', exception', errorHandling')
  <2>1. StackInv(Append(stack, frame), exception', TRUE)
    BY <1>1, <1>2, <1>3, StackPushHandler
  <2>2. QED
    BY <1>3, <2>1
<1>5. QED
  BY <1>3, <1>4, Parts, RestUnchanged DEF TypeRest

-----------------------------------------------------------------------------
(* The theorems *)

\* IInv holds initially and every step of the specification keeps it.
THEOREM Invariance == Spec => []IInv
<1>1. Init => IInv
  <2> SUFFICES ASSUME Init PROVE IInv
    OBVIOUS
  <2>1. StackInv(stack, exception, errorHandling)
    BY StackEmpty DEF Init
  <2>2. TypeRest /\ HandlersInv
    <3>1. requests \in 0 .. MaxRequests /\ registered \in 0 .. MaxHooks
      BY BoundsAssumption DEF Init
    <3>2. config \in [attr : BOOLEAN, all : BOOLEAN]
      BY DEF Init
    <3>3. /\ code \in [User -> Spans \cup {NoSpan}]
          /\ spans \in [User -> Spans \cup {NoSpan}]
          /\ handler \in [Internal -> {"original", "wrapper"}]
          /\ originals \in [Internal -> {None, "original", "wrapper"}]
          /\ HandlersInv
      BY DEF Init, HandlersInv, None
    <3>4. QED
      BY <3>1, <3>2, <3>3, NothingHooked DEF Init, TypeRest, MaybeException
  <2>3. QED
    BY <2>1, <2>2, Parts
<1>2. IInv /\ [Next]_vars => IInv'
  <2> SUFFICES ASSUME IInv, [Next]_vars PROVE IInv'
    OBVIOUS
  <2>1. CASE UNCHANGED vars
    <3>1. StackInv(stack', exception', errorHandling')
      BY <2>1, Parts DEF vars
    <3>2. QED
      BY <2>1, <3>1, Parts, RestUnchanged DEF vars, TypeRest
  <2>2. CASE Next
    BY <2>2, RequestStep, HookStep, CallInternalStep, CallUserStep, NextPreStep,
       NextPostStep, EndHookStep, EndBodyStep, UnwindStep, RaiseErrorStep DEF Next
  <2>3. QED
    BY <2>1, <2>2
<1>3. QED
  BY <1>1, <1>2, PTL DEF Spec

\* Every variable keeps its type, for every choice of the constants.
THEOREM TypeCorrect == Spec => []TypeOK
<1>1. IInv => TypeOK
  BY DEF IInv
<1>2. QED
  BY <1>1, Invariance, PTL

\* However calls, hooks and WithSpan handlers nest and throw, an instrumented call
\* ends with the exception of its body and of nothing else
\* (AutomaticExceptionStateRestorer around every hook).
THEOREM Transparency == Spec => []ExceptionTransparent
<1>1. IInv => ExceptionTransparent
  BY TopFacts DEF ExceptionTransparent, TopInv
<1>2. QED
  BY <1>1, Invariance, PTL

\* No call of an internal function loses its function, because the wrapper is
\* installed only after the original handler was stored (instrumentFunction).
THEOREM BodyRunsOnce == Spec => []OriginalRuns
<1>1. IInv => OriginalRuns
  BY TopFacts DEF OriginalRuns, FrameInv
<1>2. QED
  BY <1>1, Invariance, PTL

\* The error handler is never started by an error inside it (errorHandling in
\* otel_observer_error_cb), at any depth of the stack.
THEOREM NoNestedErrorHandler == Spec => []OneErrorHandler
<1>1. IInv => OneErrorHandler
  <2> SUFFICES ASSUME IInv PROVE OneErrorHandler
    OBVIOUS
  <2> DEFINE errors == {i \in DOMAIN stack : stack[i].step = "error"}
  <2>1. DOMAIN stack = 1 .. Len(stack)
    BY DEF IInv, StackInv
  <2>2. \A i, j \in errors : i = j
    BY <2>1 DEF IInv, StackInv
  <2>3. CASE errors = {}
    BY <2>3, FS_EmptySet DEF OneErrorHandler
  <2>4. CASE errors # {}
    <3>1. PICK i \in errors : errors = {i}
      BY <2>2, <2>4
    <3>2. Cardinality(errors) = 1
      BY <3>1, FS_Singleton
    <3>3. QED
      BY <3>2 DEF OneErrorHandler
  <2>5. QED
    BY <2>3, <2>4
<1>2. QED
  BY <1>1, Invariance, PTL
-----------------------------------------------------------------------------
(* The hooks and spans of a call *)

\* Between requests no PHP code runs.
RequestInv == request = "outside" => stack = <<>>

\* The pairs of a function are kept in the order of registration, and those of an
\* internal function only with its wrapper in place.
ListsInv ==
    /\ \A k \in Keys : \A i \in 1 .. Len(hooks[k]) :
           /\ hooks[k][i].n <= registered
           /\ k \notin User => hooks[k][i].n > 0
           /\ \A j \in 1 .. Len(hooks[k]) : i < j => hooks[k][i].n < hooks[k][j].n
    /\ \A f \in User : ~observed[f].known =>
           \A i \in 1 .. Len(hooks[f]) : hooks[f][i].n > 0
    /\ \A f \in Internal : hooks[f] # <<>> => handler[f] = "wrapper"

\* The engine has the handlers that the pairs and the attribute of an observed
\* function call for, and AttrHooksStorage has its attribute.
ObservedInv ==
    \A f \in User : observed[f].known =>
        /\ \A i \in 1 .. Len(hooks[f]) : ~hooks[f][i].late =>
               /\ hooks[f][i].pre => observed[f].begin
               /\ hooks[f][i].post => observed[f].end
        /\ Spanned(f) => /\ spans[f] = code[f]
                         /\ observed[f].begin /\ observed[f].end

\* The hooks at the first positions of the list, up to n, are the ones that ran.
RanTo(seq, list, side, n) ==
    /\ n <= Len(list)
    /\ Increasing(seq)
    /\ \A j \in 1 .. Len(seq) : \E i \in 1 .. Len(list) :
           i <= n /\ list[i][side] /\ list[i].n = seq[j]
    /\ \A i \in 1 .. Len(list) : i <= n /\ list[i][side] =>
           \E j \in 1 .. Len(seq) : seq[j] = list[i].n

\* No pair that was in time has a hook of this side.
NoneDue(list, side, frame) ==
    \A i \in 1 .. Len(list) : list[i][side] => ~InTime(list[i], frame)

\* The hooks of a call: where the two loops are, and what they leave behind them.
PairsInv(frame) ==
    LET list == hooks[frame.f]
    IN  /\ frame.step = "pre" => RanTo(frame.pres, list, "pre", frame.at - 1)
        /\ frame.step = "inPre" => RanTo(frame.pres, list, "pre", frame.at)
        /\ frame.step \notin {"pre", "inPre"} => RanAll(frame.pres, list, "pre", frame)
        /\ frame.step \in {"pre", "inPre", "inSpanPre", "body"} =>
               frame.posts = <<>> /\ (~frame.ends => NoneDue(list, "post", frame))
        /\ frame.step = "post" => RanTo(frame.posts, list, "post", frame.at - 1)
        /\ frame.step = "inPost" => RanTo(frame.posts, list, "post", frame.at)
        /\ frame.step \in {"inSpanPost", "return"} => RanAll(frame.posts, list, "post", frame)

\* The span of a call of a function with the attribute.
SpanInv(frame) ==
    /\ frame.ends
    /\ frame.step \notin {"pre", "inPre"} => frame.span = code[frame.f]
    /\ frame.step \in {"inSpanPost", "return"} => frame.spanEnded

\* What holds of the frame of a call.
CallInv(frame) ==
    /\ frame.born <= registered
    /\ frame.f \in User => observed[frame.f].known
    /\ frame.f \in User \/ functional => PairsInv(frame)
    /\ frame.f \in User /\ functional /\ Spanned(frame.f) => SpanInv(frame)

CallsInv == \A i \in 1 .. Len(stack) : stack[i].step # "error" => CallInv(stack[i])

PInv == RequestInv /\ ListsInv /\ ObservedInv /\ CallsInv

\* What the provers need to know of pairs and of the numbers that frames keep.
LEMMA PairFacts ==
    ASSUME IInv
    PROVE  /\ \A k \in Keys : hooks[k] \in Seq(Pairs) /\ Len(hooks[k]) \in Nat
           /\ \A k \in Keys : \A i \in 1 .. Len(hooks[k]) : hooks[k][i].n \in Nat
           /\ registered \in Nat
<1>1. \A k \in Keys : hooks[k] \in Seq(Pairs)
  BY Parts DEF TypeRest
<1>2. \A k \in Keys : Len(hooks[k]) \in Nat /\ \A i \in 1 .. Len(hooks[k]) : hooks[k][i] \in Pairs
  BY <1>1
<1>3. \A x \in Pairs : x.n \in Nat
  BY BoundsAssumption DEF Pairs
<1>4. registered \in Nat
  BY Parts, BoundsAssumption DEF TypeRest
<1>5. QED
  BY <1>1, <1>2, <1>3, <1>4

\* The loop runs the next hook of its side: that is again all up to its position.
LEMMA RanNext ==
    ASSUME NEW list \in Seq(Pairs), NEW seq \in Seq(0 .. MaxHooks), NEW side,
           NEW n \in Nat, RanTo(seq, list, side, n), NEW i \in 1 .. Len(list),
           n < i, list[i][side], \A k \in 1 .. Len(list) : n < k /\ k < i => ~list[k][side],
           \A k, m \in 1 .. Len(list) : k < m => list[k].n < list[m].n
    PROVE  RanTo(Append(seq, list[i].n), list, side, i)
<1> DEFINE x == list[i].n
           new == Append(seq, x)
<1>1. \A k \in 1 .. Len(list) : list[k].n \in 0 .. MaxHooks
  <2>1. \A k \in 1 .. Len(list) : list[k] \in Pairs
    OBVIOUS
  <2>2. QED
    BY <2>1 DEF Pairs
<1>2. Len(list) \in Nat /\ x \in 0 .. MaxHooks /\ Len(seq) \in Nat
  BY <1>1
<1>3. /\ new \in Seq(0 .. MaxHooks) /\ Len(new) = Len(seq) + 1 /\ new[Len(seq) + 1] = x
      /\ \A j \in 1 .. Len(seq) : new[j] = seq[j]
  BY <1>2, AppendProperties
<1>4. \A j \in 1 .. Len(seq) : seq[j] < x
  <2>1. SUFFICES ASSUME NEW j \in 1 .. Len(seq) PROVE seq[j] < x
    OBVIOUS
  <2>2. PICK k \in 1 .. Len(list) : k <= n /\ list[k].n = seq[j]
    BY DEF RanTo
  <2>3. k < i
    BY <1>2, <2>2
  <2>4. QED
    BY <2>2, <2>3
<1>5. Increasing(new)
  <2>1. ASSUME NEW j \in 1 .. Len(new), NEW k \in 1 .. Len(new), j < k PROVE new[j] < new[k]
    <3>1. j \in 1 .. Len(seq) /\ (k \in 1 .. Len(seq) \/ k = Len(seq) + 1)
      BY <1>2, <1>3, <2>1
    <3>2. DOMAIN seq = 1 .. Len(seq)
      OBVIOUS
    <3>3. QED
      BY <1>3, <1>4, <2>1, <3>1, <3>2 DEF RanTo, Increasing
  <2>2. DOMAIN new = 1 .. Len(new)
    BY <1>3
  <2>3. QED
    BY <2>1, <2>2 DEF Increasing
<1> HIDE DEF new, x
<1>6. ASSUME NEW j \in 1 .. Len(new)
      PROVE  \E k \in 1 .. Len(list) : k <= i /\ list[k][side] /\ list[k].n = new[j]
  <2>1. CASE j = Len(seq) + 1
    BY <1>2, <1>3, <2>1 DEF x
  <2>2. CASE j # Len(seq) + 1
    <3>1. j \in 1 .. Len(seq)
      BY <1>2, <1>3, <2>2
    <3>2. PICK k \in 1 .. Len(list) : k <= n /\ list[k][side] /\ list[k].n = seq[j]
      BY <3>1 DEF RanTo
    <3>3. k <= i
      BY <1>2, <3>2
    <3>4. QED
      BY <1>3, <3>1, <3>2, <3>3
  <2>3. QED
    BY <2>1, <2>2
<1>7. ASSUME NEW k \in 1 .. Len(list), k <= i, list[k][side]
      PROVE  \E j \in 1 .. Len(new) : new[j] = list[k].n
  <2>1. CASE k = i
    <3>1. Len(seq) + 1 \in 1 .. Len(new)
      BY <1>2, <1>3
    <3>2. QED
      BY <1>3, <2>1, <3>1 DEF x
  <2>2. CASE k # i
    <3>1. k <= n
      BY <1>2, <1>7, <2>2
    <3>2. PICK j \in 1 .. Len(seq) : seq[j] = list[k].n
      BY <1>7, <3>1 DEF RanTo
    <3>3. j \in 1 .. Len(new) /\ new[j] = seq[j]
      BY <1>2, <1>3
    <3>4. QED
      BY <3>2, <3>3
  <2>3. QED
    BY <2>1, <2>2
<1>8. i <= Len(list)
  BY <1>2
<1>9. RanTo(new, list, side, i)
  BY <1>5, <1>6, <1>7, <1>8 DEF RanTo
<1>10. QED
  BY <1>9 DEF new, x

\* When the loop finds no more hooks of its side, it has run all of them.
LEMMA RanToAll ==
    ASSUME NEW list \in Seq(Pairs), NEW seq \in Seq(0 .. MaxHooks), NEW side, NEW frame,
           NEW n \in Nat, RanTo(seq, list, side, n),
           \A k \in 1 .. Len(list) : n < k => ~list[k][side]
    PROVE  RanAll(seq, list, side, frame)
<1>1. DOMAIN list = 1 .. Len(list) /\ DOMAIN seq = 1 .. Len(seq)
  OBVIOUS
<1>2. \A k \in 1 .. Len(list) : list[k][side] => k <= n
  OBVIOUS
<1>3. QED
  BY <1>1, <1>2 DEF RanTo, RanAll

\* Without hooks of its side that were in time, a call need not run any.
LEMMA RanNone ==
    ASSUME NEW list \in Seq(Pairs), NEW side, NEW frame, NoneDue(list, side, frame)
    PROVE  RanAll(<<>>, list, side, frame)
<1>1. DOMAIN list = 1 .. Len(list)
  OBVIOUS
<1>2. QED
  BY <1>1 DEF NoneDue, RanAll, Increasing

\* hook() appends a pair that is too late for the calls that are running.
LEMMA ListGrows ==
    ASSUME NEW list \in Seq(Pairs), NEW pair \in Pairs, NEW side, NEW frame,
           ~InTime(pair, frame), NEW seq \in Seq(0 .. MaxHooks), NEW n \in Int
    PROVE  /\ RanTo(seq, list, side, n) => RanTo(seq, Append(list, pair), side, n)
           /\ RanAll(seq, list, side, frame) => RanAll(seq, Append(list, pair), side, frame)
           /\ NoneDue(list, side, frame) => NoneDue(Append(list, pair), side, frame)
<1> DEFINE new == Append(list, pair)
<1>1. /\ Len(list) \in Nat /\ Len(new) = Len(list) + 1 /\ new[Len(list) + 1] = pair
      /\ new \in Seq(Pairs) /\ DOMAIN new = 1 .. Len(new) /\ DOMAIN list = 1 .. Len(list)
      /\ \A i \in 1 .. Len(list) : new[i] = list[i]
  BY AppendProperties
<1> HIDE DEF new
<1>2. /\ \A i \in 1 .. Len(list) : i \in 1 .. Len(new)
      /\ \A i \in 1 .. Len(new) : i \in 1 .. Len(list) \/ i = Len(list) + 1
  BY <1>1
<1>3. ASSUME RanTo(seq, list, side, n) PROVE RanTo(seq, new, side, n)
  <2>1. n <= Len(list) /\ n <= Len(new) /\ ~(Len(list) + 1 <= n)
    BY <1>1, <1>3 DEF RanTo
  <2>2. \A j \in 1 .. Len(seq) : \E i \in 1 .. Len(new) :
            i <= n /\ new[i][side] /\ new[i].n = seq[j]
    BY <1>1, <1>2, <1>3 DEF RanTo
  <2>3. \A i \in 1 .. Len(new) : i <= n /\ new[i][side] => \E j \in 1 .. Len(seq) : seq[j] = new[i].n
    BY <1>1, <1>2, <1>3, <2>1 DEF RanTo
  <2>4. QED
    BY <1>3, <2>1, <2>2, <2>3 DEF RanTo
<1>4. ASSUME RanAll(seq, list, side, frame) PROVE RanAll(seq, new, side, frame)
  <2>1. \A j \in DOMAIN seq : \E i \in DOMAIN new : new[i][side] /\ new[i].n = seq[j]
    BY <1>1, <1>2, <1>4 DEF RanAll
  <2>2. \A i \in DOMAIN new : new[i][side] /\ InTime(new[i], frame) =>
            \E j \in DOMAIN seq : seq[j] = new[i].n
    BY <1>1, <1>2, <1>4 DEF RanAll
  <2>3. QED
    BY <1>4, <2>1, <2>2 DEF RanAll
<1>5. ASSUME NoneDue(list, side, frame) PROVE NoneDue(new, side, frame)
  BY <1>1, <1>2, <1>5 DEF NoneDue
<1>6. QED
  BY <1>3, <1>4, <1>5 DEF new

\* What is known of a call does not change while scope and storages do not.
LEMMA CallKept ==
    ASSUME UNCHANGED <<scopeVars, storageVars>>, NEW frame, CallInv(frame)
    PROVE  CallInv(frame)'
BY DEF CallInv, PairsInv, SpanInv, Spanned, scopeVars, storageVars

\* An action on the stack alone: each frame is old, or an error handler's, or is
\* shown to fit.
LEMMA StackStep ==
    ASSUME IInv, PInv, request # "outside", UNCHANGED <<scopeVars, storageVars>>,
           \A j \in 1 .. Len(stack') :
               \/ stack'[j].step = "error"
               \/ CallInv(stack'[j])
               \/ \E i \in 1 .. Len(stack) : stack'[j] = stack[i]
    PROVE  PInv'
<1>1. RequestInv' /\ ListsInv' /\ ObservedInv'
  BY DEF PInv, RequestInv, ListsInv, ObservedInv, Spanned, Keys, scopeVars, storageVars
<1>2. ASSUME NEW j \in 1 .. Len(stack'), stack'[j].step # "error"
      PROVE  CallInv(stack'[j])
  BY <1>2 DEF PInv, CallsInv
<1>3. ASSUME NEW j \in 1 .. Len(stack'), stack'[j].step # "error"
      PROVE  CallInv(stack[j])'
  <2> PICK frame : frame = stack'[j]
    OBVIOUS
  <2>1. CallInv(frame)'
    BY <1>2, <1>3, CallKept
  <2>2. QED
    BY <2>1 DEF CallInv, PairsInv, SpanInv, Spanned
<1>4. CallsInv'
  BY <1>3 DEF CallsInv
<1>5. QED
  BY <1>1, <1>4 DEF PInv

\* While there is a stack, a request runs, and the top frame fits.
LEMMA TopCall ==
    ASSUME IInv, PInv, stack # <<>>
    PROVE  /\ request # "outside"
           /\ Top \in Frames /\ FrameInv(Top)
           /\ Top.step # "error" => CallInv(Top) /\ Top.f \in Keys
<1>1. Len(stack) \in 1 .. Len(stack)
  BY TopFacts
<1>2. QED
  BY <1>1, TopFacts DEF PInv, RequestInv, CallsInv, Top, FrameInv, Keys

\* The top frame is replaced by one that fits.
LEMMA ReplaceCall ==
    ASSUME IInv, PInv, stack # <<>>, NEW frame, stack' = Replace(frame), CallInv(frame),
           UNCHANGED <<scopeVars, storageVars>>
    PROVE  PInv'
<1>1. stack \in Seq(Frames) /\ Len(stack) \in Nat \ {0}
  BY DEF IInv, StackInv
<1>2. /\ Len(stack') = Len(stack)
      /\ \A j \in 1 .. Len(stack) : stack'[j] = IF j = Len(stack) THEN frame ELSE stack[j]
  BY <1>1 DEF Replace
<1>3. request # "outside"
  BY TopCall
<1>4. QED
  BY <1>2, <1>3, StackStep

\* A frame is pushed that fits, or is that of the error handler.
LEMMA PushCall ==
    ASSUME IInv, PInv, request # "outside", NEW frame, stack' = Append(stack, frame),
           frame.step # "error" => CallInv(frame),
           UNCHANGED <<scopeVars, storageVars>>
    PROVE  PInv'
<1>1. stack \in Seq(Frames) /\ Len(stack) \in Nat
  BY DEF IInv, StackInv
<1>2. /\ Len(stack') = Len(stack) + 1
      /\ \A j \in 1 .. Len(stack') : stack'[j] = IF j = Len(stack) + 1 THEN frame ELSE stack[j]
  BY <1>1
<1>3. \A j \in 1 .. Len(stack') : j # Len(stack) + 1 => j \in 1 .. Len(stack)
  BY <1>1, <1>2
<1>4. QED
  BY <1>2, <1>3, StackStep

\* The loop over the pre hooks.
LEMMA NextPreCall ==
    ASSUME IInv, PInv, NextPre
    PROVE  PInv'
<1>1. /\ stack # <<>> /\ Top.step = "pre" /\ Top \in Frames /\ CallInv(Top)
      /\ Top.f \in Keys /\ Top.f \in Internal \cup User
      /\ UNCHANGED <<scopeVars, storageVars>>
  <2>1. stack # <<>> /\ Top.step = "pre" /\ UNCHANGED <<scopeVars, storageVars>>
    BY DEF NextPre
  <2>2. Top \in Frames /\ FrameInv(Top) /\ CallInv(Top) /\ Top.f \in Keys
    BY <2>1, TopCall
  <2>3. Top.f \in Internal \cup User
    BY <2>1, <2>2 DEF FrameInv
  <2>4. QED
    BY <2>1, <2>2, <2>3
<1> DEFINE list == hooks[Top.f]
           covered == Top.f \in User \/ functional
           spanned == Top.f \in User /\ functional /\ Spanned(Top.f)
<1>2. /\ list \in Seq(Pairs) /\ Len(list) \in Nat /\ Top.pres \in Seq(0 .. MaxHooks)
      /\ Top.at \in Nat \ {0} /\ Top.at - 1 \in Nat
  BY <1>1, PairFacts DEF Frames
<1>3. \A k, m \in 1 .. Len(list) : k < m => list[k].n < list[m].n
  BY <1>1 DEF PInv, ListsInv
<1>4. covered => /\ RanTo(Top.pres, list, "pre", Top.at - 1) /\ Top.posts = <<>>
                 /\ ~Top.ends => NoneDue(list, "post", Top)
  BY <1>1 DEF CallInv, PairsInv
<1>5. spanned => Top.ends
  BY <1>1 DEF CallInv, SpanInv
<1>6. ASSUME NEW i \in First(Remaining("pre")),
             stack' = Replace([Top EXCEPT !.step = "inPre", !.at = i, !.saved = exception,
                                          !.pres = Append(@, hooks[Top.f][i].n)])
      PROVE  PInv'
  <2> DEFINE frame == [Top EXCEPT !.step = "inPre", !.at = i, !.saved = exception,
                                  !.pres = Append(@, hooks[Top.f][i].n)]
  <2>1. /\ i \in 1 .. Len(list) /\ Top.at - 1 < i /\ list[i]["pre"]
        /\ \A k \in 1 .. Len(list) : Top.at - 1 < k /\ k < i => ~list[k]["pre"]
    BY <1>2 DEF First, Remaining
  <2>2. covered => RanTo(Append(Top.pres, list[i].n), list, "pre", i)
    BY <1>2, <1>3, <1>4, <2>1, RanNext
  <2>3. /\ frame.f = Top.f /\ frame.step = "inPre" /\ frame.at = i /\ frame.ends = Top.ends
        /\ frame.pres = Append(Top.pres, list[i].n) /\ frame.posts = Top.posts
        /\ frame.born = Top.born
    BY <1>1 DEF Frames
  <2> HIDE DEF frame
  <2>4. NoneDue(list, "post", Top) => NoneDue(list, "post", frame)
    BY <2>3 DEF NoneDue, InTime
  <2>5. covered => PairsInv(frame)
    BY <1>4, <2>2, <2>3, <2>4 DEF PairsInv
  <2>6. spanned => SpanInv(frame)
    BY <1>5, <2>3 DEF SpanInv
  <2>7. CallInv(frame)
    BY <1>1, <2>3, <2>5, <2>6 DEF CallInv
  <2>8. QED
    BY <1>1, <1>6, <2>7, ReplaceCall DEF frame
<1>7. ASSUME Remaining("pre") = {}, SpanHandlersRun(Top.f),
             stack' = Replace([Top EXCEPT !.step = "inSpanPre", !.saved = exception,
                                          !.span = spans[Top.f]])
      PROVE  PInv'
  <2> DEFINE frame == [Top EXCEPT !.step = "inSpanPre", !.saved = exception,
                                  !.span = spans[Top.f]]
  <2>1. \A k \in 1 .. Len(list) : Top.at - 1 < k => ~list[k]["pre"]
    BY <1>2, <1>7 DEF Remaining
  <2>2. /\ frame.f = Top.f /\ frame.step = "inSpanPre" /\ frame.ends = Top.ends
        /\ frame.pres = Top.pres /\ frame.posts = Top.posts
        /\ frame.born = Top.born /\ frame.span = spans[Top.f]
    BY <1>1 DEF Frames
  <2> HIDE DEF frame
  <2>3. covered => RanAll(Top.pres, list, "pre", frame)
    BY <1>2, <1>4, <2>1, RanToAll
  <2>4. NoneDue(list, "post", Top) => NoneDue(list, "post", frame)
    BY <2>2 DEF NoneDue, InTime
  <2>5. covered => PairsInv(frame)
    BY <1>4, <2>2, <2>3, <2>4 DEF PairsInv
  <2>6. spanned => spans[Top.f] = code[Top.f]
    BY <1>1 DEF CallInv, PInv, ObservedInv
  <2>7. spanned => SpanInv(frame)
    BY <1>5, <2>2, <2>6 DEF SpanInv
  <2>8. CallInv(frame)
    BY <1>1, <2>2, <2>5, <2>7 DEF CallInv
  <2>9. QED
    BY <1>1, <1>7, <2>8, ReplaceCall DEF frame
<1>8. ASSUME Remaining("pre") = {}, ~SpanHandlersRun(Top.f),
             stack' = Replace([Top EXCEPT !.step = "body", !.ran = @ + 1])
      PROVE  PInv'
  <2> DEFINE frame == [Top EXCEPT !.step = "body", !.ran = @ + 1]
  <2>1. \A k \in 1 .. Len(list) : Top.at - 1 < k => ~list[k]["pre"]
    BY <1>2, <1>8 DEF Remaining
  <2>2. /\ frame.f = Top.f /\ frame.step = "body" /\ frame.ends = Top.ends
        /\ frame.pres = Top.pres /\ frame.posts = Top.posts
        /\ frame.born = Top.born
    BY <1>1 DEF Frames
  <2> HIDE DEF frame
  <2>3. covered => RanAll(Top.pres, list, "pre", frame)
    BY <1>2, <1>4, <2>1, RanToAll
  <2>4. NoneDue(list, "post", Top) => NoneDue(list, "post", frame)
    BY <2>2 DEF NoneDue, InTime
  <2>5. covered => PairsInv(frame)
    BY <1>4, <2>2, <2>3, <2>4 DEF PairsInv
  <2>6. ~spanned
    BY <1>1, <1>8 DEF CallInv, PInv, ObservedInv, SpanHandlersRun, Spanned
  <2>7. CallInv(frame)
    BY <1>1, <2>2, <2>5, <2>6 DEF CallInv
  <2>8. QED
    BY <1>1, <1>8, <2>7, ReplaceCall DEF frame
<1>9. QED
  BY <1>6, <1>7, <1>8 DEF NextPre

\* The loop over the post hooks.
LEMMA NextPostCall ==
    ASSUME IInv, PInv, NextPost
    PROVE  PInv'
<1>1. /\ stack # <<>> /\ Top.step = "post" /\ Top \in Frames /\ CallInv(Top)
      /\ Top.f \in Keys /\ Top.f \in Internal \cup User
      /\ UNCHANGED <<scopeVars, storageVars>>
  <2>1. stack # <<>> /\ Top.step = "post" /\ UNCHANGED <<scopeVars, storageVars>>
    BY DEF NextPost
  <2>2. Top \in Frames /\ FrameInv(Top) /\ CallInv(Top) /\ Top.f \in Keys
    BY <2>1, TopCall
  <2>3. Top.f \in Internal \cup User
    BY <2>1, <2>2 DEF FrameInv
  <2>4. QED
    BY <2>1, <2>2, <2>3
<1> DEFINE list == hooks[Top.f]
           covered == Top.f \in User \/ functional
           spanned == Top.f \in User /\ functional /\ Spanned(Top.f)
<1>2. /\ list \in Seq(Pairs) /\ Len(list) \in Nat /\ Top.posts \in Seq(0 .. MaxHooks)
      /\ Top.at \in Nat \ {0} /\ Top.at - 1 \in Nat
  BY <1>1, PairFacts DEF Frames
<1>3. \A k, m \in 1 .. Len(list) : k < m => list[k].n < list[m].n
  BY <1>1 DEF PInv, ListsInv
<1>4. covered => /\ RanTo(Top.posts, list, "post", Top.at - 1)
                 /\ RanAll(Top.pres, list, "pre", Top)
  BY <1>1 DEF CallInv, PairsInv
<1>5. spanned => Top.ends /\ Top.span = code[Top.f]
  BY <1>1 DEF CallInv, SpanInv
<1>6. ASSUME NEW i \in First(Remaining("post")),
             stack' = Replace([Top EXCEPT !.step = "inPost", !.at = i, !.saved = exception,
                                          !.posts = Append(@, hooks[Top.f][i].n)])
      PROVE  PInv'
  <2> DEFINE frame == [Top EXCEPT !.step = "inPost", !.at = i, !.saved = exception,
                                  !.posts = Append(@, hooks[Top.f][i].n)]
  <2>1. /\ i \in 1 .. Len(list) /\ Top.at - 1 < i /\ list[i]["post"]
        /\ \A k \in 1 .. Len(list) : Top.at - 1 < k /\ k < i => ~list[k]["post"]
    BY <1>2 DEF First, Remaining
  <2>2. covered => RanTo(Append(Top.posts, list[i].n), list, "post", i)
    BY <1>2, <1>3, <1>4, <2>1, RanNext
  <2>3. /\ frame.f = Top.f /\ frame.step = "inPost" /\ frame.at = i /\ frame.ends = Top.ends
        /\ frame.posts = Append(Top.posts, list[i].n) /\ frame.pres = Top.pres
        /\ frame.born = Top.born /\ frame.span = Top.span
    BY <1>1 DEF Frames
  <2> HIDE DEF frame
  <2>4. covered => RanAll(Top.pres, list, "pre", frame)
    BY <1>4, <2>3 DEF RanAll, InTime
  <2>5. covered => PairsInv(frame)
    BY <2>2, <2>3, <2>4 DEF PairsInv
  <2>6. spanned => SpanInv(frame)
    BY <1>5, <2>3 DEF SpanInv
  <2>7. CallInv(frame)
    BY <1>1, <2>3, <2>5, <2>6 DEF CallInv
  <2>8. QED
    BY <1>1, <1>6, <2>7, ReplaceCall DEF frame
<1>7. ASSUME Remaining("post") = {}, SpanHandlersRun(Top.f),
             stack' = Replace([Top EXCEPT !.step = "inSpanPost", !.saved = exception,
                                          !.spanEnded = TRUE])
      PROVE  PInv'
  <2> DEFINE frame == [Top EXCEPT !.step = "inSpanPost", !.saved = exception,
                                  !.spanEnded = TRUE]
  <2>1. \A k \in 1 .. Len(list) : Top.at - 1 < k => ~list[k]["post"]
    BY <1>2, <1>7 DEF Remaining
  <2>2. /\ frame.f = Top.f /\ frame.step = "inSpanPost" /\ frame.ends = Top.ends
        /\ frame.pres = Top.pres /\ frame.posts = Top.posts
        /\ frame.born = Top.born /\ frame.span = Top.span /\ frame.spanEnded
    BY <1>1 DEF Frames
  <2> HIDE DEF frame
  <2>3. covered => RanAll(Top.posts, list, "post", frame)
    BY <1>2, <1>4, <2>1, RanToAll
  <2>4. covered => RanAll(Top.pres, list, "pre", frame)
    BY <1>4, <2>2 DEF RanAll, InTime
  <2>5. covered => PairsInv(frame)
    BY <2>2, <2>3, <2>4 DEF PairsInv
  <2>6. spanned => SpanInv(frame)
    BY <1>5, <2>2 DEF SpanInv
  <2>7. CallInv(frame)
    BY <1>1, <2>2, <2>5, <2>6 DEF CallInv
  <2>8. QED
    BY <1>1, <1>7, <2>7, ReplaceCall DEF frame
<1>8. ASSUME Remaining("post") = {}, ~SpanHandlersRun(Top.f),
             stack' = Replace([Top EXCEPT !.step = "return"])
      PROVE  PInv'
  <2> DEFINE frame == [Top EXCEPT !.step = "return"]
  <2>1. \A k \in 1 .. Len(list) : Top.at - 1 < k => ~list[k]["post"]
    BY <1>2, <1>8 DEF Remaining
  <2>2. /\ frame.f = Top.f /\ frame.step = "return" /\ frame.ends = Top.ends
        /\ frame.pres = Top.pres /\ frame.posts = Top.posts
        /\ frame.born = Top.born
    BY <1>1 DEF Frames
  <2> HIDE DEF frame
  <2>3. covered => RanAll(Top.posts, list, "post", frame)
    BY <1>2, <1>4, <2>1, RanToAll
  <2>4. covered => RanAll(Top.pres, list, "pre", frame)
    BY <1>4, <2>2 DEF RanAll, InTime
  <2>5. covered => PairsInv(frame)
    BY <2>2, <2>3, <2>4 DEF PairsInv
  <2>6. ~spanned
    BY <1>1, <1>8 DEF CallInv, PInv, ObservedInv, SpanHandlersRun, Spanned
  <2>7. CallInv(frame)
    BY <1>1, <2>2, <2>5, <2>6 DEF CallInv
  <2>8. QED
    BY <1>1, <1>8, <2>7, ReplaceCall DEF frame
<1>9. QED
  BY <1>6, <1>7, <1>8 DEF NextPost

\* A frame with the same history and the same place in the same loop fits as well.
LEMMA SameCall ==
    ASSUME NEW old, CallInv(old), NEW frame, frame.f = old.f, frame.born = old.born,
           frame.ends = old.ends, frame.pres = old.pres, frame.posts = old.posts,
           frame.span = old.span, frame.spanEnded = old.spanEnded,
           \/ old.step = "inPre" /\ frame.step = "pre" /\ frame.at - 1 = old.at
           \/ old.step = "inSpanPre" /\ frame.step = "body"
           \/ old.step = "inPost" /\ frame.step = "post" /\ frame.at - 1 = old.at
           \/ old.step = "inSpanPost" /\ frame.step = "return"
    PROVE  CallInv(frame)
<1> DEFINE list == hooks[old.f]
<1>1. \A seq, side : RanAll(seq, list, side, old) => RanAll(seq, list, side, frame)
  BY DEF RanAll, InTime
<1>2. \A side : NoneDue(list, side, old) => NoneDue(list, side, frame)
  BY DEF NoneDue, InTime
<1>3. PairsInv(old) => PairsInv(frame)
  BY <1>1, <1>2 DEF PairsInv
<1>4. SpanInv(old) => SpanInv(frame)
  BY DEF SpanInv
<1>5. QED
  BY <1>3, <1>4 DEF CallInv

\* A hook ends, and the loop goes on behind it.
LEMMA EndHookCall ==
    ASSUME IInv, PInv, NEW e \in Exceptions \cup {None}, EndHook(e)
    PROVE  PInv'
<1>1. /\ stack # <<>> /\ Top.step \in {"inPre", "inSpanPre", "inPost", "inSpanPost"}
      /\ UNCHANGED <<scopeVars, storageVars>>
  BY DEF EndHook
<1>2. Top \in Frames /\ CallInv(Top)
  BY <1>1, TopCall
<1>3. Top.at \in Nat \ {0}
  BY <1>2 DEF Frames
<1>4. ASSUME Top.step = "inPre",
             stack' = Replace([Top EXCEPT !.step = "pre", !.at = @ + 1, !.saved = None])
      PROVE  PInv'
  <2> DEFINE frame == [Top EXCEPT !.step = "pre", !.at = @ + 1, !.saved = None]
  <2>1. /\ frame.f = Top.f /\ frame.born = Top.born /\ frame.ends = Top.ends
        /\ frame.pres = Top.pres /\ frame.posts = Top.posts /\ frame.span = Top.span
        /\ frame.spanEnded = Top.spanEnded /\ frame.step = "pre" /\ frame.at = Top.at + 1
    BY <1>2 DEF Frames
  <2> HIDE DEF frame
  <2>2. frame.at - 1 = Top.at
    BY <1>3, <2>1
  <2>3. CallInv(frame)
    BY <1>2, <1>4, <2>1, <2>2, SameCall
  <2>4. QED
    BY <1>1, <1>4, <2>3, ReplaceCall DEF frame
<1>5. ASSUME Top.step = "inSpanPre",
             stack' = Replace([Top EXCEPT !.step = "body", !.ran = @ + 1, !.saved = None])
      PROVE  PInv'
  <2> DEFINE frame == [Top EXCEPT !.step = "body", !.ran = @ + 1, !.saved = None]
  <2>1. /\ frame.f = Top.f /\ frame.born = Top.born /\ frame.ends = Top.ends
        /\ frame.pres = Top.pres /\ frame.posts = Top.posts /\ frame.span = Top.span
        /\ frame.spanEnded = Top.spanEnded /\ frame.step = "body"
    BY <1>2 DEF Frames
  <2> HIDE DEF frame
  <2>2. CallInv(frame)
    BY <1>2, <1>5, <2>1, SameCall
  <2>3. QED
    BY <1>1, <1>5, <2>2, ReplaceCall DEF frame
<1>6. ASSUME Top.step = "inPost",
             stack' = Replace([Top EXCEPT !.step = "post", !.at = @ + 1, !.saved = None])
      PROVE  PInv'
  <2> DEFINE frame == [Top EXCEPT !.step = "post", !.at = @ + 1, !.saved = None]
  <2>1. /\ frame.f = Top.f /\ frame.born = Top.born /\ frame.ends = Top.ends
        /\ frame.pres = Top.pres /\ frame.posts = Top.posts /\ frame.span = Top.span
        /\ frame.spanEnded = Top.spanEnded /\ frame.step = "post" /\ frame.at = Top.at + 1
    BY <1>2 DEF Frames
  <2> HIDE DEF frame
  <2>2. frame.at - 1 = Top.at
    BY <1>3, <2>1
  <2>3. CallInv(frame)
    BY <1>2, <1>6, <2>1, <2>2, SameCall
  <2>4. QED
    BY <1>1, <1>6, <2>3, ReplaceCall DEF frame
<1>7. ASSUME Top.step = "inSpanPost",
             stack' = Replace([Top EXCEPT !.step = "return", !.saved = None])
      PROVE  PInv'
  <2> DEFINE frame == [Top EXCEPT !.step = "return", !.saved = None]
  <2>1. /\ frame.f = Top.f /\ frame.born = Top.born /\ frame.ends = Top.ends
        /\ frame.pres = Top.pres /\ frame.posts = Top.posts /\ frame.span = Top.span
        /\ frame.spanEnded = Top.spanEnded /\ frame.step = "return"
    BY <1>2 DEF Frames
  <2> HIDE DEF frame
  <2>2. CallInv(frame)
    BY <1>2, <1>7, <2>1, SameCall
  <2>3. QED
    BY <1>1, <1>7, <2>2, ReplaceCall DEF frame
<1>8. QED
  BY <1>4, <1>5, <1>6, <1>7 DEF EndHook

\* The body ends: the loop over the post hooks starts, or none of them is due.
LEMMA EndBodyCall ==
    ASSUME IInv, PInv, NEW e \in Exceptions \cup {None}, EndBody(e)
    PROVE  PInv'
<1> DEFINE step == IF Top.ends THEN "post" ELSE "return"
           frame == [Top EXCEPT !.step = step, !.at = 1, !.left = e]
           list == hooks[Top.f]
           covered == Top.f \in User \/ functional
           spanned == Top.f \in User /\ functional /\ Spanned(Top.f)
<1>1. /\ stack # <<>> /\ Top.step = "body" /\ stack' = Replace(frame)
      /\ UNCHANGED <<scopeVars, storageVars>>
  BY DEF EndBody
<1>2. Top \in Frames /\ CallInv(Top) /\ Top.f \in Keys
  BY <1>1, TopCall
<1>3. /\ frame.f = Top.f /\ frame.born = Top.born /\ frame.ends = Top.ends
      /\ frame.pres = Top.pres /\ frame.posts = Top.posts /\ frame.span = Top.span
      /\ frame.at = 1 /\ frame.step = step
  BY <1>2 DEF Frames
<1> HIDE DEF frame
<1>4. list \in Seq(Pairs) /\ Len(list) \in Nat
  BY <1>2, PairFacts
<1>5. covered => /\ RanAll(Top.pres, list, "pre", Top) /\ Top.posts = <<>>
                 /\ ~Top.ends => NoneDue(list, "post", Top)
  BY <1>1, <1>2 DEF CallInv, PairsInv
<1>6. RanAll(Top.pres, list, "pre", Top) => RanAll(Top.pres, list, "pre", frame)
  BY <1>3 DEF RanAll, InTime
<1>7. RanTo(<<>>, list, "post", 0)
  BY <1>4 DEF RanTo, Increasing
<1>8. NoneDue(list, "post", Top) => RanAll(<<>>, list, "post", frame)
  <2>1. NoneDue(list, "post", Top) => NoneDue(list, "post", frame)
    BY <1>3 DEF NoneDue, InTime
  <2>2. QED
    BY <1>4, <2>1, RanNone
<1>9. covered => PairsInv(frame)
  <2>1. CASE Top.ends
    <3>1. frame.step = "post" /\ frame.at - 1 = 0
      BY <1>3, <2>1
    <3>2. QED
      BY <1>3, <1>5, <1>6, <1>7, <3>1 DEF PairsInv
  <2>2. CASE ~Top.ends
    <3>1. frame.step = "return"
      BY <1>3, <2>2
    <3>2. QED
      BY <1>3, <1>5, <1>6, <1>8, <2>2, <3>1 DEF PairsInv
  <2>3. QED
    BY <2>1, <2>2
<1>10. spanned => SpanInv(frame)
  <2>1. spanned => Top.ends /\ Top.span = code[Top.f]
    BY <1>1, <1>2 DEF CallInv, SpanInv
  <2>2. spanned => frame.step = "post"
    BY <1>3, <2>1
  <2>3. QED
    BY <1>3, <2>1, <2>2 DEF SpanInv
<1>11. CallInv(frame)
  BY <1>2, <1>3, <1>9, <1>10 DEF CallInv
<1>12. QED
  BY <1>1, <1>11, ReplaceCall

\* Calls and handlers that end, exceptions that are caught, and fatal errors leave
\* the other calls as they are; the error handler starts on top of them.
LEMMA UnwindCall ==
    ASSUME IInv, PInv,
           \/ Return \/ Catch \/ RaiseError \/ Bailout
           \/ \E e \in Exceptions \cup {None} : EndErrorHandler(e)
    PROVE  PInv'
<1>1. stack \in Seq(Frames) /\ Len(stack) \in Nat
  BY DEF IInv, StackInv
<1>2. ASSUME stack # <<>>, stack' = Below, UNCHANGED <<scopeVars, storageVars>> PROVE PInv'
  <2>1. /\ Len(stack') = Len(stack) - 1
        /\ \A i \in 1 .. Len(stack) - 1 : stack'[i] = stack[i]
    BY <1>1, <1>2, FrontOfSeq DEF Below
  <2>2. \A j \in 1 .. Len(stack') : j \in 1 .. Len(stack) /\ stack'[j] = stack[j]
    BY <1>1, <2>1
  <2>3. request # "outside"
    BY <1>2, TopCall
  <2>4. QED
    BY <1>2, <2>2, <2>3, StackStep
<1>3. CASE Return
  BY <1>2, <1>3 DEF Return
<1>4. ASSUME NEW e \in Exceptions \cup {None}, EndErrorHandler(e) PROVE PInv'
  BY <1>2, <1>4 DEF EndErrorHandler
<1>5. CASE Catch
  <2>1. stack' = stack /\ request # "outside" /\ UNCHANGED <<scopeVars, storageVars>>
    BY <1>5 DEF Catch, PhpRuns
  <2>2. QED
    BY <2>1, StackStep
<1>6. CASE RaiseError
  <2> DEFINE frame == Frame(None, "error", FALSE)
  <2>1. /\ stack' = Append(stack, frame) /\ request # "outside"
        /\ UNCHANGED <<scopeVars, storageVars>>
    BY <1>6 DEF RaiseError, PhpContinues, PhpRuns
  <2>2. frame.step = "error"
    BY DEF Frame
  <2> HIDE DEF frame
  <2>3. QED
    BY <2>1, <2>2, PushCall
<1>7. CASE Bailout
  <2>1. /\ stack' = <<>> /\ request' = "running"
        /\ UNCHANGED <<requests, functional, config, code, storageVars>>
    BY <1>7 DEF Bailout
  <2>2. ListsInv' /\ ObservedInv'
    BY <2>1 DEF PInv, ListsInv, ObservedInv, Spanned, Keys, storageVars
  <2>3. RequestInv' /\ CallsInv'
    BY <2>1 DEF RequestInv, CallsInv
  <2>4. QED
    BY <2>2, <2>3 DEF PInv
<1>8. QED
  BY <1>3, <1>4, <1>5, <1>6, <1>7

\* The call of an internal function goes through its hooks if there are any.
LEMMA CallInternalCall ==
    ASSUME IInv, PInv, NEW f \in Internal, CallInternal(f)
    PROVE  PInv'
<1> DEFINE list == hooks[f]
<1>1. PICK step \in {"body", "pre"} :
        /\ stack' = Append(stack, Frame(f, step, step = "pre"))
        /\ step = "body" => handler[f] # "wrapper" \/ ~functional \/ hooks[f] = <<>>
  BY Parts DEF CallInternal, HandlersInv
<1> DEFINE frame == Frame(f, step, step = "pre")
<1>2. /\ frame.f = f /\ frame.step = step /\ frame.ends = (step = "pre") /\ frame.at = 1
      /\ frame.born = registered /\ frame.pres = <<>> /\ frame.posts = <<>>
  BY DEF Frame
<1>3. request # "outside" /\ UNCHANGED <<scopeVars, storageVars>>
  BY DEF CallInternal, PhpContinues, PhpRuns
<1> HIDE DEF frame
<1>4. f \notin User /\ f \in Keys
  BY DisjointAssumption DEF Keys
<1>5. list \in Seq(Pairs) /\ Len(list) \in Nat
  BY <1>4, PairFacts
<1>6. functional => PairsInv(frame)
  <2>1. CASE step = "pre"
    <3>1. RanTo(<<>>, list, "pre", 0) /\ frame.at - 1 = 0
      BY <1>2, <1>5 DEF RanTo, Increasing
    <3>2. QED
      BY <1>2, <2>1, <3>1 DEF PairsInv
  <2>2. CASE step = "body" /\ functional
    <3>1. list = <<>>
      BY <1>1, <2>2 DEF PInv, ListsInv
    <3>2. \A side : NoneDue(list, side, frame)
      BY <3>1 DEF NoneDue
    <3>3. RanAll(<<>>, list, "pre", frame)
      BY <1>5, <3>2, RanNone
    <3>4. QED
      BY <1>2, <2>2, <3>2, <3>3 DEF PairsInv
  <2>3. QED
    BY <1>1, <2>1, <2>2
<1>7. CallInv(frame)
  <2>1. registered <= registered
    BY PairFacts
  <2>2. QED
    BY <1>2, <1>4, <1>6, <2>1 DEF CallInv
<1>8. QED
  BY <1>1, <1>3, <1>7, PushCall DEF frame

\* hook() appends behind all pairs of the function, too late for running calls.
LEMMA HookCall ==
    ASSUME IInv, PInv, NEW k \in Keys, NEW kind \in PairKinds, Hook(k, kind)
    PROVE  PInv'
<1> DEFINE pair == [n |-> registered + 1, pre |-> kind.pre, post |-> kind.post,
                    late |-> k \in User /\ observed[k].known]
<1>1. /\ registered < MaxHooks /\ registered' = registered + 1 /\ request # "outside"
      /\ hooks' = [hooks EXCEPT ![k] = Append(@, pair)]
      /\ \A f \in Internal : handler[f] = "wrapper" \/ f = k => handler'[f] = "wrapper"
      /\ UNCHANGED <<scopeVars, spans, observed, stack>>
  <2>1. handler \in [Internal -> {"original", "wrapper"}]
    BY Parts DEF TypeRest
  <2>2. \A f \in Internal : handler[f] = "wrapper" \/ f = k => handler'[f] = "wrapper"
    BY <2>1 DEF Hook
  <2>3. QED
    BY <2>2 DEF Hook, PhpContinues, PhpRuns
<1>2. registered \in Nat /\ registered + 1 \in 0 .. MaxHooks
  BY <1>1, PairFacts, BoundsAssumption
<1>3. pair \in Pairs /\ pair.n = registered + 1 /\ pair.late = (k \in User /\ observed[k].known)
  <2>1. (k \in User /\ observed[k].known) \in BOOLEAN
    BY Parts DEF TypeRest
  <2>2. kind.pre \in BOOLEAN /\ kind.post \in BOOLEAN
    BY KindsAssumption
  <2>3. QED
    BY <1>2, <2>1, <2>2 DEF Pairs
<1> HIDE DEF pair
<1>4. /\ \A j \in Keys : hooks[j] \in Seq(Pairs) /\ Len(hooks[j]) \in Nat
      /\ \A j \in Keys : j # k => hooks'[j] = hooks[j]
      /\ hooks'[k] = Append(hooks[k], pair)
  BY <1>1, PairFacts, Parts DEF TypeRest
<1>5. /\ Len(hooks'[k]) = Len(hooks[k]) + 1 /\ hooks'[k][Len(hooks[k]) + 1] = pair
      /\ \A i \in 1 .. Len(hooks[k]) : hooks'[k][i] = hooks[k][i]
      /\ hooks'[k] # <<>>
  BY <1>3, <1>4
<1>6. \A i \in 1 .. Len(hooks'[k]) : i \in 1 .. Len(hooks[k]) \/ i = Len(hooks[k]) + 1
  BY <1>4, <1>5
<1>7. ASSUME NEW j \in Keys, NEW i \in 1 .. Len(hooks'[j])
      PROVE  /\ hooks'[j][i].n <= registered + 1
             /\ (j \notin User \/ ~observed[j].known) => hooks'[j][i].n > 0
             /\ \A m \in 1 .. Len(hooks'[j]) : i < m => hooks'[j][i].n < hooks'[j][m].n
  <2>1. /\ \A m \in 1 .. Len(hooks[j]) : hooks[j][m].n \in Nat /\ hooks[j][m].n <= registered
        /\ \A m \in 1 .. Len(hooks[j]) :
               (j \notin User \/ ~observed[j].known) => hooks[j][m].n > 0
        /\ \A m, l \in 1 .. Len(hooks[j]) : m < l => hooks[j][m].n < hooks[j][l].n
    BY PairFacts DEF PInv, ListsInv
  <2>2. CASE j # k
    BY <1>2, <1>4, <2>1, <2>2
  <2>3. CASE j = k
    <3>1. CASE i = Len(hooks[k]) + 1
      <4>1. hooks'[j][i].n = registered + 1
        BY <1>3, <1>5, <2>3, <3>1
      <4>2. ~\E m \in 1 .. Len(hooks'[j]) : i < m
        BY <1>4, <1>5, <2>3, <3>1
      <4>3. QED
        BY <1>2, <4>1, <4>2
    <3>2. CASE i \in 1 .. Len(hooks[k])
      <4>1. hooks'[j][i] = hooks[j][i]
        BY <1>5, <2>3, <3>2
      <4>2. ASSUME NEW m \in 1 .. Len(hooks'[j]), i < m PROVE hooks'[j][i].n < hooks'[j][m].n
        <5>1. CASE m \in 1 .. Len(hooks[k])
          BY <1>5, <2>1, <2>3, <3>2, <4>2, <5>1
        <5>2. CASE m = Len(hooks[k]) + 1
          <6>1. hooks'[j][m].n = registered + 1 /\ hooks[j][i].n <= registered
                /\ hooks[j][i].n \in Nat
            BY <1>3, <1>5, <2>1, <2>3, <3>2, <5>2
          <6>2. QED
            BY <1>2, <4>1, <6>1
        <5>3. QED
          BY <1>6, <2>3, <5>1, <5>2
      <4>3. hooks[j][i].n \in Nat /\ hooks[j][i].n <= registered
        BY <2>1, <2>3, <3>2
      <4>4. hooks'[j][i].n <= registered + 1
        BY <1>2, <4>1, <4>3
      <4>5. QED
        BY <2>1, <2>3, <3>2, <4>1, <4>2, <4>4
    <3>3. QED
      BY <1>6, <2>3, <3>1, <3>2
  <2>4. QED
    BY <2>2, <2>3
<1>8. ListsInv'
  <2>1. \A f \in Internal : hooks'[f] # <<>> => handler'[f] = "wrapper"
    BY <1>1, <1>4 DEF PInv, ListsInv, Keys
  <2>2. \A f \in User : f \in Keys
    BY DEF Keys
  <2>3. QED
    BY <1>1, <1>7, <2>1, <2>2 DEF ListsInv, Keys
<1>9. ObservedInv'
  <2>1. ASSUME NEW f \in User, observed[f].known, NEW i \in 1 .. Len(hooks'[f]), ~hooks'[f][i].late
        PROVE  /\ hooks'[f][i].pre => observed[f].begin
               /\ hooks'[f][i].post => observed[f].end
    <3>1. i \in 1 .. Len(hooks[f]) /\ hooks'[f][i] = hooks[f][i]
      BY <1>3, <1>4, <1>5, <1>6, <2>1 DEF Keys
    <3>2. QED
      BY <2>1, <3>1 DEF PInv, ObservedInv
  <2>2. \A f \in User : Spanned(f)' = Spanned(f)
    BY <1>1 DEF Spanned, scopeVars
  <2>3. QED
    BY <1>1, <2>1, <2>2 DEF PInv, ObservedInv, scopeVars
<1>10. ASSUME NEW i \in 1 .. Len(stack), stack[i].step # "error"
       PROVE  CallInv(stack[i])'
  <2> PICK frame : frame = stack[i]
    OBVIOUS
  <2>1. /\ CallInv(frame) /\ frame \in Frames /\ frame.f \in Keys
    BY <1>10 DEF PInv, CallsInv, IInv, StackInv, FrameInv, Keys
  <2>2. /\ frame.pres \in Seq(0 .. MaxHooks) /\ frame.posts \in Seq(0 .. MaxHooks)
        /\ frame.at \in Int /\ frame.at - 1 \in Int /\ frame.born \in Nat
        /\ frame.born <= registered
    BY <2>1, BoundsAssumption DEF Frames, CallInv
  <2>3. ~InTime(pair, frame)
    BY <1>2, <1>3, <2>2 DEF InTime
  <2>4. ASSUME PairsInv(frame) PROVE PairsInv(frame)'
    <3>1. CASE frame.f = k
      <4> DEFINE list == hooks[k]
      <4>1. /\ list \in Seq(Pairs) /\ hooks'[k] = Append(list, pair)
        BY <1>4
      <4> HIDE DEF list
      <4>2. /\ \A n \in {frame.at, frame.at - 1} :
                   /\ RanTo(frame.pres, list, "pre", n) =>
                          RanTo(frame.pres, Append(list, pair), "pre", n)
                   /\ RanTo(frame.posts, list, "post", n) =>
                          RanTo(frame.posts, Append(list, pair), "post", n)
            /\ RanAll(frame.pres, list, "pre", frame) =>
                   RanAll(frame.pres, Append(list, pair), "pre", frame)
            /\ RanAll(frame.posts, list, "post", frame) =>
                   RanAll(frame.posts, Append(list, pair), "post", frame)
            /\ NoneDue(list, "post", frame) => NoneDue(Append(list, pair), "post", frame)
        BY <1>3, <2>2, <2>3, <4>1, ListGrows
      <4>3. QED
        BY <2>4, <3>1, <4>1, <4>2 DEF PairsInv, list
    <3>2. CASE frame.f # k
      BY <1>4, <2>1, <2>4, <3>2 DEF PairsInv
    <3>3. QED
      BY <3>1, <3>2
  <2>5. frame.born <= registered'
    BY <1>1, <1>2, <2>2
  <2>6. CallInv(frame)'
    BY <1>1, <2>1, <2>4, <2>5 DEF CallInv, SpanInv, Spanned, scopeVars
  <2>7. QED
    BY <1>1, <2>6 DEF CallInv, PairsInv, SpanInv, Spanned
<1>11. CallsInv'
  BY <1>1, <1>10 DEF CallsInv
<1>12. RequestInv'
  BY <1>1 DEF RequestInv, scopeVars
<1>13. QED
  BY <1>8, <1>9, <1>11, <1>12 DEF PInv

\* The pairs a function has when it has been observed are in order.
LEMMA ObservedList ==
    ASSUME IInv, PInv, NEW f \in User, ~observed[f].known
    PROVE  LET list == HooksWhenObserved(f)
           IN  /\ list \in Seq(Pairs)
               /\ \A i \in 1 .. Len(list) :
                      /\ list[i].n <= registered
                      /\ \A j \in 1 .. Len(list) : i < j => list[i].n < list[j].n
<1> DEFINE found == IF hooks[f] # <<>> THEN hooks[f] ELSE FromInterface(f)
           Fits(list) == /\ list \in Seq(Pairs)
                         /\ \A i \in 1 .. Len(list) :
                                /\ list[i].n \in Nat /\ list[i].n <= registered /\ list[i].n > 0
                                /\ \A j \in 1 .. Len(list) : i < j => list[i].n < list[j].n
<1>1. f \in Keys /\ \A k \in Interface : k \in Keys /\ k \notin User
  BY DisjointAssumption DEF Keys
<1>2. found = <<>> \/ found = hooks[f] \/ \E k \in Interface : found = hooks[k]
  <2> DEFINE hooked == {i \in DOMAIN Implements[f] : hooks[Implements[f][i]] # <<>>}
  <2>1. CASE First(hooked) = {}
    BY <2>1 DEF FromInterface
  <2>2. CASE First(hooked) # {}
    <3>1. PICK i \in First(hooked) : i = CHOOSE j \in First(hooked) : TRUE
      BY <2>2
    <3>2. i \in DOMAIN Implements[f]
      BY <3>1 DEF First
    <3>3. Implements[f][i] \in Interface
      BY <3>2, ImplementsAssumption
    <3>4. FromInterface(f) = hooks[Implements[f][i]]
      BY <2>2, <3>1 DEF FromInterface
    <3>5. QED
      BY <3>3, <3>4
  <2>3. QED
    BY <2>1, <2>2
<1>3. Fits(found)
  <2>1. Fits(<<>>)
    <3>1. <<>> \in Seq(Pairs) /\ Len(<<>>) = 0
      OBVIOUS
    <3>2. QED
      BY <3>1
  <2>2. Fits(hooks[f])
    BY <1>1, PairFacts DEF PInv, ListsInv
  <2>3. ASSUME NEW k \in Interface PROVE Fits(hooks[k])
    <3>1. k \in Keys /\ k \notin User
      BY <1>1
    <3>2. QED
      BY <3>1, PairFacts DEF PInv, ListsInv
  <2> HIDE DEF found, Fits
  <2>4. QED
    BY <1>2, <2>1, <2>2, <2>3
<1>4. HooksWhenObserved(f) = found \/ HooksWhenObserved(f) = <<DebugPair>> \o found
  BY DEF HooksWhenObserved
<1> HIDE DEF found
<1>5. CASE HooksWhenObserved(f) = found
  BY <1>3, <1>5
<1>6. CASE HooksWhenObserved(f) = <<DebugPair>> \o found
  <2> DEFINE list == <<DebugPair>> \o found
  <2>1. DebugPair \in Pairs /\ DebugPair.n = 0
    BY BoundsAssumption DEF DebugPair, Pairs
  <2>2. /\ <<DebugPair>> \in Seq(Pairs) /\ Len(<<DebugPair>>) = 1 /\ <<DebugPair>>[1] = DebugPair
    BY <2>1
  <2>3. Len(found) \in Nat
    BY <1>3
  <2>4. /\ list \in Seq(Pairs) /\ Len(list) = 1 + Len(found)
        /\ \A i \in 1 .. 1 + Len(found) :
               list[i] = IF i <= 1 THEN <<DebugPair>>[i] ELSE found[i - 1]
    BY <1>3, <2>2, ConcatProperties
  <2> HIDE DEF list
  <2>5. ASSUME NEW i \in 1 .. Len(list)
        PROVE  \/ i = 1 /\ list[i].n = 0
               \/ i - 1 \in 1 .. Len(found) /\ list[i] = found[i - 1]
    <3>1. CASE i = 1
      BY <2>1, <2>2, <2>3, <2>4, <3>1
    <3>2. CASE i # 1
      BY <2>3, <2>4, <3>2
    <3>3. QED
      BY <3>1, <3>2
  <2>6. registered \in Nat
    BY PairFacts
  <2>7. ASSUME NEW i \in 1 .. Len(list) PROVE list[i].n <= registered
    BY <1>3, <2>5, <2>6
  <2>8. ASSUME NEW i \in 1 .. Len(list), NEW j \in 1 .. Len(list), i < j
        PROVE  list[i].n < list[j].n
    <3>1. j - 1 \in 1 .. Len(found) /\ list[j] = found[j - 1]
      <4>1. j # 1
        BY <2>8
      <4>2. QED
        BY <2>5, <4>1
    <3>2. CASE i = 1 /\ list[i].n = 0
      BY <1>3, <3>1, <3>2
    <3>3. CASE i - 1 \in 1 .. Len(found) /\ list[i] = found[i - 1]
      <4>1. i - 1 < j - 1
        BY <2>3, <2>4, <2>8
      <4>2. QED
        BY <1>3, <3>1, <3>3, <4>1
    <3>4. QED
      BY <2>5, <3>2, <3>3
  <2>9. QED
    BY <1>6, <2>4, <2>7, <2>8 DEF list
<1>7. QED
  BY <1>4, <1>5, <1>6

\* The first call of a function in a request observes it: its pairs, its attribute
\* and the handlers that the engine is given agree from then on.
LEMMA ObserveKeeps ==
    ASSUME IInv, PInv, NEW f \in User, Observe(f),
           UNCHANGED <<scopeVars, registered, handler>>
    PROVE  /\ ListsInv' /\ ObservedInv' /\ observed'[f].known
           /\ \A frame \in Frames : CallInv(frame) /\ frame.f \in Keys => CallInv(frame)'
<1>1. CASE observed[f].known
  <2>1. UNCHANGED <<hooks, spans, observed>>
    BY <1>1 DEF Observe
  <2>2. ListsInv' /\ ObservedInv' /\ observed'[f].known
    BY <1>1, <2>1 DEF PInv, ListsInv, ObservedInv, Spanned, Keys, scopeVars
  <2>3. ASSUME NEW frame, CallInv(frame) PROVE CallInv(frame)'
    BY <2>1, <2>3 DEF CallInv, PairsInv, SpanInv, Spanned, scopeVars
  <2>4. QED
    BY <2>2, <2>3
<1>2. CASE ~observed[f].known
  <2> DEFINE list == HooksWhenObserved(f)
  <2>1. /\ hooks' = [hooks EXCEPT ![f] = list]
        /\ spans' = [spans EXCEPT ![f] = SpanStored(f)]
        /\ observed' = [observed EXCEPT ![f] = HandlersFor(hooks'[f], Spanned(f))]
    BY <1>2 DEF Observe
  <2>2. /\ list \in Seq(Pairs)
        /\ \A i \in 1 .. Len(list) :
               /\ list[i].n <= registered
               /\ \A j \in 1 .. Len(list) : i < j => list[i].n < list[j].n
    BY <1>2, ObservedList
  <2> HIDE DEF list
  <2>3. f \in Keys /\ f \notin Internal
    BY DisjointAssumption DEF Keys
  <2>4. /\ hooks'[f] = list /\ spans'[f] = SpanStored(f)
        /\ observed'[f] = HandlersFor(list, Spanned(f))
        /\ \A k \in Keys : k # f => hooks'[k] = hooks[k]
        /\ \A g \in User : g # f => spans'[g] = spans[g] /\ observed'[g] = observed[g]
    BY <2>1, <2>3, Parts DEF TypeRest
  <2>5. observed'[f].known
    BY <2>4 DEF HandlersFor
  <2>6. ListsInv'
    <3>1. ASSUME NEW k \in Keys, NEW i \in 1 .. Len(hooks'[k])
          PROVE  /\ hooks'[k][i].n <= registered
                 /\ k \notin User => hooks'[k][i].n > 0
                 /\ \A j \in 1 .. Len(hooks'[k]) : i < j => hooks'[k][i].n < hooks'[k][j].n
      <4>1. CASE k = f
        BY <2>2, <2>4, <4>1
      <4>2. CASE k # f
        BY <2>4, <4>2 DEF PInv, ListsInv
      <4>3. QED
        BY <4>1, <4>2
    <3>2. ASSUME NEW g \in User, ~observed'[g].known, NEW i \in 1 .. Len(hooks'[g])
          PROVE  hooks'[g][i].n > 0
      <4>1. g # f /\ g \in Keys
        BY <2>5, <3>2 DEF Keys
      <4>2. QED
        BY <2>4, <3>2, <4>1 DEF PInv, ListsInv
    <3>3. ASSUME NEW g \in Internal, hooks'[g] # <<>> PROVE handler[g] = "wrapper"
      <4>1. g # f /\ g \in Keys
        BY <2>3 DEF Keys
      <4>2. QED
        BY <2>4, <3>3, <4>1 DEF PInv, ListsInv
    <3>4. QED
      BY <3>1, <3>2, <3>3 DEF ListsInv, Keys
  <2>7. ObservedInv'
    <3>1. Spanned(f) => SpanStored(f) = code[f]
      BY DEF SpanStored
    <3>2. \A g \in User : Spanned(g)' = Spanned(g)
      BY DEF Spanned, scopeVars
    <3>3. DOMAIN list = 1 .. Len(list)
      BY <2>2
    <3> DEFINE begin == Spanned(f) \/ \E i \in DOMAIN list : list[i].pre
               end == Spanned(f) \/ \E i \in DOMAIN list : list[i].post
    <3>4. observed'[f] = [begin |-> begin, end |-> end, known |-> TRUE]
      BY <2>4 DEF HandlersFor
    <3>5. /\ Spanned(f) => begin /\ end
          /\ \A i \in DOMAIN list : (list[i].pre => begin) /\ (list[i].post => end)
      OBVIOUS
    <3> HIDE DEF begin, end
    <3>6. observed'[f].begin = begin /\ observed'[f].end = end
      BY <3>4
    <3>7. \A i \in 1 .. Len(list) : /\ list[i].pre => observed'[f].begin
                                    /\ list[i].post => observed'[f].end
      BY <3>3, <3>5, <3>6
    <3>8. Spanned(f) => observed'[f].begin /\ observed'[f].end
      BY <3>5, <3>6
    <3>9. ASSUME NEW g \in User, observed'[g].known
          PROVE  /\ \A i \in 1 .. Len(hooks'[g]) : ~hooks'[g][i].late =>
                        /\ hooks'[g][i].pre => observed'[g].begin
                        /\ hooks'[g][i].post => observed'[g].end
                 /\ Spanned(g) => /\ spans'[g] = code[g]
                                  /\ observed'[g].begin /\ observed'[g].end
      <4>1. CASE g = f
        BY <2>4, <3>1, <3>7, <3>8, <4>1
      <4>2. CASE g # f
        <5>1. hooks'[g] = hooks[g] /\ spans'[g] = spans[g] /\ observed'[g] = observed[g]
          BY <2>4, <4>2 DEF Keys
        <5>2. QED
          BY <3>9, <5>1 DEF PInv, ObservedInv
      <4>3. QED
        BY <4>1, <4>2
    <3>10. code' = code
      BY DEF scopeVars
    <3>11. QED
      BY <3>2, <3>9, <3>10 DEF ObservedInv
  <2>8. ASSUME NEW frame \in Frames, CallInv(frame), frame.f \in Keys PROVE CallInv(frame)'
    <3>1. frame.f # f
      BY <1>2, <2>8 DEF CallInv
    <3>2. /\ hooks'[frame.f] = hooks[frame.f]
          /\ frame.f \in User => observed'[frame.f] = observed[frame.f]
      BY <2>4, <2>8, <3>1
    <3>3. QED
      BY <2>8, <3>2 DEF CallInv, PairsInv, SpanInv, Spanned, scopeVars
  <2>9. QED
    BY <2>5, <2>6, <2>7, <2>8
<1>3. QED
  BY <1>1, <1>2

\* The call of a user function: without a begin or an end handler there is no hook
\* in time that would need one.
LEMMA CallUserCall ==
    ASSUME IInv, IInv', PInv, NEW f \in User, CallUser(f)
    PROVE  PInv'
<1> DEFINE step == IF observed'[f].begin THEN "pre" ELSE "body"
           list == hooks'[f]
<1> PICK frame : frame = Frame(f, step, observed'[f].end)
  OBVIOUS
<1>1. /\ Observe(f) /\ stack' = Append(stack, frame) /\ request # "outside"
      /\ UNCHANGED <<scopeVars, registered, handler>>
  BY DEF CallUser, PhpContinues, PhpRuns
<1>2. /\ ListsInv' /\ ObservedInv' /\ observed'[f].known
      /\ \A fr \in Frames : CallInv(fr) /\ fr.f \in Keys => CallInv(fr)'
  BY <1>1, ObserveKeeps
<1>3. /\ frame.f = f /\ frame.step = step /\ frame.ends = observed'[f].end /\ frame.at = 1
      /\ frame.born = registered /\ frame.pres = <<>> /\ frame.posts = <<>>
  BY DEF Frame
<1>4. f \in Keys
  BY DEF Keys
<1>5. /\ list \in Seq(Pairs) /\ Len(list) \in Nat /\ registered \in Nat
  <2>1. hooks' \in [Keys -> Seq(Pairs)]
    BY DEF IInv, TypeOK, Keys
  <2>2. QED
    BY <1>4, <2>1, PairFacts
<1>6. /\ ~observed'[f].begin => NoneDue(list, "pre", frame)
      /\ ~observed'[f].end => NoneDue(list, "post", frame)
  BY <1>2 DEF ObservedInv, NoneDue, InTime
<1>7. RanTo(<<>>, list, "pre", 0)
  BY <1>5 DEF RanTo, Increasing
<1>8. PairsInv(frame)'
  <2>1. CASE observed'[f].begin
    <3>1. frame.step = "pre" /\ frame.at - 1 = 0
      BY <1>3, <2>1
    <3>2. QED
      BY <1>3, <1>6, <1>7, <3>1 DEF PairsInv
  <2>2. CASE ~observed'[f].begin
    <3>1. frame.step = "body"
      BY <1>3, <2>2
    <3>2. RanAll(<<>>, list, "pre", frame)
      BY <1>5, <1>6, <2>2, RanNone
    <3>3. QED
      BY <1>3, <1>6, <3>1, <3>2 DEF PairsInv
  <2>3. QED
    BY <2>1, <2>2
<1>9. Spanned(f)' => SpanInv(frame)'
  <2>1. Spanned(f)' => observed'[f].begin /\ observed'[f].end
    BY <1>2 DEF ObservedInv
  <2>2. observed'[f].begin => frame.step = "pre"
    BY <1>3
  <2>3. QED
    BY <1>3, <2>1, <2>2 DEF SpanInv
<1>10. CallInv(frame)'
  <2>1. frame.born <= registered'
    BY <1>1, <1>3, <1>5
  <2>2. QED
    BY <1>2, <1>3, <1>8, <1>9, <2>1 DEF CallInv
<1>11. CallsInv'
  <2>1. stack \in Seq(Frames) /\ Len(stack) \in Nat
    BY DEF IInv, StackInv
  <2>2. /\ Len(stack') = Len(stack) + 1
        /\ \A j \in 1 .. Len(stack') : stack'[j] = IF j = Len(stack) + 1 THEN frame ELSE stack[j]
    BY <1>1, <2>1
  <2>3. ASSUME NEW j \in 1 .. Len(stack'), stack'[j].step # "error" PROVE CallInv(stack[j])'
    <3> PICK fr : fr = stack'[j]
      OBVIOUS
    <3>1. CallInv(fr)'
      <4>1. CASE j = Len(stack) + 1
        BY <1>10, <2>2, <4>1
      <4>2. CASE j # Len(stack) + 1
        <5>1. j \in 1 .. Len(stack) /\ fr = stack[j]
          BY <2>1, <2>2, <4>2
        <5>2. CallInv(fr) /\ fr \in Frames /\ fr.f \in Keys
          BY <2>1, <2>3, <5>1 DEF PInv, CallsInv, IInv, StackInv, FrameInv, Keys
        <5>3. QED
          BY <1>2, <5>2
      <4>3. QED
        BY <4>1, <4>2
    <3>2. QED
      BY <3>1 DEF CallInv, PairsInv, SpanInv, Spanned
  <2>4. QED
    BY <2>3 DEF CallsInv
<1>12. RequestInv'
  BY <1>1 DEF RequestInv, scopeVars
<1>13. QED
  BY <1>2, <1>11, <1>12 DEF PInv

\* Requests start and end with an empty stack, and with no hooks.
LEMMA RequestCall ==
    ASSUME IInv, PInv,
           \/ \E bootstraps \in BOOLEAN, d \in Deployments : RequestInit(bootstraps, d)
           \/ \E success \in BOOLEAN : Bootstrapped(success)
           \/ RequestEnd
    PROVE  PInv'
<1>1. stack' = <<>>
  BY DEF RequestInit, Bootstrapped, RequestEnd, PInv, RequestInv
<1>2. RequestInv' /\ CallsInv'
  BY <1>1 DEF RequestInv, CallsInv
<1>3. ASSUME hooks' = [k \in Keys |-> <<>>] PROVE ListsInv'
  <2>1. \A k \in Keys : hooks'[k] = <<>> /\ Len(hooks'[k]) = 0
    BY <1>3
  <2>2. QED
    BY <2>1 DEF ListsInv, Keys
<1>4. ASSUME NEW bootstraps \in BOOLEAN, NEW d \in Deployments, RequestInit(bootstraps, d)
      PROVE  ListsInv' /\ ObservedInv'
  <2>1. hooks' = [k \in Keys |-> <<>>] /\ observed' = [f \in User |-> NotYet]
    BY <1>4 DEF RequestInit
  <2>2. \A f \in User : ~observed'[f].known
    BY <2>1 DEF NotYet
  <2>3. QED
    BY <1>3, <2>1, <2>2 DEF ObservedInv
<1>5. ASSUME RequestEnd PROVE ListsInv' /\ ObservedInv'
  <2>1. hooks' = [k \in Keys |-> <<>>] /\ UNCHANGED <<config, code, observed, spans>>
    BY <1>5 DEF RequestEnd
  <2>2. \A f \in User : hooks'[f] = <<>> /\ Len(hooks'[f]) = 0
    BY <2>1 DEF Keys
  <2>3. QED
    BY <1>3, <2>1, <2>2 DEF PInv, ObservedInv, Spanned
<1>6. ASSUME NEW success \in BOOLEAN, Bootstrapped(success) PROVE ListsInv' /\ ObservedInv'
  BY <1>6 DEF Bootstrapped, PInv, ListsInv, ObservedInv, Spanned, Keys, storageVars
<1>7. QED
  BY <1>2, <1>4, <1>5, <1>6 DEF PInv

\* The invariant of lists, observers and calls holds in every reachable state.
THEOREM CallInvariance == Spec => []PInv
<1>1. Init => PInv
  <2> SUFFICES ASSUME Init PROVE PInv
    OBVIOUS
  <2>1. stack = <<>> /\ Len(stack) = 0
    BY DEF Init
  <2>2. \A k \in Keys : hooks[k] = <<>> /\ Len(hooks[k]) = 0
    BY DEF Init
  <2>3. \A f \in User : ~observed[f].known
    BY DEF Init, NotYet
  <2>4. QED
    BY <2>1, <2>2, <2>3 DEF PInv, RequestInv, ListsInv, ObservedInv, CallsInv, Keys
<1>2. IInv /\ IInv' /\ PInv /\ [Next]_vars => PInv'
  <2> SUFFICES ASSUME IInv, IInv', PInv, [Next]_vars PROVE PInv'
    OBVIOUS
  <2>1. CASE UNCHANGED vars
    BY <2>1 DEF vars, scopeVars, storageVars, PInv, RequestInv, ListsInv, ObservedInv,
                CallsInv, CallInv, PairsInv, SpanInv, Spanned, Keys
  <2>2. CASE Next
    BY <2>2, RequestCall, HookCall, CallInternalCall, CallUserCall, NextPreCall,
       NextPostCall, EndHookCall, EndBodyCall, UnwindCall DEF Next
  <2>3. QED
    BY <2>1, <2>2
<1>3. QED
  BY <1>1, <1>2, Invariance, PTL DEF Spec

\* A finished call has run the hooks that were registered in time, each once and in
\* the order of registration, whatever its hooks and those of nested calls do
\* (registerObserverHandlers and the loops of the observer and of
\* internal_function_handler).
THEOREM HooksRunInPairs == Spec => []PairsRun
<1>1. IInv /\ PInv => PairsRun
  <2> SUFFICES ASSUME IInv, PInv, stack # <<>>, Top.step = "return", Top.f \in User \/ functional
               PROVE  /\ RanAll(Top.pres, hooks[Top.f], "pre", Top)
                      /\ RanAll(Top.posts, hooks[Top.f], "post", Top)
    BY DEF PairsRun
  <2>1. PairsInv(Top)
    BY TopCall DEF CallInv
  <2>2. QED
    BY <2>1 DEF PairsInv
<1>2. QED
  BY <1>1, Invariance, CallInvariance, PTL

\* The span of a finished call has the attribute of the code of this request, also
\* when AttrHooksStorage had another one from an earlier request.
THEOREM CurrentSpans == Spec => []SpanIsCurrent
<1>1. IInv /\ PInv => SpanIsCurrent
  <2> SUFFICES ASSUME IInv, PInv, stack # <<>>, Top.step = "return", Top.f \in User, functional,
                      Spanned(Top.f)
               PROVE  Top.span = code[Top.f] /\ Top.spanEnded
    BY DEF SpanIsCurrent
  <2>1. SpanInv(Top)
    BY TopCall DEF CallInv
  <2>2. QED
    BY <2>1 DEF SpanInv
<1>2. QED
  BY <1>1, Invariance, CallInvariance, PTL

-----------------------------------------------------------------------------
(* Induction *)

Less == {p \in Nat \X Nat : p[1] < p[2]}

\* A nonempty set of naturals has a least element.
LEMMA LeastElement ==
    ASSUME NEW T, T \subseteq Nat, T # {}
    PROVE  \E x \in T : \A y \in T : x <= y
<1>1. IsWellFoundedOn(Less, Nat)
  BY NatLessThanWellFounded, Zenon DEF OpToRel, Less
<1>2. \E x \in T : \A y \in T : <<y, x>> \notin Less
  BY <1>1, WFMin
<1>3. \A x, y \in Nat : <<y, x>> \in Less <=> y < x
  BY DEF Less
<1>4. PICK x \in T : \A y \in T : <<y, x>> \notin Less
  BY <1>2
<1>5. ASSUME NEW y \in T PROVE x <= y
  <2>1. x \in Nat /\ y \in Nat /\ ~ (y < x)
    BY <1>3, <1>4
  <2> QED
    BY <2>1
<1> QED
  BY <1>4, <1>5

\* Induction, for the set of the naturals that have a property.
LEMMA Induct ==
    ASSUME NEW S, 0 \in S, \A n \in Nat : n \in S => n + 1 \in S
    PROVE  Nat \subseteq S
<1>1. SUFFICES ASSUME Nat \ S # {} PROVE FALSE
  OBVIOUS
<1>2. PICK x \in Nat \ S : \A y \in Nat \ S : x <= y
  <2> DEFINE T == Nat \ S
  <2>1. T # {} /\ T \subseteq Nat
    BY <1>1
  <2> HIDE DEF T
  <2>2. \E x \in T : \A y \in T : x <= y
    BY <2>1, LeastElement
  <2> QED
    BY <2>2 DEF T
<1>3. x # 0 /\ x - 1 \in Nat /\ ~(x <= x - 1)
  BY <1>2
<1>4. x - 1 \in S
  BY <1>2, <1>3
<1>5. (x - 1) + 1 = x
  BY <1>2
<1> QED
  BY <1>2, <1>3, <1>4, <1>5

\* A nonempty set of numbers up to a bound has a greatest element.
LEMMA GreatestElement ==
    ASSUME NEW n \in Nat, NEW T, T \subseteq 0 .. n, T # {}
    PROVE  \E x \in T : \A y \in T : y <= x
<1> DEFINE U == {n - x : x \in T}
<1>0. \A x \in T : n - x \in Nat
  OBVIOUS
<1>1. U \subseteq Nat /\ U # {}
  BY <1>0, Zenon
<1>2. \A x \in T : n - x \in U
  OBVIOUS
<1>3. \A u \in U : \E x \in T : u = n - x
  OBVIOUS
<1> HIDE DEF U
<1>4. PICK u \in U : \A v \in U : u <= v
  BY <1>1, LeastElement
<1>5. PICK x \in T : u = n - x
  BY <1>3
<1>6. ASSUME NEW y \in T PROVE y <= x
  <2>1. u <= n - y
    BY <1>2, <1>4
  <2> QED
    BY <2>1, <1>5
<1> QED
  BY <1>6

-----------------------------------------------------------------------------
(* Where arguments are *)

\* Positions whose argument argsPostProcessing writes where the engine reads it.
Covered(f, p) == IsInternal(f) \/ f.lastVar = Len(f.params) \/ p < Len(f.params)

\* STRING, with the strings written out that the model uses itself.
Values == STRING \cup {"undef", "null", "gap", "passed"}

SlotNumbers == 0 .. FrameSize - 1
SlotSets == [SlotNumbers -> Values]
Entries == [name : STRING, index : Nat, value : STRING \ {"undef", "gap"}]

\* What is known of a function that is called.
LEMMA CalleeFacts ==
    ASSUME NEW f \in Callees
    PROVE  /\ Len(f.params) \in Nat /\ f.params \in Seq(STRING)
           /\ f.lastVar \in Nat /\ f.T \in Nat /\ Len(f.params) <= f.lastVar
           /\ FrameSize \in Nat /\ MaxPassed \in Nat
           /\ f.lastVar + f.T + MaxPassed < FrameSize
           /\ \A ret \in Returned : \A i \in 1 .. Len(ret) : f.lastVar + f.T + ret[i].index < FrameSize
<1>1. f.params \in Seq(STRING) /\ f.lastVar \in Nat /\ f.T \in Nat /\ Len(f.params) <= f.lastVar
  BY CalleesAssumption
<1>2. Len(f.params) \in Nat
  BY <1>1, LenProperties
<1>3. \A ret \in Returned : DOMAIN ret = 1 .. Len(ret)
  BY ReturnedAssumption, LenProperties
<1>4. /\ FrameSize \in Nat /\ MaxPassed \in Nat
      /\ f.lastVar + f.T + MaxPassed < FrameSize
      /\ \A ret \in Returned : \A i \in DOMAIN ret : f.lastVar + f.T + ret[i].index < FrameSize
  BY FrameAssumption, Zenon
<1>5. \A ret \in Returned : \A i \in 1 .. Len(ret) : f.lastVar + f.T + ret[i].index < FrameSize
  BY <1>3, <1>4, Zenon
<1> QED
  BY <1>1, <1>2, <1>4, <1>5

\* What is known of an array that a pre hook returns.
LEMMA ReturnedFacts ==
    ASSUME NEW ret \in Returned
    PROVE  /\ ret \in Seq(Entries) /\ Len(ret) \in Nat /\ DOMAIN ret = 1 .. Len(ret)
           /\ \A i \in 1 .. Len(ret) : /\ ret[i].name \in STRING /\ ret[i].index \in Nat
                                       /\ ret[i].value \in Values
                                       /\ ret[i].value # "undef" /\ ret[i].value # "gap"
<1>1. ret \in Seq(Entries)
  BY ReturnedAssumption DEF Entries
<1>2. Len(ret) \in Nat /\ DOMAIN ret = 1 .. Len(ret) /\ \A i \in 1 .. Len(ret) : ret[i] \in Entries
  BY <1>1, LenProperties, ElementOfSeq
<1> QED
  BY <1>1, <1>2 DEF Entries, Values

\* Both numberings of the slots agree on covered positions, no slot belongs to two
\* positions, and there is room.
LEMMA TargetFacts ==
    ASSUME NEW f \in Callees, NEW n
    PROVE  /\ \A p \in Nat : Target(f, n, p) \in Nat
           /\ \A p \in Nat : Covered(f, p) => SlotOf(f, p) = Target(f, n, p)
           /\ \A p, q \in Nat : Target(f, n, p) = Target(f, n, q) => p = q
           /\ \A p \in Nat : p < Len(f.params) => Target(f, n, p) = p /\ Target(f, n, p) \in SlotNumbers
           /\ \A p, m \in Nat : p < m /\ f.lastVar + f.T + m <= FrameSize => Target(f, n, p) \in SlotNumbers
           /\ \A p \in Nat : f.lastVar + f.T + p < FrameSize => Target(f, n, p) \in SlotNumbers
<1> DEFINE P == Len(f.params)
<1> DEFINE L == f.lastVar
<1> DEFINE T == f.T
<1> DEFINE I == IsInternal(f)
<1>1. P \in Nat /\ L \in Nat /\ T \in Nat /\ P <= L /\ FrameSize \in Nat /\ MaxPassed \in Nat
      /\ (L + T) + MaxPassed < FrameSize
  BY CalleeFacts, Zenon
<1>2. \A p : Target(f, n, p) = IF I \/ p < L THEN p ELSE p + T
  BY DEF Target
<1>3. \A p \in Nat : SlotOf(f, p) = IF I \/ p < P THEN p ELSE ((L + T) + p) - P
  BY <1>1, SMT DEF SlotOf
<1>4. \A p : Covered(f, p) <=> I \/ L = P \/ p < P
  BY DEF Covered
<1> HIDE DEF P, L, T, I
<1>5. \A p \in Nat : Target(f, n, p) \in Nat
  BY <1>1, <1>2
<1>6. \A p \in Nat : Covered(f, p) => SlotOf(f, p) = Target(f, n, p)
  BY <1>1, <1>2, <1>3, <1>4
<1>7. \A p, q \in Nat : Target(f, n, p) = Target(f, n, q) => p = q
  BY <1>1, <1>2
<1>8. \A p \in Nat : p < P => Target(f, n, p) = p /\ Target(f, n, p) \in SlotNumbers
  BY <1>1, <1>2 DEF SlotNumbers
<1>9. \A p, m \in Nat : p < m /\ (L + T) + m <= FrameSize => Target(f, n, p) \in SlotNumbers
  BY <1>1, <1>2 DEF SlotNumbers
<1>10. \A p \in Nat : (L + T) + p < FrameSize => Target(f, n, p) \in SlotNumbers
  BY <1>1, <1>2 DEF SlotNumbers
<1> QED
  BY <1>5, <1>6, <1>7, <1>8, <1>9, <1>10, Zenon DEF P, L, T

\* A position is that of an index or of a parameter; it has a slot.
LEMMA PositionFacts ==
    ASSUME NEW f \in Callees, NEW ret \in Returned, NEW i \in 1 .. Len(ret), NEW n
    PROVE  /\ Position(f, ret[i]) \in Nat \cup {-1}
           /\ Position(f, ret[i]) # -1 => Target(f, n, Position(f, ret[i])) \in SlotNumbers
           /\ ret[i].name # "" => Position(f, ret[i]) = getFunctionArgumentIndex(ret[i].name, f)
           /\ ret[i].name = "" => Position(f, ret[i]) = ret[i].index
<1>1. ret[i].index \in Nat /\ f.lastVar + f.T + ret[i].index < FrameSize
  BY ReturnedFacts, CalleeFacts
<1>2. getFunctionArgumentIndex(ret[i].name, f) \in Nat \cup {-1}
      /\ getFunctionArgumentIndex(ret[i].name, f) < Len(f.params)
  <2>1. DOMAIN f.params = 1 .. Len(f.params) /\ Len(f.params) \in Nat
    BY CalleeFacts, LenProperties
  <2>2. CASE \E k \in DOMAIN f.params : f.params[k] = ret[i].name
    <3> DEFINE c == CHOOSE k \in DOMAIN f.params : f.params[k] = ret[i].name
    <3>1. c \in DOMAIN f.params
      BY <2>2
    <3>2. getFunctionArgumentIndex(ret[i].name, f) = c - 1
      BY <2>2 DEF getFunctionArgumentIndex
    <3> HIDE DEF c
    <3> QED
      BY <3>1, <3>2, <2>1
  <2>3. CASE ~ \E k \in DOMAIN f.params : f.params[k] = ret[i].name
    BY <2>1, <2>3 DEF getFunctionArgumentIndex
  <2> QED
    BY <2>2, <2>3
<1>3. CASE ret[i].name = ""
  <2>1. Position(f, ret[i]) = ret[i].index
    BY <1>3 DEF Position
  <2> QED
    BY <1>1, <1>3, <2>1, TargetFacts
<1>4. CASE ret[i].name # ""
  <2>1. Position(f, ret[i]) = getFunctionArgumentIndex(ret[i].name, f)
    BY <1>4 DEF Position
  <2> QED
    BY <1>2, <1>4, <2>1, TargetFacts
<1> QED
  BY <1>3, <1>4

\* An array that is returned says nothing of a position, or has a last entry for it.
Silent(f, ret, p) == \A j \in 1 .. Len(ret) : Position(f, ret[j]) # p
LastFor(f, ret, p, i) ==
    /\ i \in 1 .. Len(ret)
    /\ Position(f, ret[i]) = p
    /\ \A j \in 1 .. Len(ret) : Position(f, ret[j]) = p => j <= i

\* One of the two is always the case.
LEMMA SilentOrLast ==
    ASSUME NEW f \in Callees, NEW ret \in Returned, NEW p
    PROVE  Silent(f, ret, p) \/ \E i : LastFor(f, ret, p, i)
<1> DEFINE T == {i \in 1 .. Len(ret) : Position(f, ret[i]) = p}
<1>1. Len(ret) \in Nat
  BY ReturnedFacts
<1>2. T \subseteq 0 .. Len(ret)
  BY <1>1
<1>3. \A i : i \in T <=> i \in 1 .. Len(ret) /\ Position(f, ret[i]) = p
  OBVIOUS
<1> HIDE DEF T
<1>4. CASE T = {}
  BY <1>3, <1>4 DEF Silent
<1>5. CASE T # {}
  <2>1. PICK i \in T : \A j \in T : j <= i
    BY <1>1, <1>2, <1>5, GreatestElement
  <2>2. LastFor(f, ret, p, i)
    BY <1>3, <2>1, Zenon DEF LastFor
  <2> QED
    BY <2>2
<1> QED
  BY <1>4, <1>5

-----------------------------------------------------------------------------
(* What argsPostProcessing writes *)

\* One round of its loop, and the rounds up to m.
PutStep(f, n, was, e) ==
    IF Position(f, e) = -1 THEN was ELSE [was EXCEPT ![Target(f, n, Position(f, e))] = e.value]
PutRun(f, n, base, ret, m, g) ==
    g = [k \in 0 .. m |-> IF k = 0 THEN base ELSE PutStep(f, n, g[k - 1], ret[k])]

\* The rounds of the loop, element by element.
LEMMA PutRunFrom ==
    ASSUME NEW f, NEW n, NEW base, NEW ret, NEW m \in Nat, NEW g,
           g = [k \in 0 .. m |-> g[k]], g[0] = base,
           \A k \in 1 .. m : g[k] = PutStep(f, n, g[k - 1], ret[k])
    PROVE  PutRun(f, n, base, ret, m, g)
<1> DEFINE h == [k \in 0 .. m |-> IF k = 0 THEN base ELSE PutStep(f, n, g[k - 1], ret[k])]
<1>1. \A k \in 0 .. m : g[k] = h[k]
  <2>1. SUFFICES ASSUME NEW k \in 0 .. m PROVE g[k] = h[k]
    OBVIOUS
  <2>2. CASE k = 0
    BY <2>2
  <2>3. CASE k # 0
    <3>1. k \in 1 .. m
      BY <2>3
    <3>2. g[k] = PutStep(f, n, g[k - 1], ret[k])
      BY <3>1
    <3> QED
      BY <2>3, <3>2
  <2> QED
    BY <2>2, <2>3
<1>2. [k \in 0 .. m |-> g[k]] = h
  BY <1>1
<1> QED
  BY <1>2 DEF PutRun

\* The function that argsPostProcessing defines exists.
LEMMA PutRunExists ==
    ASSUME NEW f, NEW n, NEW base, NEW ret
    PROVE  \A m \in Nat : \E g : PutRun(f, n, base, ret, m, g)
<1> DEFINE S == {m \in Nat : \E g : PutRun(f, n, base, ret, m, g)}
<1>1. 0 \in S
  <2> DEFINE g == [k \in 0 .. 0 |-> base]
  <2>1. g = [k \in 0 .. 0 |-> g[k]] /\ g[0] = base /\ 1 .. 0 = {}
    OBVIOUS
  <2> HIDE DEF g
  <2>2. PutRun(f, n, base, ret, 0, g)
    BY <2>1, PutRunFrom
  <2> QED
    BY <2>2
<1>2. ASSUME NEW m \in Nat, m \in S PROVE m + 1 \in S
  <2>1. PICK g : PutRun(f, n, base, ret, m, g)
    BY <1>2
  <2> DEFINE h == [k \in 0 .. m + 1 |-> IF k <= m THEN g[k] ELSE PutStep(f, n, g[m], ret[m + 1])]
  <2>2. PutRun(f, n, base, ret, m + 1, h)
    <3>1. g[0] = base /\ \A k \in 1 .. m : g[k] = PutStep(f, n, g[k - 1], ret[k])
      BY <2>1 DEF PutRun
    <3>2. h = [k \in 0 .. m + 1 |-> h[k]]
      OBVIOUS
    <3>3. \A k \in 0 .. m + 1 : h[k] = IF k <= m THEN g[k] ELSE PutStep(f, n, g[m], ret[m + 1])
      OBVIOUS
    <3>4. m + 1 \in Nat
      OBVIOUS
    <3> HIDE DEF h
    <3>5. h[0] = base
      BY <3>1, <3>3
    <3>6. ASSUME NEW k \in 1 .. m + 1 PROVE h[k] = PutStep(f, n, h[k - 1], ret[k])
      <4>1. CASE k = m + 1
        <5>1. h[k] = PutStep(f, n, g[m], ret[m + 1]) /\ h[k - 1] = g[m]
          BY <3>3, <4>1
        <5> QED
          BY <4>1, <5>1
      <4>2. CASE k # m + 1
        <5>1. k \in 1 .. m /\ h[k] = g[k] /\ h[k - 1] = g[k - 1]
          BY <3>3, <4>2
        <5> QED
          BY <3>1, <5>1
      <4> QED
        BY <4>1, <4>2
    <3> QED
      BY <3>2, <3>4, <3>5, <3>6, PutRunFrom, Zenon
  <2> HIDE DEF h
  <2> QED
    BY <2>2
<1> HIDE DEF S
<1>3. Nat \subseteq S
  BY <1>1, <1>2, Induct
<1> QED
  BY <1>3 DEF S

\* After m rounds a slot has the value of the last of the first m entries for its
\* position, without one what it had before.
PutSoFar(f, n, base, ret, m, fr) ==
    /\ fr \in SlotSets
    /\ \A p \in Nat : Target(f, n, p) \in SlotNumbers =>
        /\ (\A j \in 1 .. m : Position(f, ret[j]) # p) => fr[Target(f, n, p)] = base[Target(f, n, p)]
        /\ \A i \in 1 .. m :
             Position(f, ret[i]) = p /\ (\A j \in 1 .. m : Position(f, ret[j]) = p => j <= i)
             => fr[Target(f, n, p)] = ret[i].value

\* One more round keeps PutSoFar.
LEMMA PutSoFarStep ==
    ASSUME NEW f \in Callees, NEW n, NEW base, NEW ret \in Returned, NEW m \in Nat, m + 1 <= Len(ret),
           NEW fr, PutSoFar(f, n, base, ret, m, fr)
    PROVE  PutSoFar(f, n, base, ret, m + 1, PutStep(f, n, fr, ret[m + 1]))
<1> DEFINE e == ret[m + 1]
<1> DEFINE new == PutStep(f, n, fr, e)
<1> DEFINE q == Position(f, e)
<1>1. m + 1 \in 1 .. Len(ret)
  BY ReturnedFacts
<1>2. q \in Nat \cup {-1} /\ (q # -1 => Target(f, n, q) \in SlotNumbers)
  BY <1>1, PositionFacts
<1>3. e.value \in Values
  BY <1>1, ReturnedFacts
<1>4. fr \in SlotSets
  BY DEF PutSoFar
<1>5. new \in SlotSets
  BY <1>2, <1>3, <1>4 DEF PutStep, SlotSets
<1>6. ASSUME NEW p \in Nat, Target(f, n, p) \in SlotNumbers
      PROVE  new[Target(f, n, p)] = IF q = p THEN e.value ELSE fr[Target(f, n, p)]
  <2>1. \A x, y \in Nat : Target(f, n, x) = Target(f, n, y) => x = y
    BY TargetFacts
  <2>2. CASE q = -1
    BY <2>2 DEF PutStep
  <2>3. CASE q # -1
    <3>1. q \in Nat
      BY <1>2, <2>3
    <3>2. new = [fr EXCEPT ![Target(f, n, q)] = e.value]
      BY <2>3 DEF PutStep
    <3>3. q # p => Target(f, n, q) # Target(f, n, p)
      BY <2>1, <3>1
    <3> HIDE DEF new, q, e
    <3> QED
      BY <1>4, <1>6, <3>2, <3>3 DEF SlotSets
  <2> QED
    BY <2>2, <2>3
<1>7. \A j : j \in 1 .. m + 1 <=> j \in 1 .. m \/ j = m + 1
  OBVIOUS
<1>8. \A j \in 1 .. m : ~ (m + 1 <= j)
  OBVIOUS
<1>9. \A i \in 1 .. m + 1 : i \in 1 .. m \/ i = m + 1
  OBVIOUS
<1> HIDE DEF new
<1>10. ASSUME NEW p \in Nat, Target(f, n, p) \in SlotNumbers,
              \A j \in 1 .. m + 1 : Position(f, ret[j]) # p
       PROVE  new[Target(f, n, p)] = base[Target(f, n, p)]
  <2>1. q # p /\ \A j \in 1 .. m : Position(f, ret[j]) # p
    BY <1>7, <1>10, Zenon
  <2> HIDE DEF q
  <2> QED
    BY <1>6, <1>10, <2>1, Zenon DEF PutSoFar
<1>11. ASSUME NEW p \in Nat, Target(f, n, p) \in SlotNumbers, NEW i \in 1 .. m + 1,
              Position(f, ret[i]) = p, \A j \in 1 .. m + 1 : Position(f, ret[j]) = p => j <= i
       PROVE  new[Target(f, n, p)] = ret[i].value
  <2>1. CASE q = p
    <3>1. m + 1 <= i
      BY <1>7, <1>11, <2>1, Zenon
    <3>2. i = m + 1
      BY <1>8, <1>9, <3>1, Zenon
    <3> QED
      BY <1>6, <1>11, <2>1, <3>2, Zenon
  <2>2. CASE q # p
    <3>1. i # m + 1
      BY <1>11, <2>2, Zenon
    <3>2. i \in 1 .. m /\ \A j \in 1 .. m : Position(f, ret[j]) = p => j <= i
      BY <1>7, <1>9, <1>11, <3>1, Zenon
    <3>3. fr[Target(f, n, p)] = ret[i].value
      BY <1>11, <3>2, Zenon DEF PutSoFar
    <3> HIDE DEF q
    <3> QED
      BY <1>6, <1>11, <2>2, <3>3, Zenon
  <2> QED
    BY <2>1, <2>2, Zenon
<1> QED
  BY <1>5, <1>10, <1>11, Zenon DEF PutSoFar, new

\* PutSoFar holds when the loop of argsPostProcessing ends.
LEMMA PutRunSoFar ==
    ASSUME NEW f \in Callees, NEW n, NEW base \in SlotSets, NEW ret \in Returned, NEW g,
           PutRun(f, n, base, ret, Len(ret), g)
    PROVE  PutSoFar(f, n, base, ret, Len(ret), g[Len(ret)])
<1>1. Len(ret) \in Nat
  BY ReturnedFacts
<1>2. g[0] = base /\ \A k \in 1 .. Len(ret) : g[k] = PutStep(f, n, g[k - 1], ret[k])
  BY <1>1 DEF PutRun
<1> DEFINE S == {m \in Nat : m <= Len(ret) => PutSoFar(f, n, base, ret, m, g[m])}
<1>3. 0 \in S
  <2>1. 1 .. 0 = {}
    OBVIOUS
  <2>2. PutSoFar(f, n, base, ret, 0, base)
    BY <2>1, Zenon DEF PutSoFar
  <2>3. PutSoFar(f, n, base, ret, 0, g[0])
    BY <1>2, <2>2, Zenon
  <2> QED
    BY <2>3
<1>4. ASSUME NEW m \in Nat, m \in S PROVE m + 1 \in S
  <2>1. SUFFICES ASSUME m + 1 <= Len(ret) PROVE PutSoFar(f, n, base, ret, m + 1, g[m + 1])
    OBVIOUS
  <2>2. m <= Len(ret) /\ m + 1 \in 1 .. Len(ret) /\ (m + 1) - 1 = m
    BY <1>1, <2>1
  <2>3. PutSoFar(f, n, base, ret, m, g[m])
    BY <1>4, <2>2
  <2>4. g[m + 1] = PutStep(f, n, g[m], ret[m + 1])
    BY <1>2, <2>2
  <2> QED
    BY <2>1, <2>3, <2>4, PutSoFarStep
<1> HIDE DEF S
<1>5. Nat \subseteq S
  BY <1>3, <1>4, Induct
<1> QED
  BY <1>1, <1>5 DEF S

\* The positions that an array names by their index.
Indices(ret) == {ret[i].index : i \in {j \in DOMAIN ret : ret[j].name = ""}}

\* They are naturals, each of some entry without a name, and have slots.
LEMMA IndicesFacts ==
    ASSUME NEW ret \in Returned
    PROVE  /\ Indices(ret) \subseteq Nat
           /\ \A x : x \in Indices(ret) <=> \E i \in 1 .. Len(ret) : ret[i].name = "" /\ ret[i].index = x
           /\ \A f \in Callees : \A x \in Indices(ret) : f.lastVar + f.T + x < FrameSize
<1>1. DOMAIN ret = 1 .. Len(ret) /\ \A i \in 1 .. Len(ret) : ret[i].index \in Nat
  BY ReturnedFacts
<1>2. \A x : x \in Indices(ret) <=> \E i \in 1 .. Len(ret) : ret[i].name = "" /\ ret[i].index = x
  BY <1>1, Zenon DEF Indices
<1>3. \A f \in Callees : \A i \in 1 .. Len(ret) : f.lastVar + f.T + ret[i].index < FrameSize
  BY CalleeFacts, Zenon
<1>4. Indices(ret) \subseteq Nat
  BY <1>1, <1>2, Zenon
<1>5. \A f \in Callees : \A x \in Indices(ret) : f.lastVar + f.T + x < FrameSize
  BY <1>2, <1>3, Zenon
<1> QED
  BY <1>2, <1>4, <1>5

\* The frame before its loop, and the number of arguments.
Highest(ret) == CHOOSE h \in Indices(ret) \cup {0} : \A i \in Indices(ret) : i <= h
AddedTo(n, ret) == IF Highest(ret) + 1 > n THEN Highest(ret) + 1 - n ELSE 0
GapSlots(f, n, ret) == {n + i + (IF IsInternal(f) THEN 0 ELSE f.T) : i \in 0 .. AddedTo(n, ret) - 1}
Extended(f, fr, n, ret) == [s \in DOMAIN fr |-> IF s \in GapSlots(f, n, ret) THEN "undef" ELSE fr[s]]

\* Highest is above all indices, and its slot is in the frame.
LEMMA HighestFacts ==
    ASSUME NEW f \in Callees, NEW ret \in Returned
    PROVE  /\ Highest(ret) \in Nat
           /\ \A x \in Indices(ret) : x <= Highest(ret)
           /\ f.lastVar + f.T + Highest(ret) < FrameSize
<1> DEFINE I == Indices(ret) \cup {0}
<1>1. f.lastVar \in Nat /\ f.T \in Nat /\ MaxPassed \in Nat /\ FrameSize \in Nat
      /\ f.lastVar + f.T + MaxPassed < FrameSize
  BY CalleeFacts, Zenon
<1>2. \A x \in Indices(ret) : x \in Nat /\ f.lastVar + f.T + x < FrameSize
  BY IndicesFacts
<1>3. \A x \in I : x \in Nat /\ f.lastVar + f.T + x < FrameSize
  BY <1>1, <1>2
<1>4. I \subseteq 0 .. FrameSize /\ I # {}
  BY <1>1, <1>3
<1>5. \E x \in I : \A y \in I : y <= x
  <2> HIDE DEF I
  <2> QED
    BY <1>1, <1>4, GreatestElement
<1>6. \E h \in I : \A i \in Indices(ret) : i <= h
  BY <1>5
<1>7. Highest(ret) \in I /\ \A i \in Indices(ret) : i <= Highest(ret)
  BY <1>6, Zenon DEF Highest
<1> QED
  BY <1>3, <1>7, Zenon

\* What argsPostProcessing does: it extends the frame, then runs the loop.
LEMMA PostProcessing ==
    ASSUME NEW f \in Callees, NEW fr \in SlotSets, NEW n \in Nat, NEW ret \in Returned
    PROVE  /\ PutSoFar(f, n, Extended(f, fr, n, ret), ret, Len(ret), argsPostProcessing(f, fr, n, ret).frame)
           /\ argsPostProcessing(f, fr, n, ret).numArgs = n + AddedTo(n, ret)
<1> DEFINE base == Extended(f, fr, n, ret)
<1> DEFINE B == CHOOSE g : PutRun(f, n, base, ret, Len(ret), g)
<1>1. Len(ret) \in Nat
  BY ReturnedFacts
<1>2. base \in SlotSets
  <2>1. DOMAIN fr = SlotNumbers /\ \A s \in SlotNumbers : fr[s] \in Values
    BY DEF SlotSets
  <2>2. base = [s \in SlotNumbers |-> IF s \in GapSlots(f, n, ret) THEN "undef" ELSE fr[s]]
    BY <2>1, Zenon DEF Extended
  <2>3. \A s \in SlotNumbers : (IF s \in GapSlots(f, n, ret) THEN "undef" ELSE fr[s]) \in Values
    <3>1. "undef" \in Values
      BY DEF Values
    <3> QED
      BY <2>1, <3>1, Zenon
  <2> HIDE DEF base
  <2> QED
    BY <2>2, <2>3 DEF SlotSets
<1>3. argsPostProcessing(f, fr, n, ret) = [frame |-> B[Len(ret)], numArgs |-> n + AddedTo(n, ret)]
  BY DEF argsPostProcessing, Extended, GapSlots, AddedTo, Highest, Indices, PutRun, PutStep
<1> HIDE DEF base
<1>4. PutRun(f, n, base, ret, Len(ret), B)
  BY <1>1, PutRunExists, Zenon
<1> HIDE DEF B
<1>5. PutSoFar(f, n, base, ret, Len(ret), B[Len(ret)])
  BY <1>2, <1>4, PutRunSoFar
<1> QED
  BY <1>3, <1>5 DEF base

\* The number of arguments grows to what the indices ask for, and there is room.
LEMMA NumArgsFacts ==
    ASSUME NEW f \in Callees, NEW n \in Nat, NEW ret \in Returned, f.lastVar + f.T + n <= FrameSize
    PROVE  /\ AddedTo(n, ret) \in Nat
           /\ n + AddedTo(n, ret) \in Nat /\ n <= n + AddedTo(n, ret)
           /\ f.lastVar + f.T + (n + AddedTo(n, ret)) <= FrameSize
           /\ \A x \in Indices(ret) : x < n + AddedTo(n, ret)
<1>1. /\ Highest(ret) \in Nat
      /\ \A x \in Indices(ret) : x \in Nat /\ x <= Highest(ret)
      /\ f.lastVar + f.T + Highest(ret) < FrameSize
  BY HighestFacts, IndicesFacts
<1>2. f.lastVar \in Nat /\ f.T \in Nat /\ FrameSize \in Nat
  BY CalleeFacts
<1>3. n + AddedTo(n, ret) = IF Highest(ret) + 1 > n THEN Highest(ret) + 1 ELSE n
  BY <1>1 DEF AddedTo
<1>4. AddedTo(n, ret) \in Nat
  BY <1>1 DEF AddedTo
<1> QED
  BY <1>1, <1>2, <1>3, <1>4

\* The slots that become "undef" are none of an argument the call has, and all of
\* those it gets, unless they belong to parameters.
LEMMA ExtendedFacts ==
    ASSUME NEW f \in Callees, NEW fr \in SlotSets, NEW n \in Nat, NEW ret \in Returned,
           f.lastVar + f.T + n <= FrameSize
    PROVE  /\ \A x \in SlotNumbers : Extended(f, fr, n, ret)[x] \in {fr[x], "undef"}
           /\ \A p \in Nat : p < n /\ Target(f, n, p) \in SlotNumbers
                => Extended(f, fr, n, ret)[Target(f, n, p)] = fr[Target(f, n, p)]
           /\ \A p \in Nat : /\ Covered(f, p) /\ ~ (p < Len(f.params))
                             /\ n <= p /\ p < n + AddedTo(n, ret) /\ Target(f, n, p) \in SlotNumbers
                => Extended(f, fr, n, ret)[Target(f, n, p)] = "undef"
<1> DEFINE P == Len(f.params)
<1> DEFINE L == f.lastVar
<1> DEFINE T == f.T
<1> DEFINE I == IsInternal(f)
<1> DEFINE A == AddedTo(n, ret)
<1> DEFINE G == GapSlots(f, n, ret)
<1> DEFINE X == Extended(f, fr, n, ret)
<1>1. P \in Nat /\ L \in Nat /\ T \in Nat /\ P <= L
  BY CalleeFacts, Zenon
<1>2. A \in Nat
  BY NumArgsFacts
<1>3. \A p : Target(f, n, p) = IF I \/ p < L THEN p ELSE p + T
  BY DEF Target
<1>4. \A p : Covered(f, p) <=> I \/ L = P \/ p < P
  BY DEF Covered
<1>5. \A x : x \in G <=> \E i \in 0 .. A - 1 : x = n + i + (IF I THEN 0 ELSE T)
  BY DEF GapSlots
<1>6. \A x \in SlotNumbers : X[x] = IF x \in G THEN "undef" ELSE fr[x]
  BY DEF Extended, SlotSets
<1> HIDE DEF P, L, T, I, A, G, X
<1>7. ASSUME NEW p \in Nat, p < n, Target(f, n, p) \in G PROVE FALSE
  BY <1>1, <1>2, <1>3, <1>5, <1>7
<1>8. ASSUME NEW p \in Nat, Covered(f, p), ~ (p < P), n <= p, p < n + A PROVE Target(f, n, p) \in G
  <2>1. Target(f, n, p) = p + (IF I THEN 0 ELSE T)
    BY <1>1, <1>3, <1>4, <1>8
  <2>2. p - n \in 0 .. A - 1 /\ p = n + (p - n)
    BY <1>2, <1>8
  <2>3. Target(f, n, p) = n + (p - n) + (IF I THEN 0 ELSE T)
    BY <1>1, <2>1, <2>2
  <2> QED
    BY <1>5, <2>2, <2>3
<1>9. \A x \in SlotNumbers : X[x] \in {fr[x], "undef"}
  BY <1>6
<1>10. \A p \in Nat : p < n /\ Target(f, n, p) \in SlotNumbers => X[Target(f, n, p)] = fr[Target(f, n, p)]
  BY <1>6, <1>7
<1>11. \A p \in Nat : /\ Covered(f, p) /\ ~ (p < P)
                      /\ n <= p /\ p < n + A /\ Target(f, n, p) \in SlotNumbers
         => X[Target(f, n, p)] = "undef"
  BY <1>6, <1>8
<1> QED
  BY <1>9, <1>10, <1>11 DEF P, A, X

-----------------------------------------------------------------------------
(* What a hook wants *)

WantedLength(args, ret) ==
    CHOOSE l \in {Len(args)} \cup {i + 1 : i \in Indices(ret)} :
        l >= Len(args) /\ \A i \in Indices(ret) : l > i
Before(args, p) == IF p <= Len(args) THEN args[p] ELSE "gap"

\* The least length that holds the arguments and all indices.
LEMMA WantedLengthFacts ==
    ASSUME NEW f \in Callees, NEW args \in Seq(Values), NEW ret \in Returned
    PROVE  /\ WantedLength(args, ret) \in Nat
           /\ Len(args) <= WantedLength(args, ret)
           /\ \A x \in Indices(ret) : x < WantedLength(args, ret)
           /\ \A m \in Nat : Len(args) <= m /\ (\A x \in Indices(ret) : x < m) => WantedLength(args, ret) <= m
<1> DEFINE E == {Len(args)} \cup {i + 1 : i \in Indices(ret)}
<1> DEFINE l == WantedLength(args, ret)
<1>1. Len(args) \in Nat /\ Highest(ret) \in Nat
      /\ \A x \in Indices(ret) : x \in Nat /\ x <= Highest(ret)
  BY HighestFacts, IndicesFacts, LenProperties
<1>2. \E k \in E : k >= Len(args) /\ \A i \in Indices(ret) : k > i
  <2> DEFINE b == IF Len(args) <= Highest(ret) + 1 THEN Highest(ret) + 1 ELSE Len(args)
  <2>1. b \in Nat /\ \A x \in E : x \in 0 .. b
    BY <1>1
  <2>2. E \subseteq 0 .. b /\ E # {}
    BY <2>1
  <2> HIDE DEF b
  <2>3. PICK k \in E : \A y \in E : y <= k
    <3> HIDE DEF E
    <3> QED
      BY <2>1, <2>2, GreatestElement
  <2>4. k >= Len(args)
    BY <1>1, <2>1, <2>3
  <2>5. ASSUME NEW i \in Indices(ret) PROVE k > i
    <3>1. i + 1 <= k
      BY <2>3
    <3> QED
      BY <1>1, <2>1, <3>1
  <2> QED
    BY <2>4, <2>5
<1>3. l \in E /\ l >= Len(args) /\ \A i \in Indices(ret) : l > i
  BY <1>2, Zenon DEF WantedLength
<1>4. l \in Nat
  BY <1>1, <1>3
<1>5. l = Len(args) \/ \E i \in Indices(ret) : l = i + 1
  BY <1>3
<1> HIDE DEF l, E
<1>6. \A m \in Nat : Len(args) <= m /\ (\A x \in Indices(ret) : x < m) => l <= m
  BY <1>1, <1>4, <1>5
<1>7. Len(args) <= l /\ \A x \in Indices(ret) : x < l
  BY <1>1, <1>3, <1>4
<1> QED
  BY <1>4, <1>6, <1>7 DEF l

\* Wanted is a sequence of that length; what it has at each position.
LEMMA WantedFacts ==
    ASSUME NEW f \in Callees, NEW args \in Seq(Values), NEW ret \in Returned
    PROVE  /\ Wanted(f, args, ret) \in Seq(Values)
           /\ Len(Wanted(f, args, ret)) = WantedLength(args, ret)
           /\ \A p \in 1 .. WantedLength(args, ret) :
                /\ Silent(f, ret, p - 1) => Wanted(f, args, ret)[p] = Before(args, p)
                /\ \A i : LastFor(f, ret, p - 1, i) =>
                     Wanted(f, args, ret)[p] =
                        IF Before(args, p) = "gap" /\ ret[i].value = "null" THEN "gap" ELSE ret[i].value
<1> DEFINE W == Wanted(f, args, ret)
<1> DEFINE l == WantedLength(args, ret)
<1> DEFINE last(q) == {i \in DOMAIN ret : /\ Position(f, ret[i]) = q
                                          /\ \A j \in DOMAIN ret : Position(f, ret[j]) = q => j <= i}
<1> DEFINE before == [p \in 1 .. l |-> Before(args, p)]
<1> DEFINE V(p) == IF \E i \in last(p - 1) : before[p] # "gap" \/ ret[i].value # "null"
                   THEN ret[CHOOSE i \in last(p - 1) : TRUE].value
                   ELSE before[p]
<1>1. W = [p \in 1 .. l |-> V(p)]
  BY DEF Wanted, WantedLength, Indices, Before
<1>2. l \in Nat
  BY WantedLengthFacts
<1>3. \A p \in 1 .. l : Before(args, p) \in Values
  <2>1. \A p \in 1 .. l : p <= Len(args) => p \in 1 .. Len(args)
    BY <1>2, LenProperties
  <2>2. \A p \in 1 .. Len(args) : args[p] \in Values
    BY ElementOfSeq
  <2>3. "gap" \in Values
    BY DEF Values
  <2> QED
    BY <2>1, <2>2, <2>3, Zenon DEF Before
<1>4. DOMAIN ret = 1 .. Len(ret) /\ Len(ret) \in Nat
  BY ReturnedFacts
<1>5. \A q, i : i \in last(q) <=> LastFor(f, ret, q, i)
  BY <1>4, Zenon DEF LastFor
<1>6. \A q, i, j : LastFor(f, ret, q, i) /\ LastFor(f, ret, q, j) => i = j
  <2>1. \A i, j \in 1 .. Len(ret) : i <= j /\ j <= i => i = j
    BY <1>4
  <2> QED
    BY <2>1, Zenon DEF LastFor
<1>7. \A i \in 1 .. Len(ret) : ret[i].value \in Values
  BY ReturnedFacts
<1>8. \A p \in 1 .. l : before[p] = Before(args, p)
  OBVIOUS
<1> HIDE DEF last, before
<1>9. ASSUME NEW p \in 1 .. l, NEW i, LastFor(f, ret, p - 1, i)
      PROVE  V(p) = IF Before(args, p) = "gap" /\ ret[i].value = "null" THEN "gap" ELSE ret[i].value
  <2> DEFINE c == CHOOSE k \in last(p - 1) : TRUE
  <2>1. c = i
    <3>1. i \in last(p - 1) /\ \A k \in last(p - 1) : k = i
      BY <1>5, <1>6, <1>9, Zenon
    <3> QED
      BY <3>1, Zenon
  <2>2. (\E k \in last(p - 1) : before[p] # "gap" \/ ret[k].value # "null")
        <=> before[p] # "gap" \/ ret[i].value # "null"
    BY <1>5, <1>6, <1>9, Zenon
  <2>3. before[p] = Before(args, p)
    BY <1>8
  <2>4. V(p) = IF \E k \in last(p - 1) : before[p] # "gap" \/ ret[k].value # "null"
               THEN ret[c].value ELSE before[p]
    OBVIOUS
  <2> HIDE DEF V, c
  <2>5. CASE before[p] # "gap" \/ ret[i].value # "null"
    BY <2>1, <2>2, <2>3, <2>4, <2>5, Zenon
  <2>6. CASE before[p] = "gap" /\ ret[i].value = "null"
    BY <2>1, <2>2, <2>3, <2>4, <2>6, Zenon
  <2> QED
    BY <2>5, <2>6, Zenon
<1>10. ASSUME NEW p \in 1 .. l, Silent(f, ret, p - 1) PROVE V(p) = Before(args, p)
  <2>1. \A k : k \notin last(p - 1)
    BY <1>5, <1>10, Zenon DEF Silent, LastFor
  <2> QED
    BY <1>8, <2>1, Zenon
<1>11. ASSUME NEW p \in 1 .. l PROVE V(p) \in Values
  <2>1. CASE Silent(f, ret, p - 1)
    BY <1>3, <1>10, <2>1
  <2>2. CASE \E i : LastFor(f, ret, p - 1, i)
    <3>1. PICK i : LastFor(f, ret, p - 1, i)
      BY <2>2
    <3>2. ret[i].value \in Values
      BY <1>7, <3>1 DEF LastFor
    <3>3. "gap" \in Values
      BY DEF Values
    <3>4. V(p) = "gap" \/ V(p) = ret[i].value
      BY <1>9, <3>1, Zenon
    <3> HIDE DEF V
    <3> QED
      BY <3>2, <3>3, <3>4, Zenon
  <2> QED
    BY <2>1, <2>2, SilentOrLast
<1> HIDE DEF V, W
<1>12. W \in Seq(Values) /\ Len(W) = l
  <2>1. W \in [1 .. l -> Values]
    BY <1>1, <1>11
  <2> QED
    BY <1>2, <2>1
<1>13. \A p \in 1 .. l : W[p] = V(p)
  BY <1>1
<1> HIDE DEF l
<1>14. \A p \in 1 .. l : /\ Silent(f, ret, p - 1) => W[p] = Before(args, p)
                         /\ \A i : LastFor(f, ret, p - 1, i) =>
                              W[p] = IF Before(args, p) = "gap" /\ ret[i].value = "null" THEN "gap" ELSE ret[i].value
  BY <1>9, <1>10, <1>13, Zenon
<1> QED
  BY <1>12, <1>14, Zenon DEF W, l

-----------------------------------------------------------------------------
(* The arguments of the call *)

\* What hooks have given a parameter by its name, as in ArgumentsArrive.
GivenByName(f, p) ==
    UNION {{r[k].value : k \in {l \in DOMAIN r : getFunctionArgumentIndex(r[l].name, f) = p}} : r \in Returned}

\* A covered position has the value the hooks want; a gap, and a parameter beyond
\* the arguments, has none or one that was given by name.
ArgAt(f, fr, n, ex, p) ==
    IF p < Len(ex) /\ ex[p + 1] # "gap"
    THEN fr[SlotOf(f, p)] = ex[p + 1] /\ ex[p + 1] # "undef"
    ELSE p < Len(f.params) \/ p < n => fr[SlotOf(f, p)] \in {"undef", "null"} \cup GivenByName(f, p)

ArgsInv(f, fr, n, ex) ==
    /\ f \in Callees /\ fr \in SlotSets /\ n \in Nat /\ ex \in Seq(Values)
    /\ Len(ex) <= n
    /\ f.lastVar + f.T + n <= FrameSize
    /\ \A p \in Nat : Covered(f, p) => ArgAt(f, fr, n, ex, p)

\* A value with a name is one that GivenByName has for its parameter.
LEMMA NamedGiven ==
    ASSUME NEW f \in Callees, NEW ret \in Returned, NEW i \in 1 .. Len(ret), ret[i].name # ""
    PROVE  ret[i].value \in GivenByName(f, Position(f, ret[i]))
<1>1. DOMAIN ret = 1 .. Len(ret)
  BY ReturnedFacts
<1>2. Position(f, ret[i]) = getFunctionArgumentIndex(ret[i].name, f)
  BY PositionFacts
<1> DEFINE p == Position(f, ret[i])
<1> DEFINE Of(r) == {r[k].value : k \in {l \in DOMAIN r : getFunctionArgumentIndex(r[l].name, f) = p}}
<1>3. ret[i].value \in Of(ret)
  BY <1>1, <1>2, Zenon
<1>4. GivenByName(f, p) = UNION {Of(r) : r \in Returned}
  BY DEF GivenByName
<1> HIDE DEF Of, p
<1>5. ret[i].value \in GivenByName(f, p)
  BY <1>3, <1>4, Zenon
<1> QED
  BY <1>5 DEF p

\* argsPostProcessing keeps the arguments as the hooks want them.
LEMMA PutArgs ==
    ASSUME NEW f, NEW fr, NEW n, NEW ex, ArgsInv(f, fr, n, ex), NEW ret \in Returned
    PROVE  ArgsInv(f, argsPostProcessing(f, fr, n, ret).frame, argsPostProcessing(f, fr, n, ret).numArgs,
                   Wanted(f, ex, ret))
<1> DEFINE new == argsPostProcessing(f, fr, n, ret).frame
<1> DEFINE N == argsPostProcessing(f, fr, n, ret).numArgs
<1> DEFINE W == Wanted(f, ex, ret)
<1> DEFINE X == Extended(f, fr, n, ret)
<1>1. /\ f \in Callees /\ fr \in SlotSets /\ n \in Nat /\ ex \in Seq(Values) /\ Len(ex) <= n
      /\ f.lastVar + f.T + n <= FrameSize
      /\ \A p \in Nat : Covered(f, p) => ArgAt(f, fr, n, ex, p)
  BY DEF ArgsInv
<1>2. PutSoFar(f, n, X, ret, Len(ret), new) /\ N = n + AddedTo(n, ret)
  BY <1>1, PostProcessing
<1>3. N \in Nat /\ n <= N /\ f.lastVar + f.T + N <= FrameSize /\ \A x \in Indices(ret) : x < N
  BY <1>1, <1>2, NumArgsFacts, Zenon
<1>4. /\ W \in Seq(Values) /\ Len(W) \in Nat /\ Len(ex) \in Nat
      /\ Len(ex) <= Len(W) /\ (\A x \in Indices(ret) : x < Len(W))
      /\ \A p \in 1 .. Len(W) :
            /\ Silent(f, ret, p - 1) => W[p] = Before(ex, p)
            /\ \A i : LastFor(f, ret, p - 1, i) =>
                 W[p] = IF Before(ex, p) = "gap" /\ ret[i].value = "null" THEN "gap" ELSE ret[i].value
  <2>1. Len(ex) \in Nat
    BY <1>1, LenProperties
  <2>2. Len(W) = WantedLength(ex, ret)
    BY <1>1, WantedFacts, Zenon
  <2>3. WantedLength(ex, ret) \in Nat /\ Len(ex) <= WantedLength(ex, ret)
        /\ \A x \in Indices(ret) : x < WantedLength(ex, ret)
    BY <1>1, WantedLengthFacts, Zenon
  <2>4. W \in Seq(Values)
    BY <1>1, WantedFacts, Zenon
  <2>5. \A p \in 1 .. WantedLength(ex, ret) :
            /\ Silent(f, ret, p - 1) => W[p] = Before(ex, p)
            /\ \A i : LastFor(f, ret, p - 1, i) =>
                 W[p] = IF Before(ex, p) = "gap" /\ ret[i].value = "null" THEN "gap" ELSE ret[i].value
    BY <1>1, WantedFacts, Zenon
  <2> HIDE DEF W
  <2> QED
    BY <2>1, <2>2, <2>3, <2>4, <2>5, Zenon
<1>5. Len(W) <= N
  <2>1. Len(W) = WantedLength(ex, ret)
    BY <1>1, WantedFacts, Zenon
  <2>2. Len(ex) <= N
    BY <1>1, <1>3, <1>4
  <2> QED
    BY <1>1, <1>3, <2>1, <2>2, WantedLengthFacts, Zenon
<1>6. /\ \A p \in Nat : Covered(f, p) => SlotOf(f, p) = Target(f, n, p)
      /\ \A p \in Nat : p < Len(f.params) \/ p < N => Target(f, n, p) \in SlotNumbers
  BY <1>1, <1>3, TargetFacts, Zenon
<1>7. new \in SlotSets
  BY <1>2, Zenon DEF PutSoFar
<1>8. /\ \A x \in SlotNumbers : X[x] \in {fr[x], "undef"}
      /\ \A p \in Nat : p < n /\ Target(f, n, p) \in SlotNumbers => X[Target(f, n, p)] = fr[Target(f, n, p)]
      /\ \A p \in Nat : /\ Covered(f, p) /\ ~ (p < Len(f.params))
                        /\ n <= p /\ p < N /\ Target(f, n, p) \in SlotNumbers
            => X[Target(f, n, p)] = "undef"
  BY <1>1, <1>2, ExtendedFacts, Zenon
<1> HIDE DEF X, N, W, new
<1>9. ASSUME NEW p \in Nat, Covered(f, p) PROVE ArgAt(f, new, N, W, p)
  <2> DEFINE s == SlotOf(f, p)
  <2>1. s = Target(f, n, p) /\ ArgAt(f, fr, n, ex, p)
    BY <1>1, <1>6, <1>9
  <2>2. /\ p + 1 \in Nat /\ (p + 1) - 1 = p
        /\ p < Len(W) => p + 1 \in 1 .. Len(W) /\ p < N
        /\ p < Len(ex) => p < n /\ p < Len(W)
        /\ (p + 1 <= Len(ex) <=> p < Len(ex))
        /\ ~ (p < n) => n <= p
    BY <1>1, <1>3, <1>4, <1>5
  <2>3. Before(ex, p + 1) = IF p < Len(ex) THEN ex[p + 1] ELSE "gap"
    BY <2>2, Zenon DEF Before
  <2>4. CASE Silent(f, ret, p)
    <3>1. s \in SlotNumbers => new[s] = X[s]
      BY <1>2, <2>1, <2>4, Zenon DEF PutSoFar, Silent
    <3>2. p < Len(W) => W[p + 1] = Before(ex, p + 1)
      <4>1. p < Len(W) => p + 1 \in 1 .. Len(W) /\ Silent(f, ret, (p + 1) - 1)
        BY <2>2, <2>4
      <4> QED
        BY <1>4, <4>1, Zenon
    <3> HIDE DEF s
    <3>3. CASE p < Len(W) /\ W[p + 1] # "gap"
      <4>1. p < Len(ex) /\ ex[p + 1] # "gap" /\ W[p + 1] = ex[p + 1]
        BY <2>3, <3>2, <3>3, Zenon
      <4>2. fr[s] = ex[p + 1] /\ ex[p + 1] # "undef"
        BY <2>1, <4>1, Zenon DEF ArgAt, s
      <4>3. p < n /\ s \in SlotNumbers
        BY <1>6, <2>1, <2>2, <3>3, <4>1, Zenon
      <4>4. new[s] = fr[s]
        BY <1>8, <2>1, <3>1, <4>3, Zenon
      <4> QED
        BY <3>3, <4>1, <4>2, <4>4, Zenon DEF ArgAt, s
    <3>4. CASE ~ (p < Len(W) /\ W[p + 1] # "gap")
      <4>1. SUFFICES ASSUME p < Len(f.params) \/ p < N
                     PROVE  new[s] \in {"undef", "null"} \cup GivenByName(f, p)
        BY <3>4, Zenon DEF ArgAt, s
      <4>2. s \in SlotNumbers
        BY <1>6, <2>1, <4>1, Zenon
      <4>3. new[s] = fr[s] \/ new[s] = "undef"
        BY <1>8, <3>1, <4>2, Zenon
      <4>4. ~ (p < Len(ex) /\ ex[p + 1] # "gap")
        BY <2>2, <2>3, <3>2, <3>4, Zenon
      <4>5. CASE p < Len(f.params) \/ p < n
        <5>1. fr[s] \in {"undef", "null"} \cup GivenByName(f, p)
          BY <2>1, <4>4, <4>5, Zenon DEF ArgAt, s
        <5> QED
          BY <4>3, <5>1, Zenon
      <4>6. CASE ~ (p < Len(f.params)) /\ ~ (p < n)
        <5>1. X[s] = "undef"
          BY <1>8, <1>9, <2>1, <2>2, <4>1, <4>2, <4>6, Zenon
        <5> QED
          BY <3>1, <4>2, <5>1, Zenon
      <4> QED
        BY <4>5, <4>6, Zenon
    <3> QED
      BY <3>3, <3>4, Zenon
  <2>5. CASE \E i : LastFor(f, ret, p, i)
    <3>1. PICK i : LastFor(f, ret, p, i)
      BY <2>5
    <3>2. i \in 1 .. Len(ret) /\ Position(f, ret[i]) = p
      BY <3>1 DEF LastFor
    <3>3. s \in SlotNumbers
      <4>1. p # -1
        OBVIOUS
      <4>2. Position(f, ret[i]) # -1 => Target(f, n, Position(f, ret[i])) \in SlotNumbers
        BY <1>1, <3>2, PositionFacts
      <4> QED
        BY <2>1, <3>2, <4>1, <4>2
    <3>4. new[s] = ret[i].value
      BY <1>2, <2>1, <3>1, <3>3, Zenon DEF PutSoFar, LastFor
    <3>5. ret[i].value # "undef" /\ ret[i].value # "gap"
      BY <3>2, ReturnedFacts, Zenon
    <3>6. p < Len(W) => W[p + 1] = IF Before(ex, p + 1) = "gap" /\ ret[i].value = "null" THEN "gap" ELSE ret[i].value
      <4>1. p < Len(W) => p + 1 \in 1 .. Len(W) /\ LastFor(f, ret, (p + 1) - 1, i)
        BY <2>2, <3>1
      <4> QED
        BY <1>4, <4>1, Zenon
    <3> HIDE DEF s
    <3>7. CASE p < Len(W) /\ W[p + 1] # "gap"
      <4>1. W[p + 1] = ret[i].value
        BY <3>6, <3>7, Zenon
      <4> QED
        BY <3>4, <3>5, <3>7, <4>1, Zenon DEF ArgAt, s
    <3>8. CASE p < Len(W) /\ W[p + 1] = "gap"
      <4>1. ret[i].value = "null"
        BY <3>5, <3>6, <3>8, Zenon
      <4> QED
        BY <3>4, <3>8, <4>1, Zenon DEF ArgAt, s
    <3>9. CASE ~ (p < Len(W))
      <4>1. ret[i].name # ""
        <5>1. SUFFICES ASSUME ret[i].name = "" PROVE FALSE
          OBVIOUS
        <5>2. ret[i].index = p
          BY <1>1, <3>2, <5>1, PositionFacts, Zenon
        <5>3. p \in Indices(ret)
          BY <3>2, <5>1, <5>2, IndicesFacts, Zenon
        <5> QED
          BY <1>4, <3>9, <5>3, Zenon
      <4>2. ret[i].value \in GivenByName(f, p)
        BY <1>1, <3>2, <4>1, NamedGiven, Zenon
      <4> QED
        BY <3>4, <3>9, <4>2, Zenon DEF ArgAt, s
    <3> QED
      BY <3>7, <3>8, <3>9, Zenon
  <2> QED
    BY <1>1, <2>4, <2>5, SilentOrLast, Zenon
<1> QED
  BY <1>1, <1>3, <1>4, <1>5, <1>7, <1>9, Zenon DEF ArgsInv, new, N, W

\* The arguments that a hook is given.
LEMMA CallArguments ==
    ASSUME NEW f, NEW fr, NEW n \in Nat
    PROVE  /\ Len(getCallArguments(f, fr, n)) = n /\ DOMAIN getCallArguments(f, fr, n) = 1 .. n
           /\ \A i \in 1 .. n : getCallArguments(f, fr, n)[i] =
                IF fr[SlotOf(f, i - 1)] = "undef" THEN "null" ELSE fr[SlotOf(f, i - 1)]
<1> DEFINE args == getCallArguments(f, fr, n)
<1> DEFINE S == {args[i] : i \in 1 .. n}
<1> DEFINE V(i) == IF fr[SlotOf(f, i - 1)] = "undef" THEN "null" ELSE fr[SlotOf(f, i - 1)]
<1>1. args = [i \in 1 .. n |-> V(i)]
  BY Zenon DEF getCallArguments
<1> HIDE DEF V, args
<1>2. args \in [1 .. n -> S]
  BY <1>1
<1> HIDE DEF S
<1>3. Len(args) = n /\ DOMAIN args = 1 .. n
  BY <1>2
<1>4. \A i \in 1 .. n : args[i] = V(i)
  BY <1>1
<1> QED
  BY <1>3, <1>4 DEF V, args

\* A hook that returns the arguments it was given changes nothing it wants changed.
LEMMA IdenticalArgs ==
    ASSUME NEW f, NEW fr, NEW n, NEW ex, ArgsInv(f, fr, n, ex), NEW ret \in Returned,
           Identical(getCallArguments(f, fr, n), ret)
    PROVE  ArgsInv(f, fr, n, Wanted(f, ex, ret))
<1> DEFINE args == getCallArguments(f, fr, n)
<1> DEFINE W == Wanted(f, ex, ret)
<1> DEFINE Arg(p) == IF fr[SlotOf(f, p)] = "undef" THEN "null" ELSE fr[SlotOf(f, p)]
<1>1. /\ f \in Callees /\ fr \in SlotSets /\ n \in Nat /\ ex \in Seq(Values) /\ Len(ex) <= n
      /\ f.lastVar + f.T + n <= FrameSize
      /\ \A p \in Nat : Covered(f, p) => ArgAt(f, fr, n, ex, p)
  BY DEF ArgsInv
<1>2. Len(ret) = n /\ DOMAIN ret = 1 .. n
  <2>1. Len(args) = n
    BY <1>1, CallArguments
  <2> QED
    BY <2>1, ReturnedFacts DEF Identical
<1>3. \A i \in 1 .. n : ret[i].name = "" /\ ret[i].index = i - 1 /\ ret[i].value = args[i]
  <2> HIDE DEF args
  <2>1. \A i \in 1 .. n : ret[i] = [name |-> "", index |-> i - 1, value |-> args[i]]
    BY <1>2, Zenon DEF Identical, args
  <2>2. ASSUME NEW i \in 1 .. n PROVE ret[i].name = "" /\ ret[i].index = i - 1 /\ ret[i].value = args[i]
    <3> DEFINE k == i - 1
    <3> HIDE DEF k
    <3> DEFINE e == [name |-> "", index |-> k, value |-> args[i]]
    <3>1. ret[i] = e
      BY <2>1, Zenon DEF k
    <3>2. e.name = "" /\ e.index = k /\ e.value = args[i]
      OBVIOUS
    <3> HIDE DEF e
    <3> QED
      BY <3>1, <3>2, Zenon DEF k
  <2> QED
    BY <2>2
<1>4. \A i \in 1 .. n : Position(f, ret[i]) = i - 1
  BY <1>3 DEF Position
<1>5. \A p \in Nat : p < n => LastFor(f, ret, p, p + 1) /\ ret[p + 1].value = Arg(p)
  <2>1. SUFFICES ASSUME NEW p \in Nat, p < n PROVE LastFor(f, ret, p, p + 1) /\ ret[p + 1].value = Arg(p)
    OBVIOUS
  <2>2. p + 1 \in 1 .. n /\ (p + 1) - 1 = p
    BY <1>1, <2>1
  <2>3. Position(f, ret[p + 1]) = p
    BY <1>4, <2>2
  <2>4. ASSUME NEW j \in 1 .. n, Position(f, ret[j]) = p PROVE j <= p + 1
    <3>1. j - 1 = p
      BY <1>4, <2>4
    <3> QED
      BY <1>1, <3>1
  <2>5. LastFor(f, ret, p, p + 1)
    BY <1>2, <2>2, <2>3, <2>4, Zenon DEF LastFor
  <2>6. args[p + 1] = IF fr[SlotOf(f, (p + 1) - 1)] = "undef" THEN "null" ELSE fr[SlotOf(f, (p + 1) - 1)]
    BY <1>1, <2>2, CallArguments, Zenon
  <2>7. ret[p + 1].value = args[p + 1]
    BY <1>3, <2>2, Zenon
  <2> QED
    BY <2>2, <2>5, <2>6, <2>7, Zenon
<1>6. \A x \in Indices(ret) : x < n
  <2>1. \A x \in Indices(ret) : \E i \in 1 .. Len(ret) : ret[i].index = x
    BY IndicesFacts, Zenon
  <2>2. ASSUME NEW x \in Indices(ret) PROVE x < n
    <3>1. PICK i \in 1 .. Len(ret) : ret[i].index = x
      BY <2>1
    <3>2. i \in 1 .. n
      BY <1>2
    <3>3. ret[i].index = i - 1
      BY <1>3, <3>2, Zenon
    <3> QED
      BY <1>1, <3>1, <3>2, <3>3
  <2> QED
    BY <2>2
<1>7. \A p \in Nat : p < n => p \in Indices(ret)
  <2>1. \A p \in Nat : p < n => p + 1 \in 1 .. n /\ (p + 1) - 1 = p
    BY <1>1
  <2>2. ASSUME NEW p \in Nat, p < n PROVE p \in Indices(ret)
    <3>1. p + 1 \in 1 .. n /\ (p + 1) - 1 = p
      BY <2>1, <2>2
    <3>2. ret[p + 1].name = "" /\ ret[p + 1].index = (p + 1) - 1
      BY <1>3, <3>1, Zenon
    <3>3. p + 1 \in 1 .. Len(ret) /\ ret[p + 1].name = "" /\ ret[p + 1].index = p
      BY <1>2, <3>1, <3>2, Zenon
    <3> QED
      BY <3>3, IndicesFacts, Zenon
  <2> QED
    BY <2>2
<1>8. /\ W \in Seq(Values) /\ Len(W) \in Nat /\ Len(W) <= n
      /\ \A p \in Nat : p < n => p < Len(W)
  <2>1. Len(W) = WantedLength(ex, ret) /\ W \in Seq(Values)
    BY <1>1, WantedFacts, Zenon
  <2> HIDE DEF W
  <2> QED
    BY <1>1, <1>6, <1>7, <2>1, WantedLengthFacts, Zenon
<1>9. \A p \in 1 .. Len(W) : \A i : LastFor(f, ret, p - 1, i) =>
         W[p] = IF Before(ex, p) = "gap" /\ ret[i].value = "null" THEN "gap" ELSE ret[i].value
  <2>1. Len(W) = WantedLength(ex, ret)
    BY <1>1, WantedFacts, Zenon
  <2>2. \A p \in 1 .. WantedLength(ex, ret) : \A i : LastFor(f, ret, p - 1, i) =>
            W[p] = IF Before(ex, p) = "gap" /\ ret[i].value = "null" THEN "gap" ELSE ret[i].value
    BY <1>1, WantedFacts, Zenon
  <2> HIDE DEF W
  <2> QED
    BY <2>1, <2>2, Zenon
<1> HIDE DEF W, args
<1>10. ASSUME NEW p \in Nat, Covered(f, p) PROVE ArgAt(f, fr, n, W, p)
  <2> DEFINE s == SlotOf(f, p)
  <2> DEFINE v == ret[p + 1].value
  <2>1. ArgAt(f, fr, n, ex, p)
    BY <1>1, <1>10
  <2>2. /\ p < n => p + 1 \in 1 .. Len(W) /\ p < Len(W) /\ (p + 1) - 1 = p
        /\ p < Len(W) => p < n
        /\ p < Len(ex) => p < n
        /\ (p + 1 <= Len(ex) <=> p < Len(ex))
    <3>1. Len(ex) \in Nat
      BY <1>1, LenProperties
    <3>2. p < n => p < Len(W)
      BY <1>8
    <3> QED
      BY <1>1, <1>8, <3>1, <3>2
  <2>3. Before(ex, p + 1) = IF p < Len(ex) THEN ex[p + 1] ELSE "gap"
    BY <2>2, Zenon DEF Before
  <2>4. CASE p < n
    <3>1. LastFor(f, ret, p, p + 1) /\ v = IF fr[s] = "undef" THEN "null" ELSE fr[s]
      BY <1>5, <2>4, Zenon
    <3>2. W[p + 1] = IF Before(ex, p + 1) = "gap" /\ v = "null" THEN "gap" ELSE v
      <4>1. p + 1 \in 1 .. Len(W) /\ LastFor(f, ret, (p + 1) - 1, p + 1)
        BY <2>2, <2>4, <3>1
      <4> QED
        BY <1>9, <4>1, Zenon
    <3> HIDE DEF s, v
    <3>3. CASE p < Len(ex) /\ ex[p + 1] # "gap"
      <4>1. fr[s] = ex[p + 1] /\ ex[p + 1] # "undef"
        BY <2>1, <3>3, Zenon DEF ArgAt, s
      <4>2. W[p + 1] = fr[s] /\ W[p + 1] # "undef"
        BY <2>3, <3>1, <3>2, <3>3, <4>1, Zenon
      <4>3. W[p + 1] # "gap" /\ p < Len(W)
        BY <2>2, <2>4, <3>3, <4>1, <4>2, Zenon
      <4> QED
        BY <4>2, <4>3, Zenon DEF ArgAt, s
    <3>4. CASE ~ (p < Len(ex) /\ ex[p + 1] # "gap")
      <4>1. fr[s] \in {"undef", "null"} \cup GivenByName(f, p)
        BY <2>1, <2>4, <3>4, Zenon DEF ArgAt, s
      <4>2. CASE v = "null"
        <5>1. W[p + 1] = "gap"
          BY <2>3, <3>2, <3>4, <4>2, Zenon
        <5> QED
          BY <4>1, <5>1, Zenon DEF ArgAt, s
      <4>3. CASE v # "null"
        <5>1. "null" # "undef"
          OBVIOUS
        <5>2. fr[s] # "undef" /\ W[p + 1] = fr[s]
          BY <3>1, <3>2, <4>3, Zenon
        <5> QED
          BY <4>1, <5>2, Zenon DEF ArgAt, s
      <4> QED
        BY <4>2, <4>3, Zenon
    <3> QED
      BY <3>3, <3>4, Zenon
  <2>5. CASE ~ (p < n)
    <3>1. ~ (p < Len(ex)) /\ ~ (p < Len(W))
      BY <2>2, <2>5, Zenon
    <3> QED
      BY <2>1, <3>1, Zenon DEF ArgAt
  <2> QED
    BY <2>4, <2>5, Zenon
<1> QED
  BY <1>1, <1>8, <1>10, Zenon DEF ArgsInv, W

\* The caller's arguments are where the engine reads them.
LEMMA PassedArgs ==
    ASSUME NEW f \in Callees, NEW n \in 0 .. MaxPassed
    PROVE  ArgsInv(f, [s \in 0 .. FrameSize - 1 |->
                          IF \E i \in 0 .. n - 1 : SlotOf(f, i) = s THEN "passed" ELSE "undef"],
                   n, [i \in 1 .. n |-> "passed"])
<1> DEFINE fr == [s \in 0 .. FrameSize - 1 |->
                     IF \E i \in 0 .. n - 1 : SlotOf(f, i) = s THEN "passed" ELSE "undef"]
<1> DEFINE ex == [i \in 1 .. n |-> "passed"]
<1> DEFINE P == Len(f.params)
<1>1. /\ P \in Nat /\ f.lastVar \in Nat /\ f.T \in Nat /\ P <= f.lastVar /\ FrameSize \in Nat /\ MaxPassed \in Nat
      /\ f.lastVar + f.T + MaxPassed < FrameSize
  BY CalleeFacts, Zenon
<1>2. n \in Nat /\ f.lastVar + f.T + n <= FrameSize
  BY <1>1
<1>3. "passed" \in Values /\ "undef" \in Values
  BY DEF Values
<1>4. fr \in SlotSets /\ \A s \in SlotNumbers : fr[s] = IF \E i \in 0 .. n - 1 : SlotOf(f, i) = s THEN "passed" ELSE "undef"
  BY <1>3 DEF SlotSets, SlotNumbers
<1>5. ex \in [1 .. n -> Values] /\ \A i \in 1 .. n : ex[i] = "passed"
  BY <1>3
<1> HIDE DEF fr, ex
<1>6. ex \in Seq(Values) /\ Len(ex) = n
  BY <1>2, <1>5
<1>7. ASSUME NEW p \in Nat, Covered(f, p) PROVE ArgAt(f, fr, n, ex, p)
  <2>1. CASE p < n
    <3>1. SlotOf(f, p) \in SlotNumbers
      <4>1. SlotOf(f, p) = Target(f, n, p) /\ Target(f, n, p) \in SlotNumbers
        BY <1>2, <1>7, <2>1, TargetFacts
      <4> QED
        BY <4>1
    <3>2. p \in 0 .. n - 1 /\ p + 1 \in 1 .. n
      BY <1>2, <2>1
    <3>3. fr[SlotOf(f, p)] = "passed" /\ ex[p + 1] = "passed"
      BY <1>4, <1>5, <3>1, <3>2, Zenon
    <3> QED
      BY <1>6, <2>1, <3>3 DEF ArgAt
  <2>2. CASE ~ (p < n) /\ p < P
    <3>1. SlotOf(f, p) = p
      BY <2>2 DEF SlotOf
    <3>2. p \in SlotNumbers
      BY <1>1, <2>2 DEF SlotNumbers
    <3>3. ASSUME NEW i \in 0 .. n - 1 PROVE SlotOf(f, i) # p
      BY <1>1, <1>2, <2>2 DEF SlotOf
    <3>4. fr[SlotOf(f, p)] = "undef"
      BY <1>4, <3>1, <3>2, <3>3, Zenon
    <3> QED
      BY <1>6, <2>2, <3>4 DEF ArgAt
  <2>3. CASE ~ (p < n) /\ ~ (p < P)
    BY <1>6, <2>3, Zenon DEF ArgAt
  <2> QED
    BY <2>1, <2>2, <2>3, Zenon
<1>8. Len(ex) <= n
  BY <1>2, <1>6
<1> QED
  BY <1>2, <1>4, <1>6, <1>7, <1>8, Zenon DEF ArgsInv, fr, ex

-----------------------------------------------------------------------------
(* The attributes of the span *)

Adds == [key : STRING, value : Values]
NoAttributes == [x \in {} |-> ""]
AddRun(adds, m, g) ==
    g = [k \in 0 .. m |-> IF k = 0 THEN NoAttributes ELSE AddAssoc(g[k - 1], adds[k].key, adds[k].value)]

\* The rounds of the loop over the attributes, element by element.
LEMMA AddRunFrom ==
    ASSUME NEW adds, NEW m \in Nat, NEW g,
           g = [k \in 0 .. m |-> g[k]], g[0] = NoAttributes,
           \A k \in 1 .. m : g[k] = AddAssoc(g[k - 1], adds[k].key, adds[k].value)
    PROVE  AddRun(adds, m, g)
<1> DEFINE h == [k \in 0 .. m |-> IF k = 0 THEN NoAttributes ELSE AddAssoc(g[k - 1], adds[k].key, adds[k].value)]
<1>1. \A k \in 0 .. m : g[k] = h[k]
  <2>1. SUFFICES ASSUME NEW k \in 0 .. m PROVE g[k] = h[k]
    OBVIOUS
  <2>2. CASE k = 0
    BY <2>2
  <2>3. CASE k # 0
    <3>1. k \in 1 .. m
      BY <2>3
    <3>2. g[k] = AddAssoc(g[k - 1], adds[k].key, adds[k].value)
      BY <3>1
    <3> QED
      BY <2>3, <3>2
  <2> QED
    BY <2>2, <2>3
<1>2. [k \in 0 .. m |-> g[k]] = h
  BY <1>1
<1> QED
  BY <1>2 DEF AddRun

\* The function that callWithSpanHandlerPre defines exists.
LEMMA AddRunExists ==
    ASSUME NEW adds
    PROVE  \A m \in Nat : \E g : AddRun(adds, m, g)
<1> DEFINE Step(was, k) == AddAssoc(was, adds[k].key, adds[k].value)
<1> DEFINE S == {m \in Nat : \E g : AddRun(adds, m, g)}
<1>1. 0 \in S
  <2> DEFINE g == [k \in 0 .. 0 |-> NoAttributes]
  <2>1. g = [k \in 0 .. 0 |-> g[k]] /\ g[0] = NoAttributes /\ 1 .. 0 = {}
    OBVIOUS
  <2> HIDE DEF g
  <2>2. AddRun(adds, 0, g)
    BY <2>1, AddRunFrom
  <2> QED
    BY <2>2
<1>2. ASSUME NEW m \in Nat, m \in S PROVE m + 1 \in S
  <2>1. PICK g : AddRun(adds, m, g)
    BY <1>2
  <2> DEFINE h == [k \in 0 .. m + 1 |-> IF k <= m THEN g[k] ELSE Step(g[m], m + 1)]
  <2>2. AddRun(adds, m + 1, h)
    <3>1. g[0] = NoAttributes /\ \A k \in 1 .. m : g[k] = Step(g[k - 1], k)
      BY <2>1 DEF AddRun
    <3> HIDE DEF Step
    <3>2. h = [k \in 0 .. m + 1 |-> h[k]]
      OBVIOUS
    <3>3. \A k \in 0 .. m + 1 : h[k] = IF k <= m THEN g[k] ELSE Step(g[m], m + 1)
      OBVIOUS
    <3>4. m + 1 \in Nat
      OBVIOUS
    <3> HIDE DEF h
    <3>5. h[0] = NoAttributes
      BY <3>1, <3>3
    <3>6. ASSUME NEW k \in 1 .. m + 1 PROVE h[k] = Step(h[k - 1], k)
      <4>1. CASE k = m + 1
        <5>1. h[k] = Step(g[m], m + 1) /\ h[k - 1] = g[m]
          BY <3>3, <4>1
        <5> QED
          BY <4>1, <5>1
      <4>2. CASE k # m + 1
        <5>1. k \in 1 .. m /\ h[k] = g[k] /\ h[k - 1] = g[k - 1]
          BY <3>3, <4>2
        <5> QED
          BY <3>1, <5>1
      <4> QED
        BY <4>1, <4>2
    <3> USE DEF Step
    <3> QED
      BY <3>2, <3>4, <3>5, <3>6, AddRunFrom, Zenon
  <2> HIDE DEF h
  <2> QED
    BY <2>2
<1> HIDE DEF S
<1>3. Nat \subseteq S
  BY <1>1, <1>2, Induct
<1> QED
  BY <1>3 DEF S

\* A key has the last value that was added for it.
AddedSoFar(adds, m, attrs) ==
    \A i \in 1 .. m :
        adds[i].value # "undef" /\ (\A j \in 1 .. m : i < j /\ adds[j].key = adds[i].key => adds[j].value = "undef")
        => adds[i].key \in DOMAIN attrs /\ attrs[adds[i].key] = adds[i].value

\* AddAssoc changes the value of one key, with "undef" of none.
LEMMA AddAssocFacts ==
    ASSUME NEW attrs, NEW key, NEW v
    PROVE  /\ v = "undef" => AddAssoc(attrs, key, v) = attrs
           /\ v # "undef" => /\ key \in DOMAIN AddAssoc(attrs, key, v) /\ AddAssoc(attrs, key, v)[key] = v
                             /\ \A k \in DOMAIN attrs : k # key => /\ k \in DOMAIN AddAssoc(attrs, key, v)
                                                                   /\ AddAssoc(attrs, key, v)[k] = attrs[k]
<1> DEFINE new == AddAssoc(attrs, key, v)
<1> DEFINE D == DOMAIN attrs \cup {key}
<1>1. v = "undef" => new = attrs
  BY DEF AddAssoc
<1>2. v # "undef" => new = [k \in D |-> IF k = key THEN v ELSE attrs[k]]
  BY DEF AddAssoc
<1>3. key \in D /\ \A k \in DOMAIN attrs : k \in D
  BY Zenon
<1> HIDE DEF new, D
<1>4. v # "undef" => DOMAIN new = D /\ \A k \in D : new[k] = IF k = key THEN v ELSE attrs[k]
  BY <1>2
<1> QED
  BY <1>1, <1>3, <1>4, Zenon DEF new

\* One more round keeps AddedSoFar.
LEMMA AddedSoFarStep ==
    ASSUME NEW adds, NEW m \in Nat, NEW attrs, AddedSoFar(adds, m, attrs)
    PROVE  AddedSoFar(adds, m + 1, AddAssoc(attrs, adds[m + 1].key, adds[m + 1].value))
<1> DEFINE key == adds[m + 1].key
<1> DEFINE v == adds[m + 1].value
<1> DEFINE new == AddAssoc(attrs, key, v)
<1>1. /\ v = "undef" => new = attrs
      /\ v # "undef" => /\ key \in DOMAIN new /\ new[key] = v
                        /\ \A k \in DOMAIN attrs : k # key => k \in DOMAIN new /\ new[k] = attrs[k]
  <2> HIDE DEF key, v
  <2>1. v = "undef" => new = attrs
    BY AddAssocFacts
  <2>2. v # "undef" => key \in DOMAIN new /\ new[key] = v
    BY AddAssocFacts
  <2>3. v # "undef" => \A k \in DOMAIN attrs : k # key => k \in DOMAIN new /\ new[k] = attrs[k]
    BY AddAssocFacts
  <2> QED
    BY <2>1, <2>2, <2>3
<1>2. /\ \A i \in 1 .. m + 1 : i \in 1 .. m \/ i = m + 1
      /\ \A i \in 1 .. m : i \in 1 .. m + 1 /\ i < m + 1
      /\ m + 1 \in 1 .. m + 1
  OBVIOUS
<1> HIDE DEF new
<1>3. ASSUME NEW i \in 1 .. m + 1, adds[i].value # "undef",
             \A j \in 1 .. m + 1 : i < j /\ adds[j].key = adds[i].key => adds[j].value = "undef"
      PROVE  adds[i].key \in DOMAIN new /\ new[adds[i].key] = adds[i].value
  <2>1. CASE i = m + 1
    BY <1>1, <1>3, <2>1, Zenon
  <2>2. CASE i # m + 1
    <3>1. i \in 1 .. m
      BY <1>2, <2>2, Zenon
    <3>2. adds[i].key \in DOMAIN attrs /\ attrs[adds[i].key] = adds[i].value
      BY <1>2, <1>3, <3>1, Zenon DEF AddedSoFar
    <3>3. v # "undef" => adds[i].key # key
      BY <1>2, <1>3, <3>1, Zenon
    <3> HIDE DEF key, v
    <3> QED
      BY <1>1, <3>2, <3>3, Zenon
  <2> QED
    BY <2>1, <2>2, Zenon
<1> QED
  BY <1>3, Zenon DEF AddedSoFar, new

\* AddedSoFar holds when the loop of callWithSpanHandlerPre ends.
LEMMA AddRunSoFar ==
    ASSUME NEW adds \in Seq(Adds), NEW g, AddRun(adds, Len(adds), g)
    PROVE  AddedSoFar(adds, Len(adds), g[Len(adds)])
<1>1. Len(adds) \in Nat
  BY LenProperties
<1>2. \A k \in 1 .. Len(adds) : g[k] = AddAssoc(g[k - 1], adds[k].key, adds[k].value)
  BY <1>1 DEF AddRun
<1> DEFINE S == {m \in Nat : m <= Len(adds) => AddedSoFar(adds, m, g[m])}
<1>3. 0 \in S
  <2>1. 1 .. 0 = {}
    OBVIOUS
  <2>2. AddedSoFar(adds, 0, g[0])
    BY <2>1, Zenon DEF AddedSoFar
  <2> QED
    BY <2>2
<1>4. ASSUME NEW m \in Nat, m \in S PROVE m + 1 \in S
  <2>1. SUFFICES ASSUME m + 1 <= Len(adds) PROVE AddedSoFar(adds, m + 1, g[m + 1])
    OBVIOUS
  <2>2. m <= Len(adds) /\ m + 1 \in 1 .. Len(adds) /\ (m + 1) - 1 = m
    BY <1>1, <2>1
  <2>3. AddedSoFar(adds, m, g[m])
    BY <1>4, <2>2
  <2>4. g[m + 1] = AddAssoc(g[m], adds[m + 1].key, adds[m + 1].value)
    BY <1>2, <2>2
  <2> QED
    BY <2>3, <2>4, AddedSoFarStep
<1> HIDE DEF S
<1>5. Nat \subseteq S
  BY <1>3, <1>4, Induct
<1> QED
  BY <1>1, <1>5 DEF S

\* The attributes of the attribute itself, the parameters and the properties.
StaticPart(f) ==
    LET static == ArgOf(f.attribute, 3, "attributes", "array") IN IF static = "none" THEN <<>> ELSE static
ParamKeyOf(f, j) == attrKey(f.annotated[j].as, f.params[f.annotated[j].index + 1])
ParamPart(f, fr, n) ==
    [j \in DOMAIN f.annotated |->
        [key |-> ParamKeyOf(f, j),
         value |-> IF f.annotated[j].index < n THEN fr[f.annotated[j].index] ELSE "undef"]]
PropKeyOf(i) == attrKey(Properties[i].as, Properties[i].name)
PropPart ==
    [i \in DOMAIN Properties |-> [key |-> PropKeyOf(i), value |-> PropValue(Properties[i].name)]]

\* What callWithSpanHandlerPre adds, as three parts.
LEMMA AddedParts ==
    ASSUME NEW f, NEW fr, NEW n
    PROVE  AddedAttributes(f, fr, n, readWithSpanMetadata(f)) = StaticPart(f) \o ParamPart(f, fr, n) \o PropPart
<1> DEFINE meta == readWithSpanMetadata(f)
<1> DEFINE pa == [i \in DOMAIN f.annotated |-> [argIndex |-> f.annotated[i].index, attrKey |-> ParamKeyOf(f, i)]]
<1> DEFINE qa == [i \in DOMAIN Properties |-> [propName |-> Properties[i].name, attrKey |-> PropKeyOf(i)]]
<1>1. meta.paramAttributes = pa /\ meta.propAttributes = qa
  BY DEF readWithSpanMetadata, ParamKeyOf, PropKeyOf
<1> DEFINE F(p) == [key |-> p.attrKey, value |-> IF p.argIndex < n THEN fr[p.argIndex] ELSE "undef"]
<1> DEFINE G(p) == [key |-> p.attrKey, value |-> PropValue(p.propName)]
<1>2. AddedAttributes(f, fr, n, meta) =
        StaticPart(f) \o [i \in DOMAIN pa |-> F(pa[i])] \o [i \in DOMAIN qa |-> G(qa[i])]
  <2> HIDE DEF meta, pa, qa
  <2> QED
    BY <1>1 DEF AddedAttributes, StaticPart
<1>3. [i \in DOMAIN pa |-> F(pa[i])] = ParamPart(f, fr, n)
  <2>1. DOMAIN pa = DOMAIN f.annotated
    OBVIOUS
  <2>2. \A i \in DOMAIN f.annotated : pa[i].attrKey = ParamKeyOf(f, i) /\ pa[i].argIndex = f.annotated[i].index
    OBVIOUS
  <2> HIDE DEF pa
  <2> QED
    BY <2>1, <2>2 DEF ParamPart
<1>4. [i \in DOMAIN qa |-> G(qa[i])] = PropPart
  <2>1. DOMAIN qa = DOMAIN Properties
    OBVIOUS
  <2>2. \A i \in DOMAIN Properties : qa[i].attrKey = PropKeyOf(i) /\ qa[i].propName = Properties[i].name
    OBVIOUS
  <2> HIDE DEF qa
  <2> QED
    BY <2>1, <2>2 DEF PropPart
<1> HIDE DEF meta, pa, qa, F, G
<1> QED
  BY <1>2, <1>3, <1>4 DEF meta

\* The attributes of the attribute are a sequence of keys and values.
LEMMA StaticFacts ==
    ASSUME NEW f \in Callees
    PROVE  StaticPart(f) \in Seq(Adds)
<1> DEFINE attr == f.attribute
<1> DEFINE found == {i \in DOMAIN attr : (attr[i].name = "" /\ i = 3) \/ attr[i].name = "attributes"}
<1> DEFINE k == findAttrArgIndex(attr, 3, "attributes")
<1>1. \A i \in DOMAIN attr : i \in Nat \ {0}
         /\ (attr[i].type = "array" => attr[i].value \in Seq([key : STRING, value : STRING]))
  BY CalleesAssumption
<1>2. k # 0 => k \in DOMAIN attr
  <2>1. CASE found = {}
    BY <2>1 DEF findAttrArgIndex
  <2>2. CASE found # {}
    <3>1. found \subseteq Nat
      BY <1>1
    <3>2. k = CHOOSE i \in found : \A j \in found : i <= j
      BY <2>2 DEF findAttrArgIndex
    <3>3. found \subseteq DOMAIN attr
      OBVIOUS
    <3> HIDE DEF found, k
    <3>4. \E i \in found : \A j \in found : i <= j
      BY <2>2, <3>1, LeastElement
    <3> QED
      BY <3>2, <3>3, <3>4
  <2> QED
    BY <2>1, <2>2
<1>3. StaticPart(f) = <<>> \/ (k # 0 /\ attr[k].type = "array" /\ StaticPart(f) = attr[k].value)
  BY DEF StaticPart, ArgOf
<1> HIDE DEF k, attr
<1>4. \A s \in Seq([key : STRING, value : STRING]) : s \in Seq(Adds)
  <2> DEFINE R == [key : STRING, value : STRING]
  <2>1. R \subseteq Adds
    BY DEF Adds, Values
  <2> HIDE DEF R
  <2>2. ASSUME NEW s \in Seq(R) PROVE s \in Seq(Adds)
    <3>1. Len(s) \in Nat /\ s \in [1 .. Len(s) -> R]
      BY LenProperties, ElementOfSeq
    <3>2. s \in [1 .. Len(s) -> Adds]
      BY <2>1, <3>1
    <3> QED
      BY <3>1, <3>2
  <2> QED
    BY <2>2 DEF R
<1>5. <<>> \in Seq(Adds)
  OBVIOUS
<1> QED
  BY <1>1, <1>2, <1>3, <1>4, <1>5

\* Fields of such a pair.
LEMMA PairFields ==
    ASSUME NEW e, NEW k, NEW v, e = [key |-> k, value |-> v]
    PROVE  e.key = k /\ e.value = v
<1> DEFINE r == [key |-> k, value |-> v]
<1>1. r.key = k /\ r.value = v
  OBVIOUS
<1>2. e = r
  OBVIOUS
<1> HIDE DEF r
<1> QED
  BY <1>1, <1>2, Zenon

\* The part of the parameters, element by element.
LEMMA ParamFacts ==
    ASSUME NEW f \in Callees, NEW fr \in SlotSets, NEW n \in Nat
    PROVE  /\ f.annotated \in Seq([index : Nat, as : STRING])
           /\ DOMAIN f.annotated = 1 .. Len(f.annotated) /\ Len(f.annotated) \in Nat
           /\ ParamPart(f, fr, n) \in Seq(Adds) /\ Len(ParamPart(f, fr, n)) = Len(f.annotated)
           /\ \A j \in DOMAIN f.annotated :
                /\ f.annotated[j].index \in Nat /\ f.annotated[j].index < Len(f.params)
                /\ ParamPart(f, fr, n)[j].key = ParamKeyOf(f, j)
                /\ ParamPart(f, fr, n)[j].value =
                     IF f.annotated[j].index < n THEN fr[f.annotated[j].index] ELSE "undef"
<1> DEFINE A == f.annotated
<1> DEFINE V(j) == IF A[j].index < n THEN fr[A[j].index] ELSE "undef"
<1> DEFINE PP == ParamPart(f, fr, n)
<1>1. A \in Seq([index : Nat, as : STRING]) /\ \A j \in DOMAIN A : A[j].index < Len(f.params)
  BY CalleesAssumption
<1>2. DOMAIN A = 1 .. Len(A) /\ Len(A) \in Nat
  BY <1>1, LenProperties
<1>3. \A j \in DOMAIN A : A[j] \in [index : Nat, as : STRING]
  BY <1>1, <1>2, ElementOfSeq
<1>4. \A j \in DOMAIN A : A[j].index \in Nat /\ A[j].as \in STRING
  BY <1>3
<1>5. PP = [j \in DOMAIN A |-> [key |-> ParamKeyOf(f, j), value |-> V(j)]]
  BY DEF ParamPart
<1> HIDE DEF A
<1>6. ASSUME NEW j \in DOMAIN A PROVE ParamKeyOf(f, j) \in STRING /\ V(j) \in Values
  <2>1. A[j].index + 1 \in 1 .. Len(f.params) /\ A[j].index \in SlotNumbers
    <3>1. /\ Len(f.params) \in Nat /\ f.lastVar \in Nat /\ f.T \in Nat /\ FrameSize \in Nat /\ MaxPassed \in Nat
          /\ Len(f.params) <= f.lastVar /\ f.lastVar + f.T + MaxPassed < FrameSize
      BY CalleeFacts, Zenon
    <3> DEFINE x == A[j].index
    <3> DEFINE P == Len(f.params)
    <3>2. x \in Nat /\ x < P
      BY <1>1, <1>4
    <3> HIDE DEF x, P
    <3>3. P \in Nat /\ P <= f.lastVar
      BY <3>1 DEF P
    <3>4. x + 1 \in 1 .. P /\ x \in 0 .. FrameSize - 1
      BY <3>1, <3>2, <3>3
    <3> QED
      BY <3>4, Zenon DEF SlotNumbers, x, P
  <2>2. f.params[A[j].index + 1] \in STRING
    BY <2>1, CalleeFacts, ElementOfSeq, Zenon
  <2>3. fr[A[j].index] \in Values /\ "undef" \in Values
    BY <2>1 DEF SlotSets, Values
  <2>4. ParamKeyOf(f, j) = f.params[A[j].index + 1] \/ ParamKeyOf(f, j) = A[j].as
    BY DEF ParamKeyOf, attrKey, A
  <2>5. V(j) = fr[A[j].index] \/ V(j) = "undef"
    OBVIOUS
  <2> HIDE DEF V
  <2> QED
    BY <1>4, <2>2, <2>3, <2>4, <2>5, Zenon
<1> HIDE DEF V, PP
<1>7. \A j \in DOMAIN A : PP[j] = [key |-> ParamKeyOf(f, j), value |-> V(j)]
  BY <1>5
<1>8. PP \in [1 .. Len(A) -> Adds]
  <2>1. \A j \in 1 .. Len(A) : [key |-> ParamKeyOf(f, j), value |-> V(j)] \in Adds
    BY <1>2, <1>6 DEF Adds
  <2>2. PP = [j \in 1 .. Len(A) |-> [key |-> ParamKeyOf(f, j), value |-> V(j)]]
    BY <1>2, <1>5, Zenon
  <2> DEFINE E(j) == [key |-> ParamKeyOf(f, j), value |-> V(j)]
  <2>3. PP = [j \in 1 .. Len(A) |-> E(j)] /\ \A j \in 1 .. Len(A) : E(j) \in Adds
    BY <2>1, <2>2, Zenon
  <2> HIDE DEF E
  <2> QED
    BY <2>3, Zenon
<1>9. PP \in Seq(Adds) /\ Len(PP) = Len(A)
  BY <1>2, <1>8
<1>10. \A j \in DOMAIN A : PP[j].key = ParamKeyOf(f, j) /\ PP[j].value = V(j)
  <2>1. SUFFICES ASSUME NEW j \in DOMAIN A PROVE PP[j].key = ParamKeyOf(f, j) /\ PP[j].value = V(j)
    OBVIOUS
  <2>2. PP[j] = [key |-> ParamKeyOf(f, j), value |-> V(j)]
    BY <1>7
  <2> QED
    BY <2>2, PairFields
<1> QED
  BY <1>1, <1>2, <1>4, <1>9, <1>10, Zenon DEF A, V, PP

\* The part of the properties, element by element.
LEMMA PropFacts ==
    /\ DOMAIN Properties = 1 .. Len(Properties) /\ Len(Properties) \in Nat
    /\ PropPart \in Seq(Adds) /\ Len(PropPart) = Len(Properties)
    /\ \A i \in DOMAIN Properties : PropPart[i].key = PropKeyOf(i) /\ PropPart[i].value = Properties[i].value
<1>1. Properties \in Seq([name : STRING, as : STRING, value : STRING])
      /\ \A i, j \in DOMAIN Properties : Properties[i].name = Properties[j].name => i = j
  BY PropertiesAssumption
<1>2. DOMAIN Properties = 1 .. Len(Properties) /\ Len(Properties) \in Nat
  BY <1>1, LenProperties
<1>3. \A i \in DOMAIN Properties : Properties[i] \in [name : STRING, as : STRING, value : STRING]
  BY <1>1, <1>2, ElementOfSeq
<1>4. \A i \in DOMAIN Properties : Properties[i].name \in STRING /\ Properties[i].as \in STRING /\ Properties[i].value \in STRING
  BY <1>3
<1>5. ASSUME NEW i \in DOMAIN Properties PROVE PropValue(Properties[i].name) = Properties[i].value
  <2> DEFINE c == CHOOSE k \in DOMAIN Properties : Properties[k].name = Properties[i].name
  <2>1. c \in DOMAIN Properties /\ Properties[c].name = Properties[i].name
    BY Zenon
  <2>2. PropValue(Properties[i].name) = Properties[c].value
    BY Zenon DEF PropValue
  <2> HIDE DEF c
  <2> QED
    BY <1>1, <2>1, <2>2, Zenon
<1>6. PropPart = [i \in DOMAIN Properties |-> [key |-> PropKeyOf(i), value |-> PropValue(Properties[i].name)]]
  BY DEF PropPart
<1>7. \A i \in DOMAIN Properties : PropKeyOf(i) \in STRING
  BY <1>4, Zenon DEF PropKeyOf, attrKey
<1>8. \A i \in DOMAIN Properties : PropPart[i] = [key |-> PropKeyOf(i), value |-> Properties[i].value]
  BY <1>5, <1>6
<1>9. PropPart \in [1 .. Len(Properties) -> Adds]
  <2>1. \A i \in 1 .. Len(Properties) : [key |-> PropKeyOf(i), value |-> Properties[i].value] \in Adds
    BY <1>2, <1>4, <1>7 DEF Adds, Values
  <2> HIDE DEF Adds
  <2> QED
    BY <1>2, <1>6, <1>8, <2>1
<1>10. PropPart \in Seq(Adds) /\ Len(PropPart) = Len(Properties)
  BY <1>2, <1>9
<1>11. \A i \in DOMAIN Properties : PropPart[i].key = PropKeyOf(i) /\ PropPart[i].value = Properties[i].value
  <2>1. SUFFICES ASSUME NEW i \in DOMAIN Properties
                 PROVE  PropPart[i].key = PropKeyOf(i) /\ PropPart[i].value = Properties[i].value
    OBVIOUS
  <2>2. PropPart[i] = [key |-> PropKeyOf(i), value |-> Properties[i].value]
    BY <1>8
  <2> QED
    BY <2>2, PairFields
<1> QED
  BY <1>2, <1>10, <1>11

\* The last annotated parameter of a key gives its value, unless a property does.
LEMMA SpanAttributes ==
    ASSUME NEW f \in Callees, NEW fr \in SlotSets, NEW n \in Nat, NEW j \in DOMAIN f.annotated,
           f.annotated[j].index < n, fr[f.annotated[j].index] # "undef",
           \A i \in DOMAIN Properties : PropKeyOf(i) = ParamKeyOf(f, j) => Properties[i].value = "undef",
           \A l \in DOMAIN f.annotated : ParamKeyOf(f, l) = ParamKeyOf(f, j) => l <= j
    PROVE  LET attrs == callWithSpanHandlerPre(f, fr, n, readWithSpanMetadata(f))
           IN  ParamKeyOf(f, j) \in DOMAIN attrs /\ attrs[ParamKeyOf(f, j)] = fr[f.annotated[j].index]
<1> DEFINE st == StaticPart(f)
<1> DEFINE pa == ParamPart(f, fr, n)
<1> DEFINE qa == PropPart
<1> DEFINE adds == st \o pa \o qa
<1> DEFINE attrs == callWithSpanHandlerPre(f, fr, n, readWithSpanMetadata(f))
<1> DEFINE key == ParamKeyOf(f, j)
<1> DEFINE at == Len(st) + j
<1>1. st \in Seq(Adds) /\ pa \in Seq(Adds) /\ qa \in Seq(Adds)
  BY StaticFacts, ParamFacts, PropFacts
<1>2. Len(pa) = Len(f.annotated) /\ Len(qa) = Len(Properties)
  BY ParamFacts, PropFacts
<1>3. DOMAIN f.annotated = 1 .. Len(f.annotated) /\ DOMAIN Properties = 1 .. Len(Properties)
  BY ParamFacts, PropFacts
<1>4. adds \in Seq(Adds)
  BY <1>1
<1>5. Len(st) \in Nat /\ Len(pa) \in Nat /\ Len(qa) \in Nat
  BY <1>1, LenProperties
<1>6. /\ Len(adds) = Len(st) + Len(pa) + Len(qa)
      /\ \A i \in 1 .. Len(pa) : adds[Len(st) + i] = pa[i]
      /\ \A i \in 1 .. Len(qa) : adds[Len(st) + Len(pa) + i] = qa[i]
  <2> HIDE DEF st, pa, qa
  <2>1. st \o pa \in Seq(Adds) /\ Len(st \o pa) = Len(st) + Len(pa)
        /\ \A i \in 1 .. Len(pa) : (st \o pa)[Len(st) + i] = pa[i]
    BY <1>1, <1>5
  <2> DEFINE sp == st \o pa
  <2>2. sp \in Seq(Adds) /\ Len(sp) = Len(st) + Len(pa) /\ adds = sp \o qa
    BY <2>1
  <2>3. \A i \in 1 .. Len(pa) : sp[Len(st) + i] = pa[i] /\ Len(st) + i \in 1 .. Len(sp)
    BY <1>5, <2>1, <2>2
  <2> HIDE DEF sp, adds
  <2>4. Len(sp) \in Nat
    BY <1>5, <2>2
  <2>5. /\ Len(adds) = Len(sp) + Len(qa)
        /\ \A i \in 1 .. Len(sp) : adds[i] = sp[i]
        /\ \A i \in 1 .. Len(qa) : adds[Len(sp) + i] = qa[i]
    <3>1. Len(sp \o qa) = Len(sp) + Len(qa)
      BY <1>1, <2>2, ConcatProperties, Zenon
    <3>2. \A i \in 1 .. Len(sp) : (sp \o qa)[i] = sp[i]
      BY <1>1, <1>5, <2>2, <2>4
    <3>3. \A i \in 1 .. Len(qa) : (sp \o qa)[Len(sp) + i] = qa[i]
      BY <1>1, <1>5, <2>2, <2>4
    <3> QED
      BY <2>2, <3>1, <3>2, <3>3, Zenon
  <2> QED
    BY <2>2, <2>3, <2>5
<1> DEFINE B == CHOOSE g : AddRun(adds, Len(adds), g)
<1>7. attrs = B[Len(adds)]
  <2>1. AddedAttributes(f, fr, n, readWithSpanMetadata(f)) = adds
    BY AddedParts, Zenon
  <2> HIDE DEF adds
  <2> QED
    BY <2>1, Zenon DEF callWithSpanHandlerPre, AddRun, NoAttributes
<1> HIDE DEF adds, attrs
<1>8. AddedSoFar(adds, Len(adds), attrs)
  <2>1. Len(adds) \in Nat
    BY <1>4, LenProperties
  <2>2. AddRun(adds, Len(adds), B)
    BY <2>1, AddRunExists, Zenon
  <2> HIDE DEF B
  <2> QED
    BY <1>4, <1>7, <2>2, AddRunSoFar
<1>9. pa[j].key = key /\ pa[j].value = fr[f.annotated[j].index]
  BY ParamFacts, Zenon
<1>10. adds[at].key = key /\ adds[at].value = fr[f.annotated[j].index]
  BY <1>2, <1>3, <1>6, <1>9, Zenon
<1>11. \A l \in 1 .. Len(pa) : pa[l].key = key => l <= j
  <2>1. \A l \in DOMAIN f.annotated : pa[l].key = ParamKeyOf(f, l)
    BY ParamFacts, Zenon
  <2> HIDE DEF pa
  <2> QED
    BY <1>2, <1>3, <2>1, Zenon
<1>12. \A i \in 1 .. Len(qa) : qa[i].key = key => qa[i].value = "undef"
  BY <1>2, <1>3, PropFacts, Zenon
<1>13. j \in 1 .. Len(pa)
  BY <1>2, <1>3
<1> HIDE DEF st, pa, qa, key
<1>14. at \in 1 .. Len(adds)
  BY <1>5, <1>6, <1>13
<1>15. ASSUME NEW k \in 1 .. Len(adds), at < k, adds[k].key = key PROVE adds[k].value = "undef"
  <2>1. CASE k <= Len(st) + Len(pa)
    <3> DEFINE l == k - Len(st)
    <3>1. l \in 1 .. Len(pa) /\ k = Len(st) + l /\ ~ (l <= j)
      BY <1>5, <1>6, <1>13, <1>15, <2>1
    <3> HIDE DEF l
    <3> QED
      BY <1>6, <1>11, <1>15, <3>1, Zenon
  <2>2. CASE ~ (k <= Len(st) + Len(pa))
    <3> DEFINE l == k - (Len(st) + Len(pa))
    <3>1. l \in 1 .. Len(qa) /\ k = Len(st) + Len(pa) + l
      BY <1>5, <1>6, <1>15, <2>2
    <3> HIDE DEF l
    <3> QED
      BY <1>6, <1>12, <1>15, <3>1, Zenon
  <2> QED
    BY <2>1, <2>2
<1> HIDE DEF at
<1>16. key \in DOMAIN attrs /\ attrs[key] = fr[f.annotated[j].index]
  BY <1>8, <1>10, <1>14, <1>15, Zenon DEF AddedSoFar
<1> QED
  BY <1>16 DEF key, attrs

-----------------------------------------------------------------------------
(* The invariant of HookSpec *)

RanEntries == [typed : BOOLEAN, value : STRING \cup {"null", "returned", "nullptr"}]
Counts(h) == h.typed /\ h.value # "undef"

\* What the function and the post hooks r have made of the return value v.
ReturnInv(r, v) ==
    /\ r # <<>> /\ Counts(r[1])
    /\ IF r[1].value = "nullptr" THEN v = "nullptr"
       ELSE /\ v # "nullptr"
            /\ \E i \in 1 .. Len(r) : /\ Counts(r[i]) /\ v = r[i].value
                                      /\ \A j \in 1 .. Len(r) : Counts(r[j]) => j <= i

SpanFrom(f, fr, n) == callWithSpanHandlerPre(f, fr, n, readWithSpanMetadata(f))

HookInv ==
    /\ phase # "none" => ArgsInv(callee, slots, numArgs, expected)
    /\ phase \in {"none", "pre"} => span = NoSpanYet
    /\ phase \in {"body", "post"} => span = NoSpanYet \/ span.attributes = SpanFrom(callee, slots, numArgs)
    /\ ran \in Seq(RanEntries)
    /\ phase = "post" => ReturnInv(ran, retval)

\* No call has begun.
LEMMA HookInitInv == HookInit => HookInv
  BY DEF HookInit, HookInv

\* callPostHook keeps the return value that of the last hook that counts.
LEMMA PostHookReturns ==
    ASSUME NEW r \in Seq(RanEntries), NEW v, ReturnInv(r, v), NEW h \in PostHooks
    PROVE  ReturnInv(Append(r, h), IF h.value # "undef" /\ v # "nullptr" /\ h.typed THEN h.value ELSE v)
<1> DEFINE n == Len(r)
<1> DEFINE new == Append(r, h)
<1> DEFINE w == IF h.value # "undef" /\ v # "nullptr" /\ h.typed THEN h.value ELSE v
<1>1. h.typed \in BOOLEAN /\ h.value # "nullptr" /\ h \in RanEntries
  <2>1. h \in [typed : BOOLEAN, value : STRING \ {"nullptr"}]
    BY PostHooksAssumption
  <2> QED
    BY <2>1 DEF RanEntries
<1>2. r # <<>> /\ Counts(r[1])
  BY DEF ReturnInv
<1>3. n \in Nat /\ 1 \in 1 .. n
  BY <1>2
<1>4. new \in Seq(RanEntries) /\ Len(new) = n + 1 /\ new[n + 1] = h /\ \A i \in 1 .. n : new[i] = r[i]
  BY <1>1
<1>5. /\ \A i \in 1 .. n + 1 : i \in 1 .. n \/ i = n + 1
      /\ \A i \in 1 .. n : i \in 1 .. n + 1 /\ i <= n + 1
      /\ n + 1 \in 1 .. n + 1 /\ n + 1 <= n + 1
  BY <1>3
<1>6. new[1] = r[1] /\ new # <<>>
  BY <1>3, <1>4
<1> HIDE DEF n, new
<1>7. CASE r[1].value = "nullptr"
  <2>1. v = "nullptr"
    BY <1>7, Zenon DEF ReturnInv
  <2>2. w = "nullptr"
    BY <2>1, Zenon
  <2> HIDE DEF w
  <2>3. ReturnInv(new, w)
    BY <1>2, <1>6, <1>7, <2>2, Zenon DEF ReturnInv
  <2> QED
    BY <2>3 DEF new, w
<1>8. CASE r[1].value # "nullptr"
  <2>1. v # "nullptr"
    BY <1>8, Zenon DEF ReturnInv
  <2>2. PICK i \in 1 .. n : Counts(r[i]) /\ v = r[i].value /\ \A j \in 1 .. n : Counts(r[j]) => j <= i
    BY <1>8, Zenon DEF ReturnInv, n
  <2>3. CASE Counts(h)
    <3>1. w = h.value
      BY <2>1, <2>3, Zenon DEF Counts
    <3> HIDE DEF w
    <3>2. \A j \in 1 .. n + 1 : j <= n + 1
      BY <1>5, Zenon
    <3>3. n + 1 \in 1 .. Len(new) /\ Counts(new[n + 1]) /\ w = new[n + 1].value
          /\ \A j \in 1 .. Len(new) : Counts(new[j]) => j <= n + 1
      BY <1>4, <1>5, <2>3, <3>1, <3>2, Zenon
    <3>4. w # "nullptr"
      BY <1>1, <3>1, Zenon
    <3>5. ReturnInv(new, w)
      BY <1>2, <1>6, <1>8, <3>3, <3>4, Zenon DEF ReturnInv
    <3> QED
      BY <3>5 DEF new, w
  <2>4. CASE ~ Counts(h)
    <3>1. w = v
      BY <2>4, Zenon DEF Counts
    <3> HIDE DEF w
    <3>2. i \in 1 .. Len(new) /\ Counts(new[i]) /\ w = new[i].value
      BY <1>4, <1>5, <2>2, <3>1, Zenon
    <3>3. \A j \in 1 .. Len(new) : Counts(new[j]) => j <= i
      BY <1>4, <1>5, <2>2, <2>4, Zenon
    <3>4. w # "nullptr"
      BY <2>1, <3>1, Zenon
    <3>5. ReturnInv(new, w)
      BY <1>2, <1>6, <1>8, <3>2, <3>3, <3>4, Zenon DEF ReturnInv
    <3> QED
      BY <3>5 DEF new, w
  <2> QED
    BY <2>3, <2>4, Zenon
<1> QED
  BY <1>7, <1>8, Zenon

\* Each action of the call keeps HookInv.
LEMMA HookInvStep == HookInv /\ [HookNext]_hookVars => HookInv'
<1> SUFFICES ASSUME HookInv, [HookNext]_hookVars PROVE HookInv'
  OBVIOUS
<1>1. CASE UNCHANGED hookVars
  BY <1>1 DEF HookInv, hookVars
<1>2. ASSUME NEW f \in Callees, NEW n \in 0 .. MaxPassed, Call(f, n) PROVE HookInv'
  <2>1. ArgsInv(callee', slots', numArgs', expected')
    BY <1>2, PassedArgs, Zenon DEF Call
  <2>2. phase = "none" /\ phase' = "pre" /\ span' = span /\ ran' = ran
    BY <1>2 DEF Call
  <2> QED
    BY <2>1, <2>2 DEF HookInv
<1>3. ASSUME NEW ret \in Returned, PreHook(ret) PROVE HookInv'
  <2>1. phase = "pre" /\ phase' = "pre" /\ span' = span /\ callee' = callee
        /\ expected' = Wanted(callee, expected, ret) /\ ran' = Append(ran, [typed |-> FALSE, value |-> "null"])
    BY <1>3 DEF PreHook
  <2>2. ArgsInv(callee, slots, numArgs, expected)
    BY <2>1 DEF HookInv
  <2>3. ArgsInv(callee', slots', numArgs', expected')
    <3>1. CASE Identical(getCallArguments(callee, slots, numArgs), ret)
      <4>1. slots' = slots /\ numArgs' = numArgs
        BY <1>3, <3>1 DEF PreHook
      <4> QED
        BY <2>1, <2>2, <3>1, <4>1, IdenticalArgs, Zenon
    <3>2. CASE ~ Identical(getCallArguments(callee, slots, numArgs), ret)
      <4>1. /\ slots' = argsPostProcessing(callee, slots, numArgs, ret).frame
            /\ numArgs' = argsPostProcessing(callee, slots, numArgs, ret).numArgs
        BY <1>3, <3>2, Zenon DEF PreHook
      <4> QED
        BY <2>1, <2>2, <4>1, PutArgs, Zenon
    <3> QED
      BY <3>1, <3>2, Zenon
  <2>4. ran' \in Seq(RanEntries)
    <3>1. [typed |-> FALSE, value |-> "null"] \in RanEntries
      BY DEF RanEntries
    <3> QED
      BY <2>1, <3>1 DEF HookInv
  <2> QED
    BY <2>1, <2>3, <2>4 DEF HookInv
<1>4. CASE WithSpanPre
  <2>1. phase = "pre" /\ phase' = "body"
        /\ UNCHANGED <<callee, slots, numArgs, retval, expected, ran>>
    BY <1>4 DEF WithSpanPre
  <2>2. span' = span \/ span'.attributes = SpanFrom(callee, slots, numArgs)
    <3> DEFINE meta == readWithSpanMetadata(callee)
    <3>1. span' = span \/ span' = [name |-> meta.spanName, kind |-> meta.spanKind,
                                   attributes |-> callWithSpanHandlerPre(callee, slots, numArgs, meta)]
      BY <1>4, Zenon DEF WithSpanPre
    <3> DEFINE e == [name |-> meta.spanName, kind |-> meta.spanKind, attributes |-> SpanFrom(callee, slots, numArgs)]
    <3>2. span' = span \/ span' = e
      BY <3>1 DEF SpanFrom
    <3>3. e.attributes = SpanFrom(callee, slots, numArgs)
      OBVIOUS
    <3> HIDE DEF e
    <3> QED
      BY <3>2, <3>3, Zenon
  <2> QED
    BY <2>1, <2>2 DEF HookInv
<1>5. ASSUME NEW v \in {"returned", "nullptr"}, Body(v) PROVE HookInv'
  <2>1. phase = "body" /\ phase' = "post" /\ retval' = v
        /\ ran' = <<[typed |-> TRUE, value |-> v]>>
        /\ UNCHANGED <<callee, slots, numArgs, span, expected>>
    BY <1>5 DEF Body
  <2> DEFINE e == [typed |-> TRUE, value |-> v]
  <2>2. e \in RanEntries /\ e.typed = TRUE /\ e.value = v
    BY DEF RanEntries
  <2>3. ran' = <<e>>
    BY <2>1
  <2> HIDE DEF e
  <2>4. ran' \in Seq(RanEntries) /\ ran' # <<>> /\ ran'[1] = e /\ Len(ran') = 1
    BY <2>2, <2>3
  <2>5. Counts(e)
    BY <1>5, <2>2 DEF Counts
  <2>6. 1 \in 1 .. Len(ran') /\ \A j \in 1 .. Len(ran') : j <= 1
    BY <2>4
  <2>7. ReturnInv(ran', retval')
    BY <2>1, <2>2, <2>4, <2>5, <2>6, Zenon DEF ReturnInv
  <2> QED
    BY <2>1, <2>4, <2>7 DEF HookInv
<1>6. ASSUME NEW h \in PostHooks, PostHook(h) PROVE HookInv'
  <2>1. phase = "post" /\ phase' = "post" /\ ran' = Append(ran, h)
        /\ retval' = (IF h.value # "undef" /\ retval # "nullptr" /\ h.typed THEN h.value ELSE retval)
        /\ UNCHANGED <<callee, slots, numArgs, span, expected>>
    BY <1>6, Zenon DEF PostHook
  <2>2. ran \in Seq(RanEntries) /\ ReturnInv(ran, retval)
    BY <2>1 DEF HookInv
  <2>3. ReturnInv(ran', retval')
    BY <2>1, <2>2, PostHookReturns, Zenon
  <2>4. ran' \in Seq(RanEntries)
    <3>1. h \in [typed : BOOLEAN, value : STRING \ {"nullptr"}]
      BY PostHooksAssumption
    <3>2. h \in RanEntries
      BY <3>1 DEF RanEntries
    <3> QED
      BY <2>1, <2>2, <3>2
  <2> QED
    BY <2>1, <2>3, <2>4 DEF HookInv
<1> QED
  BY <1>1, <1>2, <1>3, <1>4, <1>5, <1>6 DEF HookNext

-----------------------------------------------------------------------------
(* HookValuesArrive *)

\* HookInv gives the first part of HookValuesArrive,
LEMMA ArgsArrive ==
    ASSUME HookInv PROVE ArgumentsArrive
<1> SUFFICES ASSUME phase # "none" PROVE ArgumentsArrive
  BY DEF ArgumentsArrive
<1> DEFINE args == getCallArguments(callee, slots, numArgs)
<1> DEFINE exact == IsInternal(callee) \/ callee.lastVar = Len(callee.params)
<1> DEFINE named(r, i) == {k \in DOMAIN r : getFunctionArgumentIndex(r[k].name, callee) = i - 1}
<1> DEFINE ByName(i) == UNION {{r[k].value : k \in named(r, i)} : r \in Returned}
<1>1. ArgsInv(callee, slots, numArgs, expected)
  BY DEF HookInv
<1>2. /\ callee \in Callees /\ numArgs \in Nat /\ Len(expected) <= numArgs /\ expected \in Seq(Values)
      /\ \A p \in Nat : Covered(callee, p) => ArgAt(callee, slots, numArgs, expected, p)
  BY <1>1, Zenon DEF ArgsInv
<1>3. Len(args) = numArgs /\ DOMAIN args = 1 .. numArgs
      /\ \A i \in 1 .. numArgs : args[i] = IF slots[SlotOf(callee, i - 1)] = "undef" THEN "null" ELSE slots[SlotOf(callee, i - 1)]
  BY <1>2, CallArguments, Zenon
<1>4. Len(args) >= Len(expected)
  BY <1>2, <1>3, LenProperties
<1>5. \A i : ByName(i) = GivenByName(callee, i - 1)
  BY Zenon DEF GivenByName
<1> HIDE DEF args, ByName
<1>6. ASSUME NEW i \in DOMAIN args, exact \/ i <= Len(callee.params)
      PROVE  IF i <= Len(expected) /\ expected[i] # "gap" THEN args[i] = expected[i]
             ELSE args[i] \in {"null"} \cup ByName(i)
  <2> DEFINE p == i - 1
  <2> DEFINE v == slots[SlotOf(callee, p)]
  <2>1. i \in 1 .. numArgs
    BY <1>3, <1>6
  <2>2. Len(callee.params) \in Nat /\ Len(expected) \in Nat
    BY <1>2, CalleeFacts, LenProperties
  <2>3. p \in Nat /\ p < numArgs /\ p + 1 = i /\ (i <= Len(expected) <=> p < Len(expected))
        /\ (i <= Len(callee.params) <=> p < Len(callee.params))
    BY <1>2, <2>1, <2>2
  <2>4. args[i] = IF v = "undef" THEN "null" ELSE v
    BY <1>3, <2>1, Zenon
  <2>5. ByName(i) = GivenByName(callee, p)
    BY <1>5, Zenon
  <2> HIDE DEF p
  <2>6. ArgAt(callee, slots, numArgs, expected, p)
    BY <1>2, <1>6, <2>3, Zenon DEF Covered
  <2> HIDE DEF v
  <2>7. CASE i <= Len(expected) /\ expected[i] # "gap"
    <3>1. v = expected[i] /\ expected[i] # "undef"
      BY <2>3, <2>6, <2>7, Zenon DEF ArgAt, v
    <3> QED
      BY <2>4, <2>7, <3>1, Zenon
  <2>8. CASE ~ (i <= Len(expected) /\ expected[i] # "gap")
    <3>1. v \in {"undef", "null"} \cup GivenByName(callee, p)
      BY <2>3, <2>6, <2>8, Zenon DEF ArgAt, v
    <3>2. args[i] \in {"null"} \cup ByName(i)
      BY <2>4, <2>5, <3>1, Zenon
    <3> QED
      BY <2>8, <3>2, Zenon
  <2> QED
    BY <2>7, <2>8, Zenon
<1> QED
  BY <1>4, <1>6, Zenon DEF ArgumentsArrive, args, ByName

\* the second,
LEMMA SpanDescribes ==
    ASSUME HookInv PROVE SpanDescribesCall
<1> SUFFICES ASSUME phase \in {"body", "post"}, span # NoSpanYet PROVE SpanDescribesCall
  BY DEF SpanDescribesCall
<1>1. /\ callee \in Callees /\ slots \in SlotSets /\ numArgs \in Nat /\ Len(expected) <= numArgs /\ expected \in Seq(Values)
      /\ \A p \in Nat : Covered(callee, p) => ArgAt(callee, slots, numArgs, expected, p)
  BY DEF HookInv, ArgsInv
<1>2. span.attributes = SpanFrom(callee, slots, numArgs)
  BY DEF HookInv
<1>3. ASSUME NEW j \in DOMAIN callee.annotated,
             callee.annotated[j].index + 1 <= Len(expected), expected[callee.annotated[j].index + 1] # "gap",
             {i \in DOMAIN Properties : PropKeyOf(i) = ParamKeyOf(callee, j) /\ Properties[i].value # "undef"} = {},
             \A l \in DOMAIN callee.annotated : ParamKeyOf(callee, l) = ParamKeyOf(callee, j) => l <= j
      PROVE  /\ ParamKeyOf(callee, j) \in DOMAIN span.attributes
             /\ span.attributes[ParamKeyOf(callee, j)] = expected[callee.annotated[j].index + 1]
  <2> DEFINE p == callee.annotated[j].index
  <2>1. p \in Nat /\ p < Len(callee.params)
    BY <1>1, ParamFacts, Zenon
  <2>2. Len(callee.params) \in Nat /\ Len(expected) \in Nat
    BY <1>1, CalleeFacts, LenProperties
  <2>3. p < Len(expected) /\ p < numArgs
    BY <1>1, <1>3, <2>1, <2>2
  <2>4. SlotOf(callee, p) = p
    BY <2>1, Zenon DEF SlotOf
  <2>5. slots[p] = expected[p + 1] /\ expected[p + 1] # "undef"
    <3>1. ArgAt(callee, slots, numArgs, expected, p)
      BY <1>1, <2>1, Zenon DEF Covered
    <3> QED
      BY <1>3, <2>3, <2>4, <3>1, Zenon DEF ArgAt
  <2>6. \A i \in DOMAIN Properties : PropKeyOf(i) = ParamKeyOf(callee, j) => Properties[i].value = "undef"
    BY <1>3, Zenon
  <2>7. LET attrs == callWithSpanHandlerPre(callee, slots, numArgs, readWithSpanMetadata(callee))
        IN  ParamKeyOf(callee, j) \in DOMAIN attrs /\ attrs[ParamKeyOf(callee, j)] = slots[p]
    BY <1>1, <1>3, <2>3, <2>5, <2>6, SpanAttributes, Zenon
  <2> QED
    BY <1>2, <2>5, <2>7, Zenon DEF SpanFrom
<1> QED
  BY <1>3, Zenon DEF SpanDescribesCall, ParamKeyOf, PropKeyOf

\* and the third.
LEMMA ReturnFollows ==
    ASSUME HookInv PROVE ReturnValueFollows
<1> SUFFICES ASSUME phase = "post" PROVE ReturnValueFollows
  BY DEF ReturnValueFollows
<1>1. ReturnInv(ran, retval) /\ ran \in Seq(RanEntries)
  BY DEF HookInv
<1>2. DOMAIN ran = 1 .. Len(ran)
  BY <1>1, LenProperties
<1> DEFINE counting == {i \in DOMAIN ran : ran[i].typed /\ ran[i].value # "undef"}
<1>3. \A i : i \in counting <=> i \in 1 .. Len(ran) /\ Counts(ran[i])
  BY <1>2, Zenon DEF Counts
<1> HIDE DEF counting
<1>4. IF ran[1].value = "nullptr" THEN retval = "nullptr"
      ELSE \E i \in counting : (\A j \in counting : j <= i) /\ retval = ran[i].value
  BY <1>1, <1>3, Zenon DEF ReturnInv
<1> QED
  BY <1>4, Zenon DEF ReturnValueFollows, counting

\* For all functions, arrays that hooks return, post hooks and properties: the
\* function is called with the arguments the hooks want, the span has their
\* values, and the caller gets what the last post hook with a return type returned
\* (argsPostProcessing, callWithSpanHandlerPre, callPostHook).
THEOREM HookValuesFollow == HookSpec => []HookValuesArrive
<1>1. HookInv => HookValuesArrive
  BY ArgsArrive, SpanDescribes, ReturnFollows DEF HookValuesArrive
<1> QED
  BY HookInitInv, HookInvStep, <1>1, PTL DEF HookSpec
=============================================================================
