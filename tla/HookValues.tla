----------------------------- MODULE HookValues -----------------------------
(***************************************************************************)
(* What hooks do to the values of one call: a pre hook may return an array *)
(* that replaces and adds arguments, a post hook may replace the return    *)
(* value, and the WithSpan handler is given the arguments of the attribute *)
(* and the values of annotated parameters and properties.                  *)
(*                                                                         *)
(* The frame of a call is a sequence of slots, numbered from 0.  In a user *)
(* function the parameters are the first of its lastVar variables, the     *)
(* others are local; T temporaries follow, then the arguments for which    *)
(* there is no parameter.  An internal function has only arguments.  The   *)
(* exceptions of hooks are in FunctionHooks.                               *)
(***************************************************************************)
EXTENDS Integers, Sequences

CONSTANTS
    Callees,     \* functions that are called: kind, params, lastVar, T, attribute
    Returned,    \* arrays that pre hooks return: sequences of name, index, value
    PostHooks,   \* post hooks: whether one declares a return type, what it returns
    Properties,  \* annotated properties of $this: name, as, value
    MaxPassed,   \* bound: arguments of the call
    MaxHookCalls,\* bound: pre hooks, and post hooks, of the call
    FrameSize    \* bound: slots of a frame

\* Parameters are the first variables; an annotated parameter is one of them.
ASSUME CalleesAssumption ==
    \A f \in Callees :
        /\ f.params \in Seq(STRING) /\ f.lastVar \in Nat /\ f.T \in Nat
        /\ Len(f.params) <= f.lastVar
        /\ f.annotated \in Seq([index : Nat, as : STRING])
        /\ \A j \in DOMAIN f.annotated : f.annotated[j].index < Len(f.params)
        /\ \A i \in DOMAIN f.attribute :
            i \in Nat \ {0} /\ (f.attribute[i].type = "array" => f.attribute[i].value \in Seq([key : STRING, value : STRING]))

\* PHP code gives values: "undef" and "gap" are none.
ASSUME ReturnedAssumption ==
    Returned \subseteq Seq([name : STRING, index : Nat, value : STRING \ {"undef", "gap"}])

\* What a hook returns is never the missing pointer to a return value.
ASSUME PostHooksAssumption ==
    PostHooks \subseteq [typed : BOOLEAN, value : STRING \ {"nullptr"}]

\* A class has one property of a name.
ASSUME PropertiesAssumption ==
    /\ Properties \in Seq([name : STRING, as : STRING, value : STRING])
    /\ \A i, j \in DOMAIN Properties : Properties[i].name = Properties[j].name => i = j

\* The bound leaves a slot for every argument that is passed or added.
ASSUME FrameAssumption ==
    /\ MaxPassed \in Nat /\ FrameSize \in Nat
    /\ \A f \in Callees :
        /\ f.lastVar + f.T + MaxPassed < FrameSize
        /\ \A ret \in Returned : \A i \in DOMAIN ret : f.lastVar + f.T + ret[i].index < FrameSize

VARIABLES
    phase,       \* "none", "pre", "body", "post"
    callee,      \* the function
    slots,       \* its frame
    numArgs,     \* ZEND_CALL_NUM_ARGS
    span,        \* what the WithSpan handler was given
    retval,      \* the return value
    expected,    \* history: the arguments as the hooks want them
    ran          \* history: post hooks that have run, the body before them

hookVars == <<phase, callee, slots, numArgs, span, retval, expected, ran>>

IsInternal(f) == f.kind = "internal"

-----------------------------------------------------------------------------
(* Arguments *)

\* Where the engine keeps the argument at position i, from 0.
SlotOf(f, i) ==
    IF IsInternal(f) \/ i < Len(f.params) THEN i ELSE f.lastVar + f.T + i - Len(f.params)

\* The array that hooks and handlers are given.
getCallArguments(f, fr, n) ==
    [i \in 1 .. n |-> IF fr[SlotOf(f, i - 1)] = "undef" THEN "null" ELSE fr[SlotOf(f, i - 1)]]

\* Position of the parameter with this name, -1 without one.
getFunctionArgumentIndex(name, f) ==
    IF \E i \in DOMAIN f.params : f.params[i] = name
    THEN (CHOOSE i \in DOMAIN f.params : f.params[i] = name) - 1
    ELSE -1

\* The position that an entry of a returned array is about, -1 without one.
Position(f, e) == IF e.name = "" THEN e.index ELSE getFunctionArgumentIndex(e.name, f)

\* Mutant: temporaries are not skipped.
TargetAmongTemporaries(f, n, i) == i

\* Where argsPostProcessing writes the argument at position i of a call with n
\* arguments: it takes every variable for a parameter.
Target(f, n, i) == IF IsInternal(f) \/ i < f.lastVar THEN i ELSE i + f.T

\* The frame and the number of arguments after a hook has returned ret; names
\* do not count for the highest position.
argsPostProcessing(f, fr, n, ret) ==
    LET indices == {ret[i].index : i \in {j \in DOMAIN ret : ret[j].name = ""}}
        highest == CHOOSE h \in indices \cup {0} : \A i \in indices : i <= h
        added == IF highest + 1 > n THEN highest + 1 - n ELSE 0
        gap == {n + i + (IF IsInternal(f) THEN 0 ELSE f.T) : i \in 0 .. added - 1}
        extended == [s \in DOMAIN fr |-> IF s \in gap THEN "undef" ELSE fr[s]]
        put[k \in 0 .. Len(ret)] ==
            IF k = 0 THEN extended
            ELSE IF Position(f, ret[k]) = -1 THEN put[k - 1]
            ELSE [put[k - 1] EXCEPT ![Target(f, n, Position(f, ret[k]))] = ret[k].value]
    IN  [frame |-> put[Len(ret)], numArgs |-> n + added]

\* zend_is_identical: the hook has returned the arguments as they were.
Identical(args, ret) ==
    /\ Len(ret) = Len(args)
    /\ \A i \in DOMAIN ret : ret[i] = [name |-> "", index |-> i - 1, value |-> args[i]]

\* The call begins with n arguments.
Call(f, n) ==
    /\ phase = "none"
    /\ phase' = "pre"
    /\ callee' = f
    /\ slots' = [s \in 0 .. FrameSize - 1 |->
                    IF \E i \in 0 .. n - 1 : SlotOf(f, i) = s THEN "passed" ELSE "undef"]
    /\ numArgs' = n
    /\ expected' = [i \in 1 .. n |-> "passed"]
    /\ UNCHANGED <<span, retval, ran>>

\* What a hook asks for that returns ret, by position.  The name of a parameter for
\* which the call has no argument does not add one; "gap" is a position nobody
\* gave a value, and stays one when a hook hands back the null it was shown there.
Wanted(f, args, ret) ==
    LET indices == {ret[i].index : i \in {j \in DOMAIN ret : ret[j].name = ""}}
        last(p) == {i \in DOMAIN ret : /\ Position(f, ret[i]) = p
                                       /\ \A j \in DOMAIN ret : Position(f, ret[j]) = p => j <= i}
        length == CHOOSE l \in {Len(args)} \cup {i + 1 : i \in indices} :
                      l >= Len(args) /\ \A i \in indices : l > i
        before == [p \in 1 .. length |-> IF p <= Len(args) THEN args[p] ELSE "gap"]
    IN  [p \in 1 .. length |->
            IF \E i \in last(p - 1) : before[p] # "gap" \/ ret[i].value # "null"
            THEN ret[CHOOSE i \in last(p - 1) : TRUE].value
            ELSE before[p]]

\* callPreHook.  A hook that returns no array changes nothing and is left out.
PreHook(ret) ==
    /\ phase = "pre"
    /\ Len(ran) < MaxHookCalls
    /\ LET args == getCallArguments(callee, slots, numArgs)
           new == argsPostProcessing(callee, slots, numArgs, ret)
       IN  IF Identical(args, ret)
           THEN UNCHANGED <<slots, numArgs>>
           ELSE slots' = new.frame /\ numArgs' = new.numArgs
    /\ expected' = Wanted(callee, expected, ret)
    /\ ran' = Append(ran, [typed |-> FALSE, value |-> "null"])
    /\ UNCHANGED <<phase, callee, span, retval>>

-----------------------------------------------------------------------------
(* WithSpan *)

\* Arguments of an attribute are named or not; 0: there is none.
findAttrArgIndex(attr, position, name) ==
    LET found == {i \in DOMAIN attr : (attr[i].name = "" /\ i = position) \/ attr[i].name = name}
    IN  IF found = {} THEN 0 ELSE CHOOSE i \in found : \A j \in found : i <= j

\* The value of such an argument when it has the right type.
ArgOf(attr, position, name, type) ==
    LET i == findAttrArgIndex(attr, position, name)
    IN  IF i # 0 /\ attr[i].type = type THEN attr[i].value ELSE "none"

\* An empty name stands for that of the parameter or property.
attrKey(as, name) == IF as = "" THEN name ELSE as

readWithSpanMetadata(f) ==
    [spanName |-> ArgOf(f.attribute, 1, "span_name", "string"),
     spanKind |-> ArgOf(f.attribute, 2, "span_kind", "int"),
     paramAttributes |-> [i \in DOMAIN f.annotated |->
                             [argIndex |-> f.annotated[i].index,
                              attrKey |-> attrKey(f.annotated[i].as, f.params[f.annotated[i].index + 1])]],
     propAttributes |-> [i \in DOMAIN Properties |->
                            [propName |-> Properties[i].name, attrKey |-> attrKey(Properties[i].as, Properties[i].name)]]]

\* A later value of a key replaces an earlier one; "undef" is none.
AddAssoc(attrs, key, v) ==
    IF v = "undef" THEN attrs ELSE [k \in DOMAIN attrs \cup {key} |-> IF k = key THEN v ELSE attrs[k]]

PropValue(name) == Properties[CHOOSE i \in DOMAIN Properties : Properties[i].name = name].value

\* What is added to the attributes, in this order: those of the attribute itself,
\* the parameters that the call has arguments for, with their values in the frame
\* after the pre hooks, and the properties.
AddedAttributes(f, fr, n, meta) ==
    LET static == ArgOf(f.attribute, 3, "attributes", "array")
    IN  (IF static = "none" THEN <<>> ELSE static)
        \o [i \in DOMAIN meta.paramAttributes |->
              LET p == meta.paramAttributes[i]
              IN  [key |-> p.attrKey, value |-> IF p.argIndex < n THEN fr[p.argIndex] ELSE "undef"]]
        \o [i \in DOMAIN meta.propAttributes |->
              LET p == meta.propAttributes[i] IN [key |-> p.attrKey, value |-> PropValue(p.propName)]]

callWithSpanHandlerPre(f, fr, n, meta) ==
    LET adds == AddedAttributes(f, fr, n, meta)
        attrs[k \in 0 .. Len(adds)] ==
            IF k = 0 THEN [x \in {} |-> ""] ELSE AddAssoc(attrs[k - 1], adds[k].key, adds[k].value)
    IN  attrs[Len(adds)]

\* observerFcallBeginHandler after the pre hooks; an internal function has no
\* attribute.
WithSpanPre ==
    /\ phase = "pre"
    /\ LET meta == readWithSpanMetadata(callee)
       IN  span' = IF IsInternal(callee) \/ callee.attribute = <<>>
                   THEN span
                   ELSE [name |-> meta.spanName, kind |-> meta.spanKind,
                         attributes |-> callWithSpanHandlerPre(callee, slots, numArgs, meta)]
    /\ phase' = "body"
    /\ UNCHANGED <<callee, slots, numArgs, retval, expected, ran>>

-----------------------------------------------------------------------------
(* Return values *)

\* v: what the function returns, "nullptr" when it throws or the value of a user
\* function is not used.
Body(v) ==
    /\ phase = "body"
    /\ phase' = "post"
    /\ retval' = v
    /\ ran' = <<[typed |-> TRUE, value |-> v]>>
    /\ UNCHANGED <<callee, slots, numArgs, span, expected>>

\* callPostHook; a hook that throws returns "undef".
PostHook(h) ==
    /\ phase = "post"
    /\ Len(ran) <= MaxHookCalls
    /\ retval' = IF h.value # "undef" /\ retval # "nullptr" /\ h.typed THEN h.value ELSE retval
    /\ ran' = Append(ran, h)
    /\ UNCHANGED <<phase, callee, slots, numArgs, span, expected>>

-----------------------------------------------------------------------------
NoSpanYet == [name |-> "none", kind |-> "none", attributes |-> [k \in {} |-> ""]]

HookInit ==
    /\ phase = "none" /\ callee = "none"
    /\ slots = [s \in 0 .. FrameSize - 1 |-> "undef"]
    /\ numArgs = 0 /\ span = NoSpanYet /\ retval = "nullptr"
    /\ expected = <<>> /\ ran = <<>>

HookNext ==
    \/ \E f \in Callees, n \in 0 .. MaxPassed : Call(f, n)
    \/ \E ret \in Returned : PreHook(ret)
    \/ WithSpanPre
    \/ \E v \in {"returned", "nullptr"} : Body(v)
    \/ \E h \in PostHooks : PostHook(h)

HookSpec == HookInit /\ [][HookNext]_hookVars

-----------------------------------------------------------------------------
(* Properties *)

\* However many pre hooks replace and add arguments, the function is called with
\* those the hooks returned last, and with the caller's where none did; what is
\* left out between them is null, or what an earlier hook gave the parameter by
\* its name.  Two flaws are argsPostProcessing's: in a user function with local
\* variables the arguments without a parameter go astray; and a hook that returns
\* only names turns a call without arguments into one with a null.
ArgumentsArrive ==
    phase # "none" =>
        LET args == getCallArguments(callee, slots, numArgs)
            named(r, i) == {k \in DOMAIN r : getFunctionArgumentIndex(r[k].name, callee) = i - 1}
            ByName(i) == UNION {{r[k].value : k \in named(r, i)} : r \in Returned}
            exact == IsInternal(callee) \/ callee.lastVar = Len(callee.params)
        IN  /\ Len(args) >= Len(expected)
            /\ \A i \in DOMAIN args :
                exact \/ i <= Len(callee.params) =>
                    IF i <= Len(expected) /\ expected[i] # "gap" THEN args[i] = expected[i]
                    ELSE args[i] \in {"null"} \cup ByName(i)

\* The span that the attribute asks for has the values the function is called
\* with, not those from before the hooks; a key of two origins has the value of
\* the property, else of the last parameter.
SpanDescribesCall ==
    phase \in {"body", "post"} /\ span # NoSpanYet =>
        LET At(i) == Properties[i]
            Key(i) == attrKey(At(i).as, At(i).name)
            FromProps(k) == {i \in DOMAIN Properties : Key(i) = k /\ At(i).value # "undef"}
            ParamKey(j) == attrKey(callee.annotated[j].as, callee.params[callee.annotated[j].index + 1])
        IN  \A j \in DOMAIN callee.annotated :
                LET i == callee.annotated[j].index + 1
                IN  i <= Len(expected) /\ expected[i] # "gap" /\ FromProps(ParamKey(j)) = {}
                    /\ (\A l \in DOMAIN callee.annotated : ParamKey(l) = ParamKey(j) => l <= j)
                    => ParamKey(j) \in DOMAIN span.attributes /\ span.attributes[ParamKey(j)] = expected[i]

\* The caller gets what the last post hook with a return type returned, if the
\* function returned at all.
ReturnValueFollows ==
    phase = "post" =>
        LET counting == {i \in DOMAIN ran : ran[i].typed /\ ran[i].value # "undef"}
        IN  IF ran[1].value = "nullptr" THEN retval = "nullptr"
            ELSE \E i \in counting : (\A j \in counting : j <= i) /\ retval = ran[i].value

\* Arguments, span and return value of an instrumented call are what its hooks
\* made of them.
HookValuesArrive == ArgumentsArrive /\ SpanDescribesCall /\ ReturnValueFollows
=============================================================================
