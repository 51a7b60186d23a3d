---------------------------- MODULE MCConversions ----------------------------
EXTENDS OtlpConversion, HookValues, MCConfiguration

MCAlphabet ==
    [utf8  |-> {65, 128, 143, 144, 159, 160, 191, 193, 194, 224, 225, 237, 240, 241, 244, 245},
     pairs |-> {44, 61, 37, 50, 67}]
MCMaxLength == [utf8 |-> 4, pairs |-> 7]

Long(n) == Scalar("int", <<n>>)
Str(n) == Scalar("string", <<n>>)
Null == Scalar("null", <<>>)
Nested == ArrayOf([buckets |-> <<[key |-> "", n |-> 0, val |-> Long(1)]>>, next |-> 1])
MCElements == {Long(7), Scalar("string", <<194>>), Scalar("reference", <<1>>)}

Attributes(v) == ArrayOf([buckets |-> <<[key |-> "a", n |-> 0, val |-> v]>>, next |-> -1])
R(schema, v) == [schema |-> schema, attributes |-> Attributes(v), dropped |-> 0]
S(name, version) == [name |-> name, version |-> version, schema |-> Null, attributes |-> Attributes(Long(1)), dropped |-> 0]
Groups == {R(Null, Long(1)), R(Str(65), Long(1)), R(Null, Nested)} \X {S("s", Null), S("s", Str(65))}

Context(id, flags, valid, remote) == [id |-> id, flags |-> flags, valid |-> valid, remote |-> remote]
Spans ==
    {[class |-> "ImmutableSpan", name |-> n, resource |-> g[1], scope |-> g[2], context |-> Context("c", 1, TRUE, FALSE),
      parent |-> p, kind |-> 5, status |-> "Ok", attributes |-> Attributes(Long(2)),
      links |-> <<Context("l", 0, TRUE, TRUE)>>] :
        n \in {"1", "2"}, g \in Groups, p \in {Context("p", 0, TRUE, TRUE)}}
    \cup {[class |-> c, name |-> "3", resource |-> R(Null, Long(1)), scope |-> S("s", Null),
           context |-> Context("c", 1, TRUE, TRUE), parent |-> Context("p", 0, FALSE, FALSE), kind |-> k, status |-> "ERROR",
           attributes |-> Attributes(Long(2)), links |-> <<>>] : c \in {"ImmutableSpan", "other"}, k \in {0, 1}}

Point(v, ids) == [attributes |-> Attributes(Long(1)), value |-> v, count |-> Long(1),
                  exemplars |-> [i \in DOMAIN ids |-> [spanId |-> ids[i], value |-> v]]]
Metrics ==
    {[name |-> x[1], resource |-> g[1], scope |-> g[2], class |-> x[2], points |-> <<x[3]>>, temporality |-> x[4]] :
        g \in Groups,
        x \in {<<"1", "Sum", Point(Long(1), <<<<48, 102>>>>), Long(1)>>, <<"2", "Histogram", Point(Long(2), <<>>), Str(67)>>}}
    \cup {[name |-> "3", resource |-> R(Null, Long(1)), scope |-> S("s", Null), class |-> x[1], points |-> <<x[2]>>,
           temporality |-> x[3]] :
            x \in {<<"Gauge", Point(Scalar("double", <<1>>), <<<<65, 48, 49, 50>>>>), Null>>,
                   <<"Sum", Point(Long(1), <<<<48>>>>), Long(2)>>, <<"Sum", Point(Long(1), <<>>), Null>>,
                   <<"Histogram", Point(Null, <<>>), Long(2)>>, <<"Summary", Point(Long(1), <<>>), Long(0)>>,
                   <<"null", Point(Long(1), <<>>), Long(0)>>}}

Logs ==
    {[class |-> x[4], name |-> x[1], resource |-> g[1], scope |-> g[2],
      context |-> Context("c", 1, x[2], FALSE), body |-> x[3],
      severity |-> Null, text |-> Str(65), attributes |-> Attributes(Long(1))] :
        g \in Groups, x \in {<<"1", TRUE, Nested, "LogRecord">>, <<"2", FALSE, Null, "LogRecord">>, <<"3", FALSE, Null, "null">>}}

MCRecords == [traces |-> Spans, metrics |-> Metrics, logs |-> Logs]

Callee(k, params, locals, temporaries, attribute) ==
    [kind |-> k, params |-> params, lastVar |-> Len(params) + locals, T |-> temporaries, attribute |-> attribute,
     annotated |-> IF attribute = <<>> THEN <<>> ELSE <<[index |-> 1, as |-> ""], [index |-> 0, as |-> "key"]>>]
Positional(type, v) == [name |-> "", type |-> type, value |-> v]
WithSpan == <<Positional("string", "a"), [name |-> "attributes", type |-> "array", value |-> <<[key |-> "key", value |-> "static"]>>]>>
MCCallees ==
    {Callee("internal", <<"p", "q">>, 0, 0, <<>>)}
    \cup {Callee("user", <<"p", "q">>, l, t, WithSpan) : l \in {0, 1}, t \in {0, 2}}

At(i, v) == [name |-> "", index |-> i, value |-> v]
Named(n, v) == [name |-> n, index |-> 0, value |-> v]
MCReturned == {<<>>, <<At(0, "x")>>, <<At(0, "passed")>>, <<At(2, "x")>>, <<At(3, "x"), At(1, "y")>>, <<Named("q", "z")>>, <<At(2, "x"), Named("q", "z")>>,
               <<Named("none", "x"), At(0, "z")>>, <<At(1, "y")>>, <<At(0, "null"), At(1, "y")>>}
MCPostHooks == {[typed |-> t, value |-> v] : t \in BOOLEAN, v \in {"hook", "undef"}}
MCProperties == <<[name |-> "q", as |-> "prop", value |-> "set"], [name |-> "r", as |-> "key", value |-> "undef"]>>

vars == <<textVars, otlpVars, hookVars, configVars>>

\* The strings, the batches, the hooks and the options have nothing to do with each
\* other: one of them is looked at in a behaviour.
Init ==
    /\ OtlpInit /\ HookInit /\ ConfigInit /\ text = <<>>
    /\ kind \in DOMAIN Alphabet \cup {"otlp", "hooks", "options"}
    /\ kind = "options" \/ sources = CHOOSE src \in Sources : TRUE
Next ==
    \/ kind \in DOMAIN Alphabet /\ TextNext /\ UNCHANGED <<otlpVars, hookVars, configVars>>
    \/ kind = "otlp" /\ OtlpNext /\ UNCHANGED <<textVars, hookVars, configVars>>
    \/ kind = "hooks" /\ HookNext /\ UNCHANGED <<textVars, otlpVars, configVars>>
    \/ kind = "options" /\ ConfigNext /\ UNCHANGED <<textVars, otlpVars, hookVars>>
Spec == Init /\ [][Next]_vars
=============================================================================
