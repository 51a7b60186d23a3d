--------------------------- MODULE OtlpConversion ---------------------------
(***************************************************************************)
(* The native OTLP exporter: convert_spans, convert_metrics and            *)
(* convert_logs walk over a batch of PHP objects and build the protobuf    *)
(* request of the signal, one record of the batch per step.  Records are   *)
(* grouped by resource and by instrumentation scope; two maps that live    *)
(* for the batch say where the group of a resource and of a scope is.      *)
(*                                                                         *)
(* A PHP value is tagged with its type.  PHP arrays, which attributes may  *)
(* hold, are Zend hash tables, built here by the operations an application *)
(* has on them; the conversion looks into the table.                       *)
(***************************************************************************)
EXTENDS Text, FiniteSets

CONSTANTS
    Elements,    \* values that an application puts into an array
    Keys,        \* string keys of such an array
    Records,     \* Records[s]: records that a batch of signal s may hold
    MaxWrites,   \* bound: operations on the array
    MaxBatch     \* bound: records of a batch

VARIABLES
    table,       \* the array of the application
    writes,      \* operations on it, and whether one of them was unset()
    signal,      \* the signal whose batch is converted, "" before
    batch,       \* the records converted so far
    request,     \* the request that is built
    resourceMap, \* resourceSpansMap, resourceMetricsMap, resourceLogsMap
    scopeMap,    \* scopeSpansMap, scopeMetricsMap, scopeLogsMap
    thrown       \* the conversion ended with an exception

otlpVars == <<table, writes, signal, batch, request, resourceMap, scopeMap, thrown>>

-----------------------------------------------------------------------------
(* PHP values.  The contents of a scalar are a sequence of bytes. *)

NoTable == [buckets |-> <<>>, next |-> -1]   \* -1 stands for ZEND_LONG_MIN
Scalar(type, v) == [type |-> type, v |-> v, table |-> NoTable]
ArrayOf(t) == [type |-> "array", v |-> <<>>, table |-> t]
Undef == Scalar("undef", <<>>)

\* What a conversion yields; the getters of AutoZval throw on another type.
Ok(m) == [ok |-> TRUE, value |-> m]
Throw == [ok |-> FALSE]
getTyped(types, val) == IF val.type \in types THEN Ok(val.v) ELSE Throw
getOpt(type, val) == IF val.type = type THEN val.v ELSE <<>>

\* callMethod, readProperty and instanceOf throw when there is no object; v is
\* what the method returns.
callMethod(object, v) == IF object.class = "null" THEN Throw ELSE Ok(v)
instanceOf(object, class) == IF object.class = "null" THEN Throw ELSE Ok(object.class = class)
assertObjectType(object, class) == IF instanceOf(object, class) = Ok(TRUE) THEN Ok(object) ELSE Throw

\* moveToValid: the buckets in order, without the gaps that unset() leaves.
ValidBuckets(t) == SelectSeq(t.buckets, LAMBDA b : b.val.type # "undef")

\* The values of a table, and its pairs; an integer key is "" here.
IteratorImpl(t) == [i \in DOMAIN ValidBuckets(t) |-> ValidBuckets(t)[i].val]
KeyValueIterator(t) ==
    [i \in DOMAIN ValidBuckets(t) |-> [key |-> ValidBuckets(t)[i].key, val |-> ValidBuckets(t)[i].val]]

\* nNumOfElements == nNextFreeElement.
isSimpleArray(t) == Len(ValidBuckets(t)) = t.next

AnyValue(type, v, items) == [kind |-> type, v |-> v, items |-> items]

\* Integer keys are skipped in a list of pairs.
RECURSIVE convertAnyValue(_)
convertAnyValue(val) ==
    LET values == IteratorImpl(val.table)
        pairs == SelectSeq(KeyValueIterator(val.table), LAMBDA b : b.key # "")
    IN  CASE val.type = "array" /\ isSimpleArray(val.table) ->
                 AnyValue("array", <<>>, [i \in DOMAIN values |-> [key |-> "", value |-> convertAnyValue(values[i])]])
          [] val.type = "array" /\ ~isSimpleArray(val.table) ->
                 AnyValue("kvlist", <<>>,
                          [i \in DOMAIN pairs |-> [key |-> pairs[i].key, value |-> convertAnyValue(pairs[i].val)]])
          [] val.type \in {"int", "double", "bool"} -> AnyValue(val.type, val.v, <<>>)
          [] val.type = "string" -> AnyValue(IF isUtf8(val.v) THEN "string" ELSE "bytes", val.v, <<>>)
          [] OTHER -> AnyValue("empty", <<>>, <<>>)

convertAttributes(val) ==
    LET pairs == SelectSeq(KeyValueIterator(val.table), LAMBDA b : b.key # "")
    IN  [i \in DOMAIN pairs |-> [key |-> pairs[i].key, value |-> convertAnyValue(pairs[i].val)]]

-----------------------------------------------------------------------------
(* Resources and scopes.  A resource is [schema, attributes, dropped], a scope
   has a name and a version besides.  serialize() writes lengths, so that no
   two of them, and no two pairs of them, have the same text. *)

getResourceId(r) == <<r.schema, r.attributes, r.dropped>>
getScopeId(s) == <<s.name, s.version, s.schema, s.attributes, s.dropped>>

convertResourceSpans(r) ==
    [schema |-> getOpt("string", r.schema), attributes |-> convertAttributes(r.attributes), dropped |-> r.dropped]
convertResourceMetrics(r) ==
    [schema |-> getOpt("string", r.schema), attributes |-> convertAttributes(r.attributes), dropped |-> r.dropped]
\* Here the schema is not set.
convertResourceLogs(r) ==
    [schema |-> <<>>, attributes |-> convertAttributes(r.attributes), dropped |-> r.dropped]

convertScopeSpans(s) ==
    [name |-> s.name, version |-> getOpt("string", s.version), schema |-> getOpt("string", s.schema),
     attributes |-> convertAttributes(s.attributes), dropped |-> s.dropped]
convertScopeMetrics(s) == convertScopeSpans(s)
convertInstrumentationScope(s) == convertScopeSpans(s)

convertResource(r) ==
    CASE signal = "traces" -> convertResourceSpans(r)
      [] signal = "metrics" -> convertResourceMetrics(r)
      [] signal = "logs" -> convertResourceLogs(r)
convertScope(s) ==
    CASE signal = "traces" -> convertScopeSpans(s)
      [] signal = "metrics" -> convertScopeMetrics(s)
      [] signal = "logs" -> convertInstrumentationScope(s)

-----------------------------------------------------------------------------
(* Spans *)

SpanKinds == <<"INTERNAL", "CLIENT", "SERVER", "PRODUCER", "CONSUMER">>
convertSpanKind(k) == IF k \in 0 .. 4 THEN SpanKinds[k + 1] ELSE "UNSPECIFIED"

convertStatusCode(c) ==
    CASE c \in {"Ok", "OK"} -> "OK" [] c \in {"Error", "ERROR"} -> "ERROR" [] OTHER -> "UNSET"

\* Bits 8 and 9 of the flags.
addRemoteFlags(context, flags) == flags + 256 + (IF context.remote THEN 512 ELSE 0)

buildFlagsForSpan(context, parent) == addRemoteFlags(parent, context.flags)
buildFlagsForLink(context) == addRemoteFlags(context, context.flags)

\* Events, links and the rest of the attributes are converted alike.
convertSpan(s) ==
    Ok([name |-> s.name, id |-> s.context.id,
        flags |-> buildFlagsForSpan(s.context, s.parent),
        parent |-> IF s.parent.valid THEN s.parent.id ELSE "",
        kind |-> convertSpanKind(s.kind), status |-> convertStatusCode(s.status),
        attributes |-> convertAttributes(s.attributes),
        links |-> [i \in DOMAIN s.links |->
                       [id |-> s.links[i].id, flags |-> buildFlagsForLink(s.links[i])]]])

-----------------------------------------------------------------------------
(* Metrics *)

\* An identifier is a sequence of hexadecimal digits.
hex2bin(id) ==
    IF Len(id) % 2 = 0 /\ \A i \in DOMAIN id : id[i] \in HexDigits
    THEN Ok([i \in 1 .. Len(id) \div 2 |-> 16 * HexValue(id[2 * i - 1]) + HexValue(id[2 * i])])
    ELSE Throw

\* The first letter stands for the names Delta and Cumulative in any case.
convertTemporality(t) ==
    CASE t.type \in {"int", "string"} /\ t.v \in {<<1>>, <<68>>} -> Ok("DELTA")
      [] t.type \in {"int", "string"} /\ t.v \in {<<2>>, <<67>>} -> Ok("CUMULATIVE")
      [] t.type \in {"int", "string"} /\ t.v \notin {<<1>>, <<68>>, <<2>>, <<67>>} -> Ok("UNSPECIFIED")
      [] OTHER -> Throw

\* An exception in one of the parts leaves none of them.
Collect(results) ==
    IF \A i \in DOMAIN results : results[i].ok THEN Ok([i \in DOMAIN results |-> results[i].value]) ELSE Throw

NumberOf(val) == IF val.type \in {"int", "double"} THEN AnyValue(val.type, val.v, <<>>) ELSE AnyValue("empty", <<>>, <<>>)

convertExemplar(e) ==
    LET id == hex2bin(e.spanId)
    IN  IF id.ok THEN Ok([spanId |-> id.value, value |-> NumberOf(e.value)]) ELSE Throw

Exemplars(p) == Collect([i \in DOMAIN p.exemplars |-> convertExemplar(p.exemplars[i])])

convertNumberDataPoint(p) ==
    LET exemplars == Exemplars(p)
    IN  IF exemplars.ok
        THEN Ok([attributes |-> convertAttributes(p.attributes), value |-> NumberOf(p.value),
                 exemplars |-> exemplars.value])
        ELSE Throw

\* count stands for the counts of the buckets too, and value for the sum, the
\* extremes and the bounds: a number of either type, as a double.
convertHistogramDataPoint(p) ==
    LET exemplars == Exemplars(p)
        numbers == Collect(<<getTyped({"int"}, p.count), getTyped({"int", "double"}, p.value)>>)
    IN  IF exemplars.ok /\ numbers.ok
        THEN Ok([attributes |-> convertAttributes(p.attributes), value |-> AnyValue("double", p.value.v, <<>>),
                 exemplars |-> exemplars.value])
        ELSE Throw

NumberPoints(m) == Collect([i \in DOMAIN m.points |-> convertNumberDataPoint(m.points[i])])
HistogramPoints(m) == Collect([i \in DOMAIN m.points |-> convertHistogramDataPoint(m.points[i])])
convertGauge(m) == [points |-> NumberPoints(m), temporality |-> Ok("")]
convertSum(m) == [points |-> NumberPoints(m), temporality |-> convertTemporality(m.temporality)]
convertHistogram(m) == [points |-> HistogramPoints(m), temporality |-> convertTemporality(m.temporality)]

\* A metric of an unknown class is sent without data.
convertMetricData(m) ==
    CASE m.class = "Gauge" -> convertGauge(m)
      [] m.class = "Sum" -> convertSum(m)
      [] m.class = "Histogram" -> convertHistogram(m)
      [] OTHER -> [points |-> Ok(<<>>), temporality |-> Ok("")]

convertMetric(m) ==
    LET data == convertMetricData(m)
        class == IF m.class \in {"Gauge", "Sum", "Histogram"} THEN m.class ELSE ""
    IN  IF instanceOf(m, "Gauge").ok /\ data.points.ok /\ data.temporality.ok
        THEN Ok([name |-> m.name, class |-> class, points |-> data.points.value, temporality |-> data.temporality.value])
        ELSE Throw

-----------------------------------------------------------------------------
(* Logs *)

convertLogRecord(l) ==
    Ok([name |-> l.name,
        body |-> IF l.body.type \in {"null", "undef"} THEN AnyValue("none", <<>>, <<>>) ELSE convertAnyValue(l.body),
        id |-> IF l.context.valid THEN l.context.id ELSE "",
        severity |-> getOpt("int", l.severity), text |-> getOpt("string", l.text),
        attributes |-> convertAttributes(l.attributes)])

-----------------------------------------------------------------------------
(* The batch *)

\* Mutant of CompositeKey: the scope alone.
ScopeAlone(rec) == <<<<>>, getScopeId(rec.scope)>>

CompositeKey(rec) == <<getResourceId(rec.resource), getScopeId(rec.scope)>>

\* The batch that the exporter hands over.
Export(s) ==
    /\ signal = "" /\ writes.count = 0
    /\ signal' = s
    /\ UNCHANGED <<table, writes, batch, request, resourceMap, scopeMap, thrown>>

\* The group of the record's resource, and in it that of its scope, get their
\* places when they are first met.
AddRecord(rec, out) ==
    LET rid == getResourceId(rec.resource)
        key == CompositeKey(rec)
        g == IF rid \in DOMAIN resourceMap THEN resourceMap[rid] ELSE Len(request) + 1
        groups == IF rid \in DOMAIN resourceMap THEN request
                  ELSE Append(request, [resource |-> convertResource(rec.resource), scopes |-> <<>>])
        at == IF key \in DOMAIN scopeMap THEN scopeMap[key] ELSE <<g, Len(groups[g].scopes) + 1>>
        scoped == IF key \in DOMAIN scopeMap THEN groups
                  ELSE [groups EXCEPT ![g].scopes = Append(@, [scope |-> convertScope(rec.scope), records |-> <<>>])]
    IN  /\ request' = [scoped EXCEPT ![at[1]].scopes[at[2]].records = Append(@, out)]
        /\ resourceMap' = [r \in DOMAIN resourceMap \cup {rid} |-> IF r = rid THEN g ELSE resourceMap[r]]
        /\ scopeMap' = [k \in DOMAIN scopeMap \cup {key} |-> IF k = key THEN at ELSE scopeMap[k]]
        /\ UNCHANGED thrown

\* An exception discards the request.
ConversionThrows ==
    /\ request' = <<>> /\ resourceMap' = <<>> /\ scopeMap' = <<>>
    /\ thrown' = TRUE

\* One round of convert().
Round(s, rec, out) ==
    /\ signal = s /\ ~thrown
    /\ Len(batch) < MaxBatch
    /\ batch' = Append(batch, rec)
    /\ IF out.ok THEN AddRecord(rec, out.value) ELSE ConversionThrows
    /\ UNCHANGED <<table, writes, signal>>

ConvertSpan(rec) ==
    Round("traces", rec, IF assertObjectType(rec, "ImmutableSpan").ok THEN convertSpan(rec) ELSE Throw)
ConvertMetric(rec) == Round("metrics", rec, convertMetric(rec))
ConvertLog(rec) ==
    Round("logs", rec, IF callMethod(rec, rec.resource).ok THEN convertLogRecord(rec) ELSE Throw)

-----------------------------------------------------------------------------
(* An array of the application *)

Write(new, isUnset) ==
    /\ signal = "" /\ writes.count < MaxWrites
    /\ table' = new
    /\ writes' = [count |-> writes.count + 1, unset |-> writes.unset \/ isUnset]
    /\ UNCHANGED <<signal, batch, request, resourceMap, scopeMap, thrown>>

AtKey(k) == {i \in DOMAIN table.buckets : table.buckets[i].key = k /\ table.buckets[i].val.type # "undef"}

\* $array[] = $v
ArrayAppend(v) ==
    LET n == IF table.next = -1 THEN 0 ELSE table.next
    IN  Write([buckets |-> Append(table.buckets, [key |-> "", n |-> n, val |-> v]), next |-> n + 1], FALSE)

\* $array['k'] = $v
ArrayAssign(k, v) ==
    Write([table EXCEPT !.buckets =
              IF AtKey(k) # {} THEN [i \in DOMAIN @ |-> IF i \in AtKey(k) THEN [@[i] EXCEPT !.val = v] ELSE @[i]]
              ELSE Append(@, [key |-> k, n |-> 0, val |-> v])], FALSE)

\* unset of the element in bucket i
ArrayUnset(i) ==
    /\ table.buckets[i].val.type # "undef"
    /\ Write([table EXCEPT !.buckets[i].val = Undef], TRUE)

OtlpInit ==
    /\ table = NoTable
    /\ writes = [count |-> 0, unset |-> FALSE]
    /\ signal = ""
    /\ batch = <<>> /\ request = <<>>
    /\ resourceMap = <<>> /\ scopeMap = <<>>
    /\ thrown = FALSE

OtlpNext ==
    \/ \E v \in Elements : ArrayAppend(v)
    \/ \E k \in Keys, v \in Elements : ArrayAssign(k, v)
    \/ \E i \in DOMAIN table.buckets : ArrayUnset(i)
    \/ \E s \in DOMAIN Records : Export(s)
    \/ \E rec \in Records.traces : ConvertSpan(rec)
    \/ \E rec \in Records.metrics : ConvertMetric(rec)
    \/ \E rec \in Records.logs : ConvertLog(rec)

-----------------------------------------------------------------------------
(* Properties *)

\* The request holds the records of the batch and nothing else, each once: for
\* each resource of the batch one group and in it for each of its scopes one,
\* whose records are those of this resource and scope in the order of the
\* batch.  Records of different resources never meet because their scopes are
\* alike.
RecordsInTheirGroups ==
    ~thrown =>
        LET Resources == {getResourceId(batch[i].resource) : i \in DOMAIN batch}
            Scopes(r) == {getScopeId(batch[i].scope) : i \in {j \in DOMAIN batch : getResourceId(batch[j].resource) = r}}
            Of(r, s) == SelectSeq(batch, LAMBDA x : getResourceId(x.resource) = r /\ getScopeId(x.scope) = s)
        IN  /\ Len(request) = Cardinality(Resources)
            /\ \A r \in Resources : \E g \in DOMAIN request :
                 /\ Len(request[g].scopes) = Cardinality(Scopes(r))
                 /\ \A s \in Scopes(r) : \E k \in DOMAIN request[g].scopes :
                      LET records == request[g].scopes[k].records
                      IN  /\ request[g].resource = convertResource(Of(r, s)[1].resource)
                          /\ request[g].scopes[k].scope = convertScope(Of(r, s)[1].scope)
                          /\ Len(records) = Len(Of(r, s))
                          /\ \A i \in DOMAIN records : records[i].name = Of(r, s)[i].name

Bit(n, flags) == (flags \div 2 ^ n) % 2 = 1
Hex(b) == <<b \div 16, b % 16>>

\* What a receiver reads from a converted record is what the PHP object says: a
\* parent is known by its identifier exactly when the parent's context is
\* valid, and the flags say of the parent, and of each link, whether it is
\* remote; an exemplar points to its span and integers stay integers; a log
\* record belongs to a span only when its context is valid.
Means(rec, m) ==
    CASE signal = "traces" ->
            /\ m.flags % 256 = rec.context.flags
            /\ Bit(8, m.flags) /\ Bit(9, m.flags) = rec.parent.remote
            /\ (m.parent = rec.parent.id) = rec.parent.valid
            /\ \A i \in DOMAIN rec.links : Bit(9, m.links[i].flags) = rec.links[i].remote
      [] signal = "metrics" /\ m.class # "" ->
            \A i \in DOMAIN rec.points :
                /\ m.class # "Histogram" => m.points[i].value.kind = rec.points[i].value.type
                /\ m.points[i].value.v = rec.points[i].value.v
                /\ \A j \in DOMAIN rec.points[i].exemplars :
                     LET id == m.points[i].exemplars[j].spanId
                     IN  [k \in 1 .. 2 * Len(id) |-> Hex(id[(k + 1) \div 2])[((k - 1) % 2) + 1]]
                         = [k \in DOMAIN rec.points[i].exemplars[j].spanId |->
                                HexValue(rec.points[i].exemplars[j].spanId[k])]
      [] signal = "logs" ->
            /\ (m.id = rec.context.id) = rec.context.valid
            /\ (m.body.kind = "none") = (rec.body.type = "null")
      [] OTHER -> TRUE

\* Every record of the request means one of the batch.
RecordsKeepMeaning ==
    \A g \in DOMAIN request : \A k \in DOMAIN request[g].scopes :
        LET records == request[g].scopes[k].records
        IN  \A i \in DOMAIN records :
                \E j \in DOMAIN batch : batch[j].name = records[i].name /\ Means(batch[j], records[i])

\* A value survives its conversion.  A PHP reference does not.
Survives(val, m) == val.type = "reference" \/ (m.v = val.v /\ (val.type # "string" => m.kind = val.type))

\* An array from which nothing was ever unset is sent with every element it
\* has, in order and under its key, when it is a list or its keys are all
\* strings.  An array with unset elements may lose its keys or its elements,
\* because isSimpleArray goes by the next free index; but what was unset is not
\* sent.  An empty array is not sent as a list.
ArraysKeepElements ==
    LET m == convertAnyValue(ArrayOf(table))
        es == ValidBuckets(table)
        IsList == es # <<>> /\ \A i \in DOMAIN es : es[i].key = "" /\ es[i].n = i - 1
        HasStringKeys == \A i \in DOMAIN es : es[i].key # ""
    IN  /\ ~writes.unset /\ (IsList \/ HasStringKeys) =>
             /\ m.kind = IF IsList THEN "array" ELSE "kvlist"
             /\ Len(m.items) = Len(es)
             /\ \A i \in DOMAIN es : m.items[i].key = es[i].key /\ Survives(es[i].val, m.items[i].value)
        /\ Len(m.items) <= Len(es)

\* The converters lose, double or change no record of a batch, put none into the
\* group of another resource or scope, and keep the elements of arrays.
RecordsArrive == RecordsInTheirGroups /\ RecordsKeepMeaning /\ ArraysKeepElements
=============================================================================
