---------------------------- MODULE Configuration ----------------------------
(***************************************************************************)
(* The options of a PHP process: the texts that the INI file, the          *)
(* environment and a vendor's provider give, the snapshot that             *)
(* ConfigurationManager::update makes of them, the process's own copy of   *)
(* it (ConfigurationStorage), and two things that live on that copy: the   *)
(* logger with its sinks, and the TLS options of the connections for the   *)
(* telemetry signals.                                                      *)
(*                                                                         *)
(* The process runs under a supported SAPI and has a bootstrap file.       *)
(*                                                                         *)
(* A text is a word or a number followed by a word.  Blanks, which the     *)
(* conversions remove, are left out; upper case is not.                    *)
(***************************************************************************)
EXTENDS Integers, Sequences

CONSTANTS
    Sources,         \* the settings a process may start with
    Remotes,         \* configurations that may arrive through shared memory
    DynamicOf,       \* DynamicOf[r]: what the vendor's provider makes of r
    VendorPriority,  \* priority of the vendor's provider; the default's is 0
    UrlOf,           \* UrlOf[w]: host and path of the endpoint w
    ItemsOf,         \* ItemsOf[w]: the items the log features w consist of
    Unopenable,      \* log files that cannot be opened
    SizeLimit,       \* 2^w for std::size_t
    DurationLimit,   \* 2^63 for the count of std::chrono::milliseconds
    Unrepresentable, \* what the build converts a longer duration to
    Nothing,         \* no configuration has arrived
    MaxUpdates       \* bound: updates of a process

ASSUME VendorPriorityAssumption == VendorPriority \in Int \ {0}

VARIABLES
    sources,   \* texts of the INI file and the environment, per provider
    arrived,   \* the configuration in shared memory
    local,     \* the one this process has taken from there
    dynamic,   \* the vendor's dynamic texts
    upcoming,  \* upcomingConfigRevision_
    current,   \* ConfigurationManager::current_
    config,    \* ConfigurationStorage::config_
    logger,    \* levels of the sinks, features_ and openedFilePath_
    connected, \* connections_ of the coordinator: host -> TLS options
    pc         \* "starting", "running", "idle" (disabled), "terminated"

configVars == <<sources, arrived, local, dynamic, upcoming, current, config, logger, connected, pc>>

-----------------------------------------------------------------------------
(* Texts and their conversions *)

\* No text, no file, no unit.
Empty == ""

Word(w) == [form |-> "word", num |-> 0, half |-> FALSE, rest |-> w]
Number(n, unit) == [form |-> "number", num |-> n, half |-> FALSE, rest |-> unit]
\* n and a half.
Fraction(n, unit) == [form |-> "number", num |-> n, half |-> TRUE, rest |-> unit]
\* A number that no conversion of the standard library can represent.
Huge == [form |-> "huge", num |-> 0, half |-> FALSE, rest |-> Empty]

Upper == [KB |-> "kb", MS |-> "ms", ON |-> "on", DEBUG |-> "debug"]
Lower(w) == IF w \in DOMAIN Upper THEN Upper[w] ELSE w

Result(v) == [kind |-> "value", value |-> v]
InvalidArgument == [kind |-> "invalid_argument"]
OutOfRange == [kind |-> "out_of_range"]

ByteUnits == [b |-> 1, kb |-> 1024, mb |-> 1024 * 1024, gb |-> 1024 * 1024 * 1024]

\* Numbers stoul does not convert.
TooManyBytes(t) ==
    t.form = "huge" \/ (t.form = "number" /\ (t.num >= SizeLimit \/ t.num <= -SizeLimit))

\* stoul, then the unit: the rest of the text from its first character that is
\* no digit, so that a sign or a fraction is taken for a unit and refused.  The
\* product with the unit wraps.
parseByteUnits(t) ==
    IF TooManyBytes(t) THEN OutOfRange
    ELSE IF t.form = "word" \/ t.num < 0 \/ t.half THEN InvalidArgument
    ELSE IF t.rest = Empty THEN Result(t.num)
    ELSE IF Lower(t.rest) \in DOMAIN ByteUnits
         THEN Result((t.num * ByteUnits[Lower(t.rest)]) % SizeLimit)
         ELSE InvalidArgument

TimeUnits == [ms |-> 1, s |-> 1000, m |-> 60000]

\* stod and the unit, which is case sensitive here; duration_cast truncates, and
\* does not look whether the integer can hold the value.  A double's rounding of
\* counts past 2^53 is left out.
convertDurationWithUnit(t) ==
    LET halves == 2 * t.num + (IF t.half THEN 1 ELSE 0)
        Count(ms) == Result(IF ms < DurationLimit THEN ms ELSE Unrepresentable)
    IN  IF t.form = "huge" THEN OutOfRange
        ELSE IF t.form = "word" \/ t.num < 0 THEN InvalidArgument
        ELSE IF t.rest = Empty THEN Count(halves \div 2)
        ELSE IF t.rest \in DOMAIN TimeUnits THEN Count((halves * TimeUnits[t.rest]) \div 2)
        ELSE InvalidArgument

\* from_chars reads the number a text starts with, and fails on a huge one, which
\* here is one that does not fit an int.
parseBoolean(t) ==
    Result(\/ t.form = "word" /\ Lower(t.rest) \in {"true", "yes", "on"}
           \/ t.form = "number" /\ t.num # 0)

LevelNames == <<"off", "critical", "error", "warning", "info", "debug", "trace">>
LogLevels == 0 .. Len(LevelNames) - 1

parseLogLevel(t) ==
    IF t.form = "word" /\ \E i \in LogLevels : LevelNames[i + 1] = Lower(t.rest)
    THEN Result(CHOOSE i \in LogLevels : LevelNames[i + 1] = Lower(t.rest))
    ELSE InvalidArgument

-----------------------------------------------------------------------------
(* The options.  Of each type those stand for the rest that something below
   uses; of the TLS options of a signal, the client key stands for the four
   paths, which are treated alike. *)

Tls == [general |-> [endpoint |-> "OTEL_EXPORTER_OTLP_ENDPOINT",
                     insecure |-> "OTEL_EXPORTER_OTLP_INSECURE",
                     key |-> "OTEL_EXPORTER_OTLP_CLIENT_KEY"],
        traces  |-> [endpoint |-> "OTEL_EXPORTER_OTLP_TRACES_ENDPOINT",
                     insecure |-> "OTEL_EXPORTER_OTLP_TRACES_INSECURE",
                     key |-> "OTEL_EXPORTER_OTLP_TRACES_CLIENT_KEY"],
        metrics |-> [endpoint |-> "OTEL_EXPORTER_OTLP_METRICS_ENDPOINT",
                     insecure |-> "OTEL_EXPORTER_OTLP_METRICS_INSECURE",
                     key |-> "OTEL_EXPORTER_OTLP_METRICS_CLIENT_KEY"],
        logs    |-> [endpoint |-> "OTEL_EXPORTER_OTLP_LOGS_ENDPOINT",
                     insecure |-> "OTEL_EXPORTER_OTLP_LOGS_INSECURE",
                     key |-> "OTEL_EXPORTER_OTLP_LOGS_CLIENT_KEY"]]
Signals == {"traces", "metrics", "logs"}
TlsNames(field) == {Tls[s][field] : s \in Signals \cup {"general"}}

OptionNames == [boolean  |-> {"enabled"} \cup TlsNames("insecure"),
          loglevel |-> {"log_level_stderr", "log_level_syslog", "log_level_file"},
          bytes    |-> {"max_send_queue_size"},
          duration |-> {"opamp_heartbeat_interval"},
          string   |-> {"log_file", "log_features"} \cup TlsNames("endpoint") \cup TlsNames("key")]
Options == UNION {OptionNames[t] : t \in DOMAIN OptionNames}
options_ == [o \in Options |-> CHOOSE t \in DOMAIN OptionNames : o \in OptionNames[t]]

DefaultQueueSize == 2 * 1024 * 1204
DefaultInterval == 30000

\* The types hold the defaults.  Converting a double that does not fit is
\* undefined: x86-64 yields the smallest integer, ARM the largest.
ASSUME SizeLimitAssumption == SizeLimit \in Nat /\ DefaultQueueSize < SizeLimit
ASSUME DurationAssumption ==
    /\ DurationLimit \in Nat /\ DefaultInterval < DurationLimit
    /\ Unrepresentable \in (-DurationLimit) .. (DurationLimit - 1)

Defaults ==
    [o \in Options |->
        CASE o = "enabled" -> TRUE
          [] o = "log_level_syslog" -> 4
          [] o \in OptionNames.loglevel \ {"log_level_syslog"} -> 0
          [] o = "max_send_queue_size" -> DefaultQueueSize
          [] o = "opamp_heartbeat_interval" -> DefaultInterval
          [] o \in TlsNames("insecure") -> FALSE
          [] OTHER -> Word(Empty)]

Parsed(o, t) ==
    CASE options_[o] = "boolean" -> parseBoolean(t)
      [] options_[o] = "duration" -> convertDurationWithUnit(t)
      [] options_[o] = "loglevel" -> parseLogLevel(t)
      [] options_[o] = "bytes" -> parseByteUnits(t)
      [] options_[o] = "string" -> Result(t)

\* accessOptionStringValueByMetadata: the text phpinfo() shows.
accessOptionStringValue(o, v) ==
    CASE options_[o] = "boolean" -> Word(IF v THEN "true" ELSE "false")
      [] options_[o] \in {"duration", "bytes"} -> Number(v, Empty)
      [] options_[o] = "loglevel" -> Word(LevelNames[v + 1])
      [] options_[o] = "string" -> v

\* The value of an option in a snapshot; there is none under another name.
getOptionValue(name, snapshot) ==
    IF name \in Options THEN [type |-> options_[name], value |-> snapshot.values[name]]
    ELSE [type |-> "nullopt", value |-> 0]

PhpTypes == [boolean |-> "bool", string |-> "string", duration |-> "double", loglevel |-> "int", bytes |-> "int",
             nullopt |-> "null"]

\* What get_config_option_by_name returns to PHP, whose integers are signed.
getConfigOptionbyName(name) ==
    LET found == getOptionValue(name, config)
        wraps == found.type = "bytes" /\ found.value >= SizeLimit \div 2
    IN  [type |-> PhpTypes[found.type], value |-> IF wraps THEN found.value - SizeLimit ELSE found.value]

\* Settings of a place: texts of options.
IsText(t) ==
    \/ t = Word(t.rest) \/ t = Huge
    \/ t.num \in Int /\ t \in {Number(t.num, t.rest), Fraction(t.num, t.rest)}
IsSettings(settings) ==
    /\ DOMAIN settings \subseteq Options
    /\ \A o \in DOMAIN settings :
        /\ IsText(settings[o])
        /\ o = "log_features" => settings[o].rest \in DOMAIN ItemsOf

ASSUME SourcesAssumption ==
    \A src \in Sources : \A p \in {"default", "vendor"}, place \in {"ini", "env"} : IsSettings(src[p][place])
ASSUME ItemsAssumption ==
    /\ Empty \in DOMAIN ItemsOf
    /\ \A w \in DOMAIN ItemsOf : ItemsOf[w] \in Seq([feature : STRING, level : STRING])
ASSUME DynamicAssumption == \A r \in Remotes : IsSettings(DynamicOf[r])

-----------------------------------------------------------------------------
(* Where a text comes from *)

NoSettings == [o \in {} |-> Word(Empty)]
Providers == IF VendorPriority > 0 THEN <<"vendor", "default">> ELSE <<"default", "vendor">>

\* The default provider has no dynamic values.
Settings(src, dyn, place, p) ==
    IF place = "dynamic" THEN (IF p = "vendor" THEN dyn ELSE NoSettings) ELSE src[p][place]

\* PrioritizedOptionValueProviderChain: the first provider that has a value.
HasValue(src, dyn, place, o) == \E p \in {"default", "vendor"} : o \in DOMAIN Settings(src, dyn, place, p)
ChainValue(src, dyn, place, o) ==
    LET p == IF o \in DOMAIN Settings(src, dyn, place, Providers[1]) THEN Providers[1] ELSE Providers[2]
    IN  Settings(src, dyn, place, p)[o]

\* Mutant of fetchStringValue: the environment is asked before the INI file.
FetchEnvironmentFirst(src, dyn, o) ==
    CASE HasValue(src, dyn, "dynamic", o) -> Result(ChainValue(src, dyn, "dynamic", o))
      [] ~HasValue(src, dyn, "dynamic", o) /\ HasValue(src, dyn, "env", o) -> Result(ChainValue(src, dyn, "env", o))
      [] ~HasValue(src, dyn, "dynamic", o) /\ ~HasValue(src, dyn, "env", o) /\ HasValue(src, dyn, "ini", o) ->
             Result(ChainValue(src, dyn, "ini", o))
      [] OTHER -> InvalidArgument

fetchStringValue(src, dyn, o) ==
    CASE HasValue(src, dyn, "dynamic", o) -> Result(ChainValue(src, dyn, "dynamic", o))
      [] ~HasValue(src, dyn, "dynamic", o) /\ HasValue(src, dyn, "ini", o) -> Result(ChainValue(src, dyn, "ini", o))
      [] ~HasValue(src, dyn, "dynamic", o) /\ ~HasValue(src, dyn, "ini", o) /\ HasValue(src, dyn, "env", o) ->
             Result(ChainValue(src, dyn, "env", o))
      [] OTHER -> InvalidArgument

\* What update makes of one option: a missing text and one that does not
\* convert leave the default of the new snapshot.
Converted(src, dyn, o) ==
    LET text == fetchStringValue(src, dyn, o)
    IN  IF text.kind = "value" THEN Parsed(o, text.value) ELSE text

Throws(src, dyn) == \E o \in Options : Converted(src, dyn, o).kind = "out_of_range"

NewSnapshot(src, dyn, revision, files) ==
    [revision |-> revision, files |-> files,
     values |-> [o \in Options |->
                    LET r == Converted(src, dyn, o)
                    IN  IF r.kind = "value" THEN r.value ELSE Defaults[o]]]

DynamicFor(files) == IF files = Nothing THEN NoSettings ELSE DynamicOf[files]

-----------------------------------------------------------------------------
(* The logger *)

LogFeatures == {"ALL", "CONFIG", "HOOKS"}

\* parseLogFeatures: items that do not convert are skipped; emplace keeps the
\* first item of a feature.
ValidItem(item) == item.feature \in LogFeatures /\ parseLogLevel(Word(item.level)).kind = "value"
parseLogFeatures(items) ==
    LET Of(f) == {i \in DOMAIN items : ValidItem(items[i]) /\ items[i].feature = f}
    IN  [f \in {g \in LogFeatures : Of(g) # {}} |->
            parseLogLevel(Word(items[CHOOSE i \in Of(f) : \A j \in Of(f) : i <= j].level)).value]

\* LoggerSinkFile::reopen; "" stands for no open file.
reopen(opened, file) ==
    CASE opened = file -> opened
      [] opened # file /\ file \in Unopenable -> Empty
      [] OTHER -> file

\* Mutant of loggerConfigUpdateFunc: without a file the sink keeps its level.
LoggerKeepsFileLevel(l, v) ==
    [stderr   |-> v["log_level_stderr"],
     syslog   |-> v["log_level_syslog"],
     file     |-> IF v["log_file"].rest = Empty THEN l.file ELSE v["log_level_file"],
     opened   |-> IF v["log_file"].rest = Empty THEN l.opened ELSE reopen(l.opened, v["log_file"].rest),
     features |-> parseLogFeatures(ItemsOf[v["log_features"].rest])]

\* The watcher that PHP_GINIT makes; an unused file is not closed.
loggerConfigUpdateFunc(l, v) ==
    [stderr   |-> v["log_level_stderr"],
     syslog   |-> v["log_level_syslog"],
     file     |-> IF v["log_file"].rest = Empty THEN 0 ELSE v["log_level_file"],
     opened   |-> IF v["log_file"].rest = Empty THEN l.opened ELSE reopen(l.opened, v["log_file"].rest),
     features |-> parseLogFeatures(ItemsOf[v["log_features"].rest])]

Sinks == {"stderr", "syslog", "file"}

doesFeatureMeetsLevelCondition(l, level, feature) ==
    CASE DOMAIN l.features = {} -> \E s \in Sinks : level <= l[s]
      [] feature \in DOMAIN l.features -> level <= l.features[feature]
      [] DOMAIN l.features # {} /\ feature \notin DOMAIN l.features ->
             "ALL" \in DOMAIN l.features /\ level <= l.features["ALL"]

\* ELOG and Logger::log: the sinks that write a message.
WrittenTo(l, level, feature) ==
    IF doesFeatureMeetsLevelCondition(l, level, feature)
    THEN {s \in Sinks : level <= l[s] /\ (s = "file" => l.opened # Empty)}
    ELSE {}

-----------------------------------------------------------------------------
(* The process *)

\* updateIfChanged and the watchers of ConfigurationStorage::update.
Refresh(snapshot, cfg, log) ==
    IF cfg.revision = snapshot.revision
    THEN config' = cfg /\ logger' = log
    ELSE config' = snapshot /\ logger' = loggerConfigUpdateFunc(log, snapshot.values)

\* ConfigurationManager::update lets std::out_of_range pass, and so do all its
\* callers: the process ends.
UpdateThrows(files) ==
    /\ dynamic' = DynamicFor(files)
    /\ upcoming' = upcoming + 1
    /\ pc' = "terminated"
    /\ UNCHANGED <<current, config, logger>>

\* moduleInit: update without files, then, in a process that is enabled, the
\* files that are already in shared memory; these reach the process's own copy
\* only with its first request.
ModuleInit ==
    /\ pc = "starting"
    /\ IF Throws(sources, NoSettings)
       THEN UpdateThrows(Nothing) /\ UNCHANGED local
       ELSE LET first == NewSnapshot(sources, NoSettings, upcoming + 1, Nothing)
                enabled == first.values["enabled"]
                late == enabled /\ arrived # local
            IN  /\ Refresh(first, config, logger)
                /\ dynamic' = IF late THEN DynamicFor(arrived) ELSE NoSettings
                /\ upcoming' = upcoming + (IF late THEN 2 ELSE 1)
                /\ local' = IF late THEN arrived ELSE local
                /\ IF late /\ Throws(sources, DynamicFor(arrived))
                   THEN current' = first /\ pc' = "terminated"
                   ELSE /\ current' = IF late THEN NewSnapshot(sources, DynamicFor(arrived), upcoming + 2, arrived)
                                              ELSE first
                        /\ pc' = IF enabled THEN "running" ELSE "idle"
    /\ UNCHANGED <<sources, arrived, connected>>

RemoteArrives(r) ==
    /\ arrived # r
    /\ arrived' = r
    /\ UNCHANGED <<sources, local, dynamic, upcoming, current, config, logger, connected, pc>>

\* onRequestInit: triggerUpdateIfChanged has a watcher only in a process that
\* was enabled when it started; then ConfigurationStorage::update.
onRequestInit ==
    /\ pc \in {"running", "idle"}
    /\ upcoming < MaxUpdates
    /\ local' = arrived
    /\ CASE pc = "idle" \/ arrived = local ->
                Refresh(current, config, logger) /\ UNCHANGED <<dynamic, upcoming, current, pc>>
         [] pc = "running" /\ arrived # local /\ Throws(sources, DynamicFor(arrived)) -> UpdateThrows(arrived)
         [] pc = "running" /\ arrived # local /\ ~Throws(sources, DynamicFor(arrived)) ->
                LET new == NewSnapshot(sources, DynamicFor(arrived), upcoming + 1, arrived)
                IN  /\ dynamic' = DynamicFor(arrived)
                    /\ upcoming' = upcoming + 1
                    /\ current' = new
                    /\ Refresh(new, config, logger)
                    /\ UNCHANGED pc
    /\ UNCHANGED <<sources, arrived, connected>>

\* The URL a signal is exported to, from HttpEndpointResolver.php: its own
\* endpoint as it is, or the general one with the signal's path.
SignalUrl(v, s) ==
    IF v[Tls[s].endpoint].rest # Empty THEN UrlOf[v[Tls[s].endpoint].rest]
    ELSE [host |-> UrlOf[v[Tls.general.endpoint].rest].host, path |-> s]

\* Mutant of getSSLOptionsForSignalsEndpoint: the path alone decides.
SslOptionsByPath(v, url) ==
    LET family == IF url.path \in Signals THEN url.path ELSE "general"
    IN  [insecure |-> v[Tls[family].insecure], key |-> v[Tls[family].key].rest]

getSSLOptionsForSignalsEndpoint(v, url) ==
    LET family == IF url.path \in Signals /\ v[Tls[url.path].endpoint].rest # Empty THEN url.path ELSE "general"
    IN  [insecure |-> v[Tls[family].insecure], key |-> v[Tls[family].key].rest]

\* HttpEndpoint: what a connection is known by, whatever the path.
connectionId(url) == url.host

\* HttpEndpoints::add in the coordinator: the first endpoint of a host makes
\* the connection, with its TLS options; others of the host share it.
add(connections, url, options) ==
    [h \in DOMAIN connections \cup {connectionId(url)} |->
        IF h \in DOMAIN connections THEN connections[h] ELSE options]

\* initialize().  The options it found are kept for the properties.
Connect(s) ==
    LET url == SignalUrl(config.values, s)
    IN  /\ pc = "running" /\ config.values["enabled"]
        /\ connected' = add(connected, url, [ssl |-> getSSLOptionsForSignalsEndpoint(config.values, url),
                                             found |-> config.values])
        /\ UNCHANGED <<sources, arrived, local, dynamic, upcoming, current, config, logger, pc>>

ConfigInit ==
    /\ sources \in Sources
    /\ arrived = Nothing /\ local = Nothing
    /\ dynamic = NoSettings
    /\ upcoming = 1
    /\ current = [revision |-> 1, files |-> Nothing, values |-> Defaults]
    /\ config = [revision |-> 0, files |-> Nothing, values |-> Defaults]
    /\ logger = [stderr |-> 0, syslog |-> 3, file |-> 0, opened |-> Empty, features |-> [f \in {} |-> 0]]
    /\ connected = [h \in {} |-> Nothing]
    /\ pc = "starting"

ConfigNext ==
    \/ ModuleInit
    \/ \E r \in Remotes : RemoteArrives(r)
    \/ onRequestInit
    \/ \E s \in Signals : Connect(s)

ConfigSpec == ConfigInit /\ [][ConfigNext]_configVars

-----------------------------------------------------------------------------
(* Properties *)

Started == pc \in {"running", "idle"}

Places == <<"dynamic", "ini", "env">>

\* The text of an option by rank: place first, then provider.
Ranked(o, files) ==
    {x \in (1 .. 3) \X (1 .. 2) :
        o \in DOMAIN Settings(sources, DynamicFor(files), Places[x[1]], Providers[x[2]])}
TopText(o, files) ==
    LET top == CHOOSE x \in Ranked(o, files) : \A y \in Ranked(o, files) : 2 * x[1] + x[2] <= 2 * y[1] + y[2]
    IN  Settings(sources, DynamicFor(files), Places[top[1]], Providers[top[2]])[o]

\* The texts that are understood: those of the reference documentation
\* (docs/reference/configuration.md), and kilobytes.
Unit(units, w) == CHOOSE i \in DOMAIN units : units[i] = w
Bytes(unit) ==
    <<1, 1024, 1048576, 1073741824>>[Unit(<<"b", "kb", "mb", "gb">>, IF unit = Empty THEN "b" ELSE Lower(unit))]
Understood(o, t) ==
    CASE options_[o] = "boolean" -> t.form = "word" /\ Lower(t.rest) \in {"true", "false"}
      [] options_[o] = "loglevel" -> t.form = "word" /\ \E i \in DOMAIN LevelNames : LevelNames[i] = Lower(t.rest)
      [] options_[o] = "duration" -> t.form = "number" /\ t.num >= 0 /\ t.rest \in {Empty, "ms", "s", "m"}
      [] options_[o] = "bytes" ->
             /\ t.form = "number" /\ t.num >= 0 /\ ~t.half /\ Lower(t.rest) \in {Empty, "b", "kb", "mb", "gb"}
             /\ t.num < SizeLimit
      [] OTHER -> TRUE

\* The milliseconds and the bytes of a text, whatever an integer can hold.
MillisecondsIn(t) ==
    LET ms == Unit(<<"ms", "s", "m">>, IF t.rest = Empty THEN "ms" ELSE t.rest)
    IN  (t.num * <<1, 1000, 60000>>[ms]) + (IF t.half THEN <<0, 500, 30000>>[ms] ELSE 0)
BytesIn(t) == t.num * Bytes(t.rest)

\* What they mean.  Nothing refuses a count that does not fit: of bytes the upper
\* part is lost, and a duration becomes the one value that all the long ones share.
Meaning(o, t) ==
    CASE options_[o] = "boolean" -> Lower(t.rest) = "true"
      [] options_[o] = "loglevel" -> Unit(LevelNames, Lower(t.rest)) - 1
      [] options_[o] = "duration" -> IF MillisecondsIn(t) < DurationLimit THEN MillisecondsIn(t) ELSE Unrepresentable
      [] options_[o] = "bytes" -> BytesIn(t) % SizeLimit
      [] OTHER -> t

\* A process's snapshot is never a mix of two updates, and has nothing from
\* before them: each option has the meaning of its text of highest rank among
\* the INI file, the environment and the remote files of the same snapshot, and
\* the default compiled in (not always the documented one, see
\* DefaultsAsDocumented) when there is none or, unless it is a boolean, an
\* unusable one.  That is what PHP reads, but for byte counts past the largest
\* signed integer.  The text phpinfo() shows of an option means, when it is
\* configured, the value the option has, unless that is a duration which became
\* negative.  Only a number that stod or stoul cannot convert ends a process.
SnapshotMeansSources ==
    /\ Started =>
        \A o \in Options :
            LET files == config.files
                Reads(v) == IF options_[o] = "bytes" /\ v >= SizeLimit \div 2 THEN config.values[o] = v
                            ELSE getConfigOptionbyName(o).value = v
            IN  CASE Ranked(o, files) = {} -> Reads(Defaults[o])
                  [] Ranked(o, files) # {} /\ Understood(o, TopText(o, files)) ->
                         Reads(Meaning(o, TopText(o, files)))
                  [] Ranked(o, files) # {} /\ ~Understood(o, TopText(o, files)) ->
                         options_[o] \in {"boolean", "bytes"} \/ Reads(Defaults[o])
    /\ pc # "starting" => \A o \in Options :
        \/ options_[o] = "duration" /\ config.values[o] < 0
        \/ Parsed(o, accessOptionStringValue(o, config.values[o])) = Result(config.values[o])
    /\ pc = "terminated" =>
        \E o \in Options, f \in Remotes \cup {Nothing} :
            /\ Ranked(o, f) # {}
            /\ \/ TopText(o, f) = Huge
               \/ options_[o] = "bytes" /\ TooManyBytes(TopText(o, f))

\* What docs/reference/configuration.md:69 and :78 promise of a process that
\* nobody configures: it sends nothing to syslog and queues up to 2MB.
DefaultsAsDocumented ==
    Started =>
        /\ Ranked("log_level_syslog", config.files) = {} => config.values["log_level_syslog"] = 0
        /\ Ranked("max_send_queue_size", config.files) = {} =>
                config.values["max_send_queue_size"] = 2 * Bytes("mb")

\* Once a process has started, every message goes to exactly the sinks its
\* current snapshot asks for, whatever the snapshots before it asked for; the
\* file sink writes to the configured file or nowhere.
LoggerFollowsConfig ==
    Started =>
        LET v == config.values
            items == ItemsOf[v["log_features"].rest]
            Asked(f) == {i \in DOMAIN items : ValidItem(items[i]) /\ items[i].feature = f}
            Passes(level, f) ==
                \/ \A g \in LogFeatures : Asked(g) = {}
                \/ \E g \in {f, "ALL"} :
                     /\ Asked(g) # {} /\ (g # f => Asked(f) = {})
                     /\ \E i \in Asked(g) : /\ \A j \in Asked(g) : i <= j
                                            /\ level <= parseLogLevel(Word(items[i].level)).value
            Wants(s) == CASE s = "stderr" -> v["log_level_stderr"]
                          [] s = "syslog" -> v["log_level_syslog"]
                          [] s = "file" -> IF v["log_file"].rest \in Unopenable \cup {Empty} THEN 0
                                           ELSE v["log_level_file"]
        IN  \A level \in LogLevels \ {0}, f \in LogFeatures :
                /\ WrittenTo(logger, level, f) = {s \in Sinks : level <= Wants(s) /\ Passes(level, f)}
                /\ "file" \in WrittenTo(logger, level, f) => logger.opened = v["log_file"].rest

\* Some signal has an endpoint of its own at this host with the path of s, and s
\* has an endpoint of its own too.
Own(v, s) == v[Tls[s].endpoint].rest
Home(v, h, s) ==
    /\ Own(v, s) # Empty
    /\ \E t \in Signals : Own(v, t) # Empty /\ UrlOf[Own(v, t)].host = h /\ UrlOf[Own(v, t)].path = s

AtHome(h, ssl, v) ==
    /\ ssl.key # Empty => \/ ssl.key = v[Tls.general.key].rest
                       \/ \E s \in Signals : Home(v, h, s) /\ ssl.key = v[Tls[s].key].rest
    /\ ssl.insecure => \/ v[Tls.general.insecure]
                       \/ \E s \in Signals : Home(v, h, s) /\ v[Tls[s].insecure]

\* The client key of a signal is used only where a signal's own endpoint has the
\* path of that signal, which is its own unless an endpoint was configured with
\* the path of another; and the verification of certificates is off only where it
\* was switched off for that signal or for all, although signals that share a
\* host share the connection of the one that came first.
TlsStaysHome ==
    \A h \in DOMAIN connected : AtHome(h, connected[h].ssl, connected[h].found)
=============================================================================
