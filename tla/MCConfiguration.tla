--------------------------- MODULE MCConfiguration ---------------------------
EXTENDS Configuration, TLC

One(o, t) == o :> t
Default(ini, env) == [default |-> [ini |-> ini, env |-> env], vendor |-> [ini |-> NoSettings, env |-> NoSettings]]

\* Texts that an operator might write.
Texts ==
    [boolean  |-> {Word("true"), Word("ON"), Word("false"), Word("oops"), Number(1, ""), Number(0, "x"), Huge},
     loglevel |-> {Word("DEBUG"), Word("trace"), Word("oops"), Number(5, "")},
     bytes    |-> {Number(3, ""), Number(1, "KB"), Number(1, "gb"), Number(600, "mb"), Number(2, "ms"), Fraction(1, "kb"),
                   Number(-1, ""), Number(1500, "mb"), Number(SizeLimit - 1, ""), Number(SizeLimit, "b"), Word("mb"), Huge},
     duration |-> {Fraction(1, "s"), Fraction(0, ""), Number(2, "m"), Number(20, "m"), Number(2, "MS"), Number(-1, "s"),
                   Word("s"), Huge},
     string   |-> {Word("")}]

\* Every option with every text in one place.
SingleSources ==
    {Default(One(o, t), NoSettings) : <<o, t>> \in UNION {{o} \X Texts[options_[o]] : o \in Options}}

\* One option, in any of the four places of the two providers.
Ranks == {NoSettings, One("max_send_queue_size", Number(1, "kb")), One("max_send_queue_size", Number(2, "mb"))}
RankedSources == [{"default", "vendor"} -> [{"ini", "env"} -> Ranks]]

\* Levels, files and features of the logger.
LoggerSources ==
    {Default(One("log_file", Word(file)) @@ One("log_features", Word(fs)),
             One("log_level_stderr", Word(e)) @@ One("log_level_file", Word("debug"))) :
        file \in {"a.log", "bad.log", ""}, fs \in {"", "f1", "f2"}, e \in {"off", "info"}}

\* Endpoints and TLS options of the signals.
TlsSources ==
    {Default(One(Tls.traces.endpoint, Word(te)) @@ One(Tls.logs.endpoint, Word(le)),
             One(Tls.general.key, Word(k)) @@ One(Tls.traces.key, Word("kt")) @@ One(Tls.logs.key, Word("kl"))
             @@ One(Tls.traces.insecure, Word("true"))) :
        te \in {"", "A", "A/x", "B/l"}, le \in {"", "A/l", "B/l"}, k \in {"", "kg"}}

MCSources == SingleSources \cup RankedSources \cup LoggerSources \cup TlsSources

MCRemotes == {"quiet", "loud", "moved", "huge", "off"}
MCDynamicOf ==
    [quiet |-> One("log_file", Word("")) @@ One("log_level_stderr", Word("oops")),
     loud  |-> One("log_level_stderr", Word("trace")) @@ One("log_file", Word("b.log"))
               @@ One("max_send_queue_size", Number(5, "b")),
     moved |-> One("log_features", Word("f1")) @@ One("log_file", Word("bad.log"))
               @@ One(Tls.metrics.endpoint, Word("A/m")) @@ One(Tls.metrics.key, Word("km")),
     huge  |-> One("opamp_heartbeat_interval", Huge),
     off   |-> One("enabled", Word("false"))]

MCUrlOf ==
    "" :> [host |-> "localhost", path |-> "other"] @@ "A" :> [host |-> "a", path |-> "traces"]
    @@ "A/x" :> [host |-> "a", path |-> "other"] @@ "A/l" :> [host |-> "a", path |-> "logs"]
    @@ "B/l" :> [host |-> "b", path |-> "logs"] @@ "A/m" :> [host |-> "a", path |-> "metrics"]

MCItemsOf ==
    "" :> <<>>
    @@ "f1" :> <<[feature |-> "HOOKS", level |-> "DEBUG"], [feature |-> "nope", level |-> "info"]>>
    @@ "f2" :> <<[feature |-> "CONFIG", level |-> "oops"], [feature |-> "ALL", level |-> "error"],
                 [feature |-> "CONFIG", level |-> "trace"], [feature |-> "CONFIG", level |-> "off"]>>

\* Of an x86-64 build.
MCUnrepresentable == -DurationLimit
=============================================================================
