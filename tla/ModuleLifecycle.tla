--------------------------- MODULE ModuleLifecycle ---------------------------
(***************************************************************************)
(* The extension as a module of PHP processes: what MINIT, RINIT and       *)
(* MSHUTDOWN do to the hooks of the engine, which other extensions use     *)
(* too; the fork handlers; the one-time task that workers share; and the   *)
(* guard that keeps the application from loading its own copy of a file    *)
(* the distro has loaded.                                                  *)
(*                                                                         *)
(* Processes are forked from Master, which the operating system starts.    *)
(* An extension loaded before this one and one loaded after it may have    *)
(* hooks of their own.  What the transports, the sampling and the hooks on *)
(* functions do in a request is in the other modules.                      *)
(***************************************************************************)
EXTENDS Integers, Sequences, FiniteSets

CONSTANTS
    Procs, Master,   \* the processes of a server and the first of them
    SapiNames,       \* names of SAPIs to start under
    Others,          \* sets of other extensions with hooks: "earlier", "later"
    Configs,         \* values the options used here can take
    OpcacheStates,   \* what opcache's settings and status can be
    Names,           \* files below a vendor directory; one outside has a name of its own
    Files,           \* copies of them that exist: <<place, name>>
    Composer,        \* names below composer/
    Classes,         \* names of files that declare a class
    Functions,       \* names of files that declare a function
    MaxRequests,     \* bound: requests of all processes
    MaxCompiled      \* bound: files compiled in the requests under way

ASSUME MasterAssumption == Master \in Procs
ASSUME OthersAssumption == Others \subseteq SUBSET {"earlier", "later"}
ASSUME ConfigsAssumption ==
    /\ Configs # {}
    /\ Configs \subseteq [enabled : BOOLEAN, bootstrap : BOOLEAN, inferred : BOOLEAN,
                          guard : BOOLEAN, diagnostics : BOOLEAN]
ASSUME OpcacheAssumption == \A o \in OpcacheStates : o.preloading \in BOOLEAN
ASSUME NamesAssumption == Composer \cup Classes \cup Functions \subseteq Names
ASSUME FilesAssumption == Files \subseteq {"distro", "app"} \X Names

VARIABLES
    sapi,       \* name of the SAPI
    others,     \* which other extensions have hooks
    pc,         \* where each process is
    config,     \* options in ConfigurationStorage::config_
    engine,     \* zend_execute_internal, zend_interrupt_function, zend_compile_file
    saved,      \* what the later extension has saved of engine
    hooking,    \* the Hooking singleton: original_*, inferredSpansHooksInstalled_
    handlers,   \* pthread_atfork has been called
    executor,   \* periodicTaskExecutor_ and whether its thread runs
    forkables,  \* ForkableRegistry::forkables_
    request,    \* requestCounter_, preloadDetected_, bootstrapSuccessfull_
    tables,     \* files of the entries of EG(class_table) and EG(function_table)
    guard,      \* the DependencyAutoLoaderGuard
    mutex,      \* SharedData::mutex: who holds it, and how
    executed,   \* SharedData::oneTimeTaskAmongWorkersExecuted
    given,      \* history: processes that were told to execute the task
    asked,      \* history: processes that have been answered
    announced,  \* history: processes that sent WORKER_STARTED
    served      \* number of requests

perProcess == <<config, engine, saved, hooking, handlers, executor, forkables, request, tables, guard>>
shared == <<mutex, executed, given, asked, announced>>
vars == <<sapi, others, pc, perProcess, shared, served>>

Slots == {"execute_internal", "interrupt", "compile_file"}
Sampling == {"execute_internal", "interrupt"}
\* A pointer is "null", the engine's own "compile", or a function of an extension.
Default == [s \in Slots |-> IF s = "compile_file" THEN "compile" ELSE "null"]
Alive(p) == pc[p] \notin {"none", "down", "dead"}

-----------------------------------------------------------------------------
(* SAPI and opcache *)

KnownSapis == {"cli", "cli-server", "cgi", "cgi-fcgi", "fpm-fcgi", "apache2handler", "litespeed",
               "phpdbg", "embed", "fuzzer", "uwsgi", "frankenphp"}
parseSapi(name) == IF name \in KnownSapis THEN name ELSE "UNKNOWN"
isSupported == parseSapi(sapi) \notin {"UNKNOWN", "phpdbg", "embed"}

isOpcacheEnabled(o) == IF sapi = "cli" THEN o.enable_cli ELSE o.enable
\* While opcache preloads, the SAPI has no callbacks.
detectOpcachePreload(o) == isOpcacheEnabled(o) /\ o.preload /\ o.preloading
isScriptRestrictedByOpcacheAPI(o) == isOpcacheEnabled(o) /\ o.restrict_api /\ ~o.scriptAllowed
detectOpcacheRestartPending(o) == isOpcacheEnabled(o) /\ o.status = "restart_pending"

-----------------------------------------------------------------------------
(* Hooks of the engine *)

fetchOriginalHooks(h, e) == [h EXCEPT !.original = e]

enableInferredSpansHooks(h, e) ==
    IF h.installed
    THEN e
    ELSE [s \in Slots |-> IF s \in Sampling THEN "distro" ELSE e[s]]

replaceHooks(h, e, inferred, guarded) ==
    LET sampled == IF inferred THEN enableInferredSpansHooks(h, e) ELSE e
    IN  [sampled EXCEPT !.compile_file = IF guarded THEN "distro" ELSE @]

\* Mutant: the original hooks are fetched after they have been replaced.
HookedThenFetched(h, e, cfg) ==
    LET replaced == replaceHooks(h, e, cfg.inferred, cfg.guard)
    IN  [hooking |-> [fetchOriginalHooks(h, replaced) EXCEPT !.installed = @ \/ cfg.inferred],
         engine |-> replaced]

\* Hooks and pointers after MINIT.
Hooked(h, e, cfg) ==
    LET fetched == fetchOriginalHooks(h, e)
    IN  [hooking |-> [fetched EXCEPT !.installed = @ \/ cfg.inferred],
         engine |-> replaceHooks(fetched, e, cfg.inferred, cfg.guard)]

\* The function that h calls in the end; otel_compile_file compiles nothing
\* when it has no original.
Below(p, s, h) ==
    CASE h = "later" -> saved[p][s]
      [] h = "distro" -> hooking[p].original[s]
      [] h = "earlier" -> Default[s]
      [] OTHER -> h
\* All functions that run when the engine calls the hook.
Called(p, s) ==
    LET top == engine[p][s]
        second == Below(p, s, top)
        third == Below(p, s, second)
    IN  {top, second, third, Below(p, s, third)}

-----------------------------------------------------------------------------
(* Start and end of a process *)

NewHooking == [original |-> [s \in Slots |-> "null"], installed |-> FALSE, late |-> FALSE]
NewRequest == [counter |-> 0, preload |-> FALSE, bootstrapped |-> FALSE]
NewGuard == [vendorPath |-> FALSE, compiledFiles |-> {}, lastClass |-> 0, lastFunction |-> 0]
Empty == [class |-> <<>>, function |-> <<>>, included |-> {}]
NewTables == [class |-> <<>>, function |-> <<>>, included |-> {}, preloading |-> FALSE, kept |-> Empty]
NoConfig == CHOOSE c \in Configs : TRUE

\* What a process knew of its requests.
Forgotten(p) ==
    /\ request' = [request EXCEPT ![p] = NewRequest]
    /\ tables' = [tables EXCEPT ![p] = NewTables]
    /\ guard' = [guard EXCEPT ![p] = NewGuard]

moduleEnabled(cfg) == isSupported /\ cfg.enabled /\ cfg.bootstrap

\* The master's MINIT: moduleInit.  The registry has held the registrar since GINIT.
ModuleInit(cfg) ==
    /\ pc[Master] = "loading"
    /\ config' = [config EXCEPT ![Master] = cfg]
    /\ LET new == Hooked(hooking[Master], engine[Master], cfg)
       IN  IF moduleEnabled(cfg)
           THEN /\ hooking' = [hooking EXCEPT ![Master] = new.hooking]
                /\ engine' = [engine EXCEPT ![Master] = new.engine]
                /\ handlers' = [handlers EXCEPT ![Master] = TRUE]
           ELSE UNCHANGED <<hooking, engine, handlers>>
    /\ pc' = [pc EXCEPT ![Master] = "loaded"]
    /\ UNCHANGED <<sapi, others, saved, executor, forkables, request, tables, guard, shared, served>>

\* The MINIT of the extension that is loaded after this one.
LaterInit(p) ==
    /\ pc[p] = "loaded"
    /\ IF "later" \in others
       THEN /\ saved' = [saved EXCEPT ![p] = engine[p]]
            /\ engine' = [engine EXCEPT ![p] = [s \in Slots |-> "later"]]
       ELSE UNCHANGED <<saved, engine>>
    /\ pc' = [pc EXCEPT ![p] = "fresh"]
    /\ UNCHANGED <<sapi, others, config, hooking, handlers, executor, forkables, request, tables, guard, shared, served>>

\* MSHUTDOWN of both extensions, the last one first, and GSHUTDOWN.
ModuleShutdown(p) ==
    /\ pc[p] \in {"fresh", "up"}
    /\ LET mine == IF "later" \in others THEN saved[p] ELSE engine[p]
       IN  engine' = [engine EXCEPT ![p] =
                          IF moduleEnabled(config[p]) THEN hooking[p].original ELSE mine]
    /\ forkables' = [forkables EXCEPT ![p] = {}]
    /\ executor' = [executor EXCEPT ![p] = "absent"]
    /\ pc' = [pc EXCEPT ![p] = "down"]
    /\ Forgotten(p)
    /\ UNCHANGED <<sapi, others, config, saved, hooking, handlers, shared, served>>

\* A process is killed; its memory is gone, what it has locked stays locked.
Die(p) ==
    /\ Alive(p)
    /\ pc' = [pc EXCEPT ![p] = "dead"]
    /\ config' = [config EXCEPT ![p] = NoConfig]
    /\ engine' = [engine EXCEPT ![p] = Default]
    /\ saved' = [saved EXCEPT ![p] = Default]
    /\ hooking' = [hooking EXCEPT ![p] = NewHooking]
    /\ handlers' = [handlers EXCEPT ![p] = FALSE]
    /\ executor' = [executor EXCEPT ![p] = "absent"]
    /\ forkables' = [forkables EXCEPT ![p] = {}]
    /\ Forgotten(p)
    /\ UNCHANGED <<sapi, others, shared, served>>

-----------------------------------------------------------------------------
(* Fork *)

\* Without handlers, the child has no threads; with them, ForkableRegistry
\* stops the threads of its objects before the fork and starts them again in
\* both processes.
postForkExecutor(p) ==
    IF executor[p] = "absent" \/ (handlers[p] /\ "executor" \in forkables[p])
    THEN executor[p]
    ELSE "threadless"

Fork(p, c) ==
    /\ pc[p] \in {"loaded", "fresh", "up", "request"}
    /\ pc[c] = "none"
    /\ LET place == IF pc[p] = "fresh" THEN "up" ELSE pc[p]
       IN  pc' = [pc EXCEPT ![p] = place, ![c] = place]
    /\ LET Copied(f) == [f EXCEPT ![c] = f[p]]
       IN  /\ config' = Copied(config) /\ engine' = Copied(engine) /\ saved' = Copied(saved)
           /\ hooking' = Copied(hooking) /\ handlers' = Copied(handlers)
           /\ forkables' = Copied(forkables) /\ request' = Copied(request)
           /\ tables' = Copied(tables) /\ guard' = Copied(guard)
    /\ executor' = [executor EXCEPT ![c] = postForkExecutor(p)]
    /\ announced' = IF handlers[p] /\ "registrar" \in forkables[p]
                    THEN announced \cup {c}
                    ELSE announced
    /\ UNCHANGED <<sapi, others, mutex, executed, given, asked, served>>

-----------------------------------------------------------------------------
(* The guard *)

\* Mutant: the files are forgotten, the positions in the tables are not.
clearFiles(g) == [g EXCEPT !.compiledFiles = {}]

clear(g) == [g EXCEPT !.lastClass = 0, !.lastFunction = 0, !.compiledFiles = {}]

setBootstrapPath(g) == [g EXCEPT !.vendorPath = TRUE]

\* Files of the entries after the given positions.
getNewlyCompiledFiles(t, lastClass, lastFunction) ==
    {t.class[i] : i \in (lastClass + 1) .. Len(t.class)}
        \cup {t.function[i] : i \in (lastFunction + 1) .. Len(t.function)}

\* The guard after it has looked at the tables: it keeps the names, below the
\* distro's vendor directory, of the files that came from there.
Scanned(g, t) ==
    LET found == getNewlyCompiledFiles(t, g.lastClass, g.lastFunction)
        delivered == {n \in Names \ Composer : <<"distro", n>> \in found}
    IN  [g EXCEPT !.compiledFiles = @ \cup delivered,
                  !.lastClass = Len(t.class), !.lastFunction = Len(t.function)]

\* Before the path is set, every file is below the empty vendor path.  Where a file
\* comes from is exact here: the code compares the canonical path of the file with a
\* vendor path that it takes as configured, so that the distro must not be installed
\* behind a symbolic link.
asksTables(g, file) == g.vendorPath /\ file[1] # "distro"
wasDeliveredByDistro(g, file) == file[2] \in g.compiledFiles

\* What compiling a file adds to a table.
Declared(table, file, declaring) == IF file[2] \in declaring THEN Append(table, file) ELSE table

\* The engine calls zend_compile_file; fails: the compilation ends in a fatal
\* error, which otel_compile_file turns into "nothing compiled".
CompileFile(p, file, fails) ==
    LET hooked == "distro" \in Called(p, "compile_file")
        g == IF hooked /\ asksTables(guard[p], file) THEN Scanned(guard[p], tables[p]) ELSE guard[p]
        discarded == hooked /\ asksTables(guard[p], file) /\ wasDeliveredByDistro(g, file)
    IN  /\ pc[p] = "request"
        /\ file[1] = "distro" => request[p].bootstrapped
        /\ file \notin tables[p].included
        /\ Cardinality({qf \in Procs \X Files : qf[2] \in tables[qf[1]].included}) < MaxCompiled
        /\ guard' = [guard EXCEPT ![p] = g]
        /\ tables' = IF discarded \/ fails
                     THEN tables
                     ELSE [tables EXCEPT ![p].class = Declared(@, file, Classes),
                                         ![p].function = Declared(@, file, Functions),
                                         ![p].included = @ \cup {file}]
        /\ UNCHANGED <<sapi, others, pc, config, engine, saved, hooking, handlers, executor, forkables, request, shared, served>>

-----------------------------------------------------------------------------
(* The one-time task among workers *)

LockSharably(p) ==
    /\ pc[p] = "asking" /\ mutex.writer = {}
    /\ mutex' = [mutex EXCEPT !.readers = @ \cup {p}]
    /\ pc' = [pc EXCEPT ![p] = "reading"]
    /\ UNCHANGED <<sapi, others, perProcess, executed, given, asked, announced, served>>

ReadExecuted(p) ==
    /\ pc[p] = "reading"
    /\ mutex' = [mutex EXCEPT !.readers = @ \ {p}]
    /\ pc' = [pc EXCEPT ![p] = IF executed THEN "booting" ELSE "claiming"]
    /\ asked' = IF executed THEN asked \cup {p} ELSE asked
    /\ UNCHANGED <<sapi, others, perProcess, executed, given, announced, served>>

LockExclusively(p) ==
    /\ pc[p] = "claiming" /\ mutex.writer = {} /\ mutex.readers = {}
    /\ mutex' = [mutex EXCEPT !.writer = {p}]
    /\ pc' = [pc EXCEPT ![p] = "deciding"]
    /\ UNCHANGED <<sapi, others, perProcess, executed, given, asked, announced, served>>

\* Mutant: the flag is not looked at again under the exclusive lock.
GetsTaskAnyway == TRUE

\* Whether a process that holds the lock exclusively is given the task.
GetsTask == ~executed

Decide(p) ==
    /\ pc[p] = "deciding"
    /\ mutex' = [mutex EXCEPT !.writer = {}]
    /\ executed' = TRUE
    /\ given' = IF GetsTask THEN Append(given, p) ELSE given
    /\ asked' = asked \cup {p}
    /\ pc' = [pc EXCEPT ![p] = "booting"]
    /\ UNCHANGED <<sapi, others, perProcess, announced, served>>

-----------------------------------------------------------------------------
(* Requests *)

\* onRequestInit up to the one-time task.  The options change only in a process
\* that watches the shared memory.
RequestInit(p, cfg, o) ==
    LET counter == request[p].counter + 1
        counted == isSupported /\ cfg.enabled
        preload == counter = 1 /\ detectOpcachePreload(o)
        g == clear(IF counter = 1 THEN setBootstrapPath(guard[p]) ELSE guard[p])
    IN  /\ pc[p] \in {"fresh", "up"}
        /\ o.preloading => pc[p] = "fresh" /\ p = Master
        /\ cfg # config[p] => isSupported /\ handlers[p]
        /\ served < MaxRequests
        /\ served' = served + 1
        /\ config' = [config EXCEPT ![p] = cfg]
        /\ tables' = [tables EXCEPT ![p].preloading = o.preloading]
        /\ request' = [request EXCEPT ![p] =
                           [counter |-> IF counted THEN counter ELSE @.counter,
                            preload |-> IF counted THEN preload ELSE @.preload,
                            bootstrapped |-> FALSE]]
        /\ guard' = IF counted THEN [guard EXCEPT ![p] = g] ELSE guard
        /\ pc' = [pc EXCEPT ![p] = IF ~counted \/ preload THEN "initialised"
                                   ELSE IF counter <= 2 /\ cfg.diagnostics THEN "asking"
                                   ELSE "booting"]
        /\ UNCHANGED <<sapi, others, engine, saved, hooking, handlers, executor, forkables, shared>>

\* Mutant: it is made and not registered.
unregisteredExecutor(f) == f

\* periodicTaskExecutor_ is made, and registered for forks, when it is first used.
getPeriodicTaskExecutor(f) == f \cup {"executor"}

\* The rest of onRequestInit; booted: what bootstrapPHPSideInstrumentation returns.
Boot(p, o, booted) ==
    LET pending == ~isScriptRestrictedByOpcacheAPI(o) /\ detectOpcacheRestartPending(o)
        sampling == booted /\ config[p].inferred
    IN  /\ pc[p] = "booting"
        /\ booted => config[p].bootstrap /\ ~pending
        /\ request' = [request EXCEPT ![p].bootstrapped = booted]
        /\ IF sampling /\ executor[p] = "absent"
           THEN /\ executor' = [executor EXCEPT ![p] = "threaded"]
                /\ forkables' = [forkables EXCEPT ![p] = getPeriodicTaskExecutor(@)]
           ELSE UNCHANGED <<executor, forkables>>
        /\ pc' = [pc EXCEPT ![p] = "initialised"]
        /\ UNCHANGED <<sapi, others, config, engine, saved, hooking, handlers, tables, guard, shared, served>>

\* RINIT after onRequestInit, whichever way that returned.
InstallInferredSpansHooks(p) ==
    /\ pc[p] = "initialised"
    /\ IF config[p].inferred
       THEN /\ engine' = [engine EXCEPT ![p] = enableInferredSpansHooks(hooking[p], @)]
            /\ hooking' = [hooking EXCEPT ![p].installed = TRUE, ![p].late = @ \/ ~hooking[p].installed]
       ELSE UNCHANGED <<engine, hooking>>
    /\ pc' = [pc EXCEPT ![p] = "request"]
    /\ UNCHANGED <<sapi, others, config, saved, handlers, executor, forkables, request, tables, guard, shared, served>>

\* RSHUTDOWN, the end of the request in the engine, which keeps only what was
\* preloaded, and the post-deactivate callback.
RequestEnd(p) ==
    /\ pc[p] = "request"
    /\ tables' = [tables EXCEPT ![p] =
           LET t == IF @.preloading
                    THEN [class |-> @.class, function |-> @.function, included |-> @.included]
                    ELSE @.kept
           IN  [class |-> t.class, function |-> t.function, included |-> t.included,
                preloading |-> FALSE, kept |-> t]]
    /\ guard' = [guard EXCEPT ![p] = clear(@)]
    /\ request' = [request EXCEPT ![p].bootstrapped = FALSE]
    /\ pc' = [pc EXCEPT ![p] = "up"]
    /\ UNCHANGED <<sapi, others, config, engine, saved, hooking, handlers, executor, forkables, shared, served>>

-----------------------------------------------------------------------------
Init ==
    /\ sapi \in SapiNames
    /\ others \in Others
    /\ pc = [p \in Procs |-> IF p = Master THEN "loading" ELSE "none"]
    /\ config = [p \in Procs |-> NoConfig]
    /\ engine = [p \in Procs |-> IF "earlier" \in others THEN [s \in Slots |-> "earlier"] ELSE Default]
    /\ saved = [p \in Procs |-> Default]
    /\ hooking = [p \in Procs |-> NewHooking]
    /\ handlers = [p \in Procs |-> FALSE]
    /\ executor = [p \in Procs |-> "absent"]
    /\ forkables = [p \in Procs |-> {"registrar"}]
    /\ request = [p \in Procs |-> NewRequest]
    /\ tables = [p \in Procs |-> NewTables]
    /\ guard = [p \in Procs |-> NewGuard]
    /\ mutex = [readers |-> {}, writer |-> {}]
    /\ executed = FALSE
    /\ given = <<>>
    /\ asked = {}
    /\ announced = {}
    /\ served = 0

Next ==
    \/ \E cfg \in Configs : ModuleInit(cfg)
    \/ \E p \in Procs :
        \/ LaterInit(p) \/ ModuleShutdown(p) \/ Die(p)
        \/ LockSharably(p) \/ ReadExecuted(p) \/ LockExclusively(p) \/ Decide(p)
        \/ InstallInferredSpansHooks(p) \/ RequestEnd(p)
        \/ \E c \in Procs : Fork(p, c)
        \/ \E file \in Files, fails \in BOOLEAN : CompileFile(p, file, fails)
        \/ \E o \in OpcacheStates :
            \/ \E cfg \in Configs : RequestInit(p, cfg, o)
            \/ \E booted \in BOOLEAN : Boot(p, o, booted)

Spec == Init /\ [][Next]_vars

-----------------------------------------------------------------------------
(* Properties *)

Unhooked == IF "earlier" \in others THEN [s \in Slots |-> "earlier"] ELSE Default

\* Every call of an engine hook reaches the engine's own function and the hooks
\* of the other extensions: otel_execute_internal, otel_interrupt_function and
\* otel_compile_file hand on to what was there before them, once, and
\* moduleShutdown takes them out.  Two gaps are the code's: enableInferredSpansHooks
\* in RINIT covers the hook of a later extension, and, when MINIT returned before
\* fetchOriginalHooks, that of an earlier one too; and a process whose options
\* are disabled when it ends leaves its hooks in place.
OtherHooksStillRun ==
    \A p \in Procs, s \in Slots :
        /\ Alive(p) =>
            /\ Default[s] \in Called(p, s)
            /\ "earlier" \in others =>
                \/ "earlier" \in Called(p, s)
                \/ s \in Sampling /\ hooking[p].late /\ hooking[p].original[s] = "null"
            /\ "later" \in others /\ pc[p] \notin {"loading", "loaded"} =>
                \/ "later" \in Called(p, s)
                \/ s \in Sampling /\ hooking[p].late
        /\ pc[p] = "down" /\ moduleEnabled(config[p]) => engine[p] = Unhooked

\* Of all the workers that ask shouldExecuteOneTimeTaskAmongWorkers, in whatever
\* order they get the two locks and whoever is killed meanwhile, exactly one is
\* told to execute the task as soon as one has been answered.
OneTimeTaskGivenOnce ==
    /\ Len(given) <= 1
    /\ asked # {} => given # <<>>

\* A process that runs instrumented requests is the master or has announced itself
\* to the coordinator, and after a fork it has the thread its executor needs:
\* the registry's callbacks reach every object that was ever put into it.
ForkedWorkersAreWhole ==
    \A p \in Procs :
        /\ Alive(p) /\ request[p].bootstrapped => p = Master \/ p \in announced
        /\ Alive(p) => executor[p] # "threadless"

\* No file of the application is compiled after the distro's file of the same
\* name in the same request, which would declare its classes and functions twice:
\* DependencyAutoLoaderGuard has seen the distro's file in the tables.
OneCopyOfEachFile ==
    \A p \in Procs :
        Alive(p) /\ "distro" \in Called(p, "compile_file") =>
            \A t \in {tables[p].class, tables[p].function} :
                \A i, j \in 1 .. Len(t) :
                    i < j /\ t[i][1] = "distro" /\ t[i][2] \notin Composer =>
                        t[j] # <<"app", t[i][2]>>
=============================================================================
