------------------------ MODULE ModuleLifecycleProofs ------------------------
(***************************************************************************)
(* Theorems about ModuleLifecycle, for any number of processes, requests   *)
(* and files.                                                              *)
(***************************************************************************)
EXTENDS ModuleLifecycle, TLAPS

-----------------------------------------------------------------------------
(* Types *)

Pointers == {"null", "compile", "earlier", "distro", "later"}
Hooks == [Slots -> Pointers]
Places == {"none", "loading", "loaded", "fresh", "up", "asking", "reading", "claiming",
           "deciding", "booting", "initialised", "request", "down", "dead"}
Hookings == [original : Hooks, installed : BOOLEAN, late : BOOLEAN]
RequestState == [counter : Nat, preload : BOOLEAN, bootstrapped : BOOLEAN]
Compiled == [class : Seq(Files), function : Seq(Files), included : SUBSET Files]
Tables == [class : Seq(Files), function : Seq(Files), included : SUBSET Files,
           preloading : BOOLEAN, kept : Compiled]
Guards == [vendorPath : BOOLEAN, compiledFiles : SUBSET Names, lastClass : Nat, lastFunction : Nat]

HookTypes ==
    /\ pc \in [Procs -> Places] /\ config \in [Procs -> Configs]
    /\ engine \in [Procs -> Hooks] /\ saved \in [Procs -> Hooks]
    /\ hooking \in [Procs -> Hookings] /\ handlers \in [Procs -> BOOLEAN]

ProcessTypes ==
    /\ executor \in [Procs -> {"absent", "threaded", "threadless"}]
    /\ forkables \in [Procs -> SUBSET {"registrar", "executor"}]
    /\ request \in [Procs -> RequestState]

GuardTypes == tables \in [Procs -> Tables] /\ guard \in [Procs -> Guards]

SharedTypes ==
    /\ mutex \in [readers : SUBSET Procs, writer : SUBSET Procs]
    /\ executed \in BOOLEAN /\ given \in Seq(Procs)
    /\ asked \subseteq Procs /\ announced \subseteq Procs /\ served \in Nat

TypeOK == HookTypes /\ ProcessTypes /\ GuardTypes /\ SharedTypes

-----------------------------------------------------------------------------
(* The inductive invariants *)

\* The flag in shared memory says whether the task was given.
TaskInv ==
    /\ IF executed THEN Len(given) = 1 ELSE given = <<>>
    /\ asked # {} => executed

\* A process with options that enable the module has the fork handlers; a process
\* with handlers is the master or has announced itself; and only with them is an
\* executor made, which then is in the registry.
Joined(p) ==
    /\ Alive(p) /\ pc[p] # "loading" /\ moduleEnabled(config[p]) => handlers[p]
    /\ pc[p] \in {"asking", "reading", "claiming", "deciding", "booting"} =>
           isSupported /\ config[p].enabled
    /\ Alive(p) /\ handlers[p] => p = Master \/ p \in announced
    /\ Alive(p) => "registrar" \in forkables[p]
    /\ Alive(p) /\ executor[p] # "absent" =>
           executor[p] = "threaded" /\ handlers[p] /\ "executor" \in forkables[p]
    /\ Alive(p) /\ request[p].bootstrapped => handlers[p] /\ pc[p] \in {"initialised", "request"}
    /\ pc[p] = "loading" => ~handlers[p]

JoinedInv == pc[Master] # "none" /\ \A p \in Procs : Joined(p)

\* The chain of hooks of a process: what is on top, what the later extension
\* saved, and what the distro hands on to.
Chained(p) ==
    /\ IF handlers[p] THEN hooking[p].original = Unhooked
                      ELSE hooking[p].original = NewHooking.original
    /\ pc[p] = "loading" => engine[p] = Unhooked
    /\ pc[p] \in {"loading", "loaded"} => ~hooking[p].late
    /\ \A s \in Slots :
        /\ engine[p][s] \in {Unhooked[s], "distro", "later"}
        /\ engine[p][s] = "later" =>
               /\ pc[p] \notin {"loading", "loaded"}
               /\ saved[p][s] = Unhooked[s] \/ (saved[p][s] = "distro" /\ handlers[p])
        /\ engine[p][s] = "distro" => handlers[p] \/ (s \in Sampling /\ hooking[p].late)
        /\ "later" \in others /\ pc[p] \notin {"loading", "loaded"} =>
               engine[p][s] = "later" \/ (s \in Sampling /\ hooking[p].late)

HookInv ==
    \A p \in Procs :
        /\ Alive(p) => Chained(p)
        /\ pc[p] = "down" /\ moduleEnabled(config[p]) => engine[p] = Unhooked

\* The compile_file hook of a process leads to the distro.
Guarded(p) ==
    \/ engine[p]["compile_file"] = "distro"
    \/ engine[p]["compile_file"] = "later" /\ saved[p]["compile_file"] = "distro"

\* The guard knows the distro's files in a table up to position last.
Seen(g, t, last) ==
    /\ last <= Len(t)
    /\ \A i \in 1 .. last : t[i][1] = "distro" /\ t[i][2] \notin Composer => t[i][2] \in g.compiledFiles

NoneOfDistro(t) == \A i \in 1 .. Len(t) : t[i][1] # "distro"

NoSecondCopy(t) ==
    \A i, j \in 1 .. Len(t) :
        i < j /\ t[i][1] = "distro" /\ t[i][2] \notin Composer => t[j] # <<"app", t[i][2]>>

\* No distro file before the guard knows the vendor path.
PathInv ==
    \A p \in Procs : Alive(p) =>
        /\ request[p].counter > 0 => guard[p].vendorPath
        /\ pc[p] \in {"asking", "reading", "claiming", "deciding", "booting"} => request[p].counter > 0
        /\ request[p].bootstrapped => request[p].counter > 0
        /\ ~guard[p].vendorPath =>
               /\ NoneOfDistro(tables[p].class) /\ NoneOfDistro(tables[p].function)
               /\ NoneOfDistro(tables[p].kept.class) /\ NoneOfDistro(tables[p].kept.function)
        /\ pc[p] = "loading" => tables[p] = NewTables /\ guard[p] = NewGuard

\* What the guard has seen of the tables.
SeenInv ==
    \A p \in Procs : Alive(p) =>
        /\ Seen(guard[p], tables[p].class, guard[p].lastClass)
        /\ Seen(guard[p], tables[p].function, guard[p].lastFunction)

CopyInv ==
    \A p \in Procs : Alive(p) /\ Guarded(p) =>
        /\ NoSecondCopy(tables[p].class) /\ NoSecondCopy(tables[p].function)
        /\ NoSecondCopy(tables[p].kept.class) /\ NoSecondCopy(tables[p].kept.function)

IInv == TypeOK /\ TaskInv /\ JoinedInv /\ HookInv /\ PathInv /\ SeenInv /\ CopyInv

-----------------------------------------------------------------------------
(* Types are kept *)

\* The values that a new process starts with have the types of the variables.
LEMMA Constants ==
    /\ NoConfig \in Configs /\ Default \in Hooks /\ NewHooking \in Hookings
    /\ NewRequest \in RequestState /\ NewTables \in Tables /\ NewGuard \in Guards
    /\ Unhooked \in Hooks
<1>1. NoConfig \in Configs
  BY ConfigsAssumption DEF NoConfig
<1>2. Default \in Hooks /\ Unhooked \in Hooks /\ NewHooking \in Hookings
  <2>2. Default \in Hooks /\ Unhooked \in Hooks
    BY DEF Default, Unhooked, Hooks, Pointers
  <2>3. [s \in Slots |-> "null"] \in Hooks
    BY DEF Hooks, Pointers
  <2> QED
    BY <2>2, <2>3 DEF NewHooking, Hookings
<1>3. NewRequest \in RequestState /\ NewGuard \in Guards
  BY DEF NewRequest, RequestState, NewGuard, Guards
<1>4. <<>> \in Seq(Files) /\ {} \in SUBSET Files
  OBVIOUS
<1>5. Empty \in Compiled
  BY <1>4 DEF Empty, Compiled
<1>6. NewTables \in Tables
  BY <1>4, <1>5 DEF NewTables, Tables
<1> QED
  BY <1>1, <1>2, <1>3, <1>6

\* What MINIT makes of the hooks: the originals are those it found, and the
\* distro's functions come on top of them as the options say.
LEMMA HookedFacts ==
    ASSUME NEW h \in Hookings, NEW e \in Hooks, NEW cfg \in Configs
    PROVE  /\ Hooked(h, e, cfg).hooking \in Hookings
           /\ Hooked(h, e, cfg).hooking.original = e
           /\ Hooked(h, e, cfg).hooking.late = h.late
           /\ Hooked(h, e, cfg).engine \in Hooks
           /\ \A s \in Slots : Hooked(h, e, cfg).engine[s] \in {"distro", e[s]}
<1>1. cfg.inferred \in BOOLEAN /\ cfg.guard \in BOOLEAN
  BY ConfigsAssumption
<1> DEFINE f == fetchOriginalHooks(h, e)
           r == replaceHooks(f, e, cfg.inferred, cfg.guard)
           i == [f EXCEPT !.installed = @ \/ cfg.inferred]
<1>2. f \in Hookings /\ f.original = e /\ f.late = h.late
  BY DEF fetchOriginalHooks, Hookings
<1>3. Hooked(h, e, cfg).hooking = i /\ Hooked(h, e, cfg).engine = r
  BY DEF Hooked
<1> HIDE DEF f
<1>4. i \in Hookings /\ i.original = e /\ i.late = h.late
  BY <1>1, <1>2 DEF Hookings
<1>5. r \in Hooks /\ \A s \in Slots : r[s] \in {"distro", e[s]}
  <2> DEFINE q == IF cfg.inferred THEN enableInferredSpansHooks(f, e) ELSE e
  <2>1. q \in Hooks /\ \A s \in Slots : q[s] \in {"distro", e[s]}
    BY <1>1 DEF enableInferredSpansHooks, Hooks, Pointers
  <2>2. r = [q EXCEPT !["compile_file"] = IF cfg.guard THEN "distro" ELSE @]
    BY DEF replaceHooks
  <2> HIDE DEF q
  <2> QED
    BY <2>1, <2>2 DEF Hooks, Pointers
<1> HIDE DEF r, i
<1> QED
  BY <1>3, <1>4, <1>5

\* What enableInferredSpansHooks does in RINIT.
LEMMA EnabledFacts ==
    ASSUME NEW h \in Hookings, NEW e \in Hooks
    PROVE  /\ enableInferredSpansHooks(h, e) \in Hooks
           /\ \A s \in Slots : enableInferredSpansHooks(h, e)[s] =
                  IF s \in Sampling /\ ~h.installed THEN "distro" ELSE e[s]
  BY DEF enableInferredSpansHooks, Hooks, Pointers, Hookings

\* The Hooking singleton after RINIT.
Installed(h) == [original |-> h.original, installed |-> TRUE, late |-> h.late \/ ~h.installed]

\* RINIT installs the inferred spans hooks in one process, or leaves all as it is.
LEMMA InstallFacts ==
    ASSUME TypeOK, NEW p \in Procs, InstallInferredSpansHooks(p)
    PROVE  /\ Installed(hooking[p]) \in Hookings
           /\ \/ UNCHANGED <<engine, hooking>>
              \/ /\ engine' = [engine EXCEPT ![p] = enableInferredSpansHooks(hooking[p], @)]
                 /\ hooking' = [hooking EXCEPT ![p] = Installed(hooking[p])]
<1>1. hooking[p] \in Hookings
  BY DEF TypeOK, HookTypes
<1>2. \/ UNCHANGED <<engine, hooking>>
      \/ /\ engine' = [engine EXCEPT ![p] = enableInferredSpansHooks(hooking[p], @)]
         /\ hooking' = [hooking EXCEPT ![p].installed = TRUE, ![p].late = @ \/ ~hooking[p].installed]
  BY DEF InstallInferredSpansHooks
<1>3. Installed(hooking[p]) \in Hookings
  BY <1>1 DEF Hookings, Installed
<1> QED
  BY <1>1, <1>2, <1>3 DEF TypeOK, HookTypes, Hookings, Installed

\* clear forgets the files and starts the tables anew; the path stays.
LEMMA ClearFacts ==
    ASSUME NEW g \in Guards
    PROVE  /\ clear(g) \in Guards /\ clear(g).vendorPath = g.vendorPath
           /\ clear(g).lastClass = 0 /\ clear(g).lastFunction = 0
           /\ setBootstrapPath(g) \in Guards /\ setBootstrapPath(g).vendorPath = TRUE
  BY DEF clear, setBootstrapPath, Guards

\* The guard after it has looked at the tables.
LEMMA ScannedFacts ==
    ASSUME NEW g \in Guards, NEW t \in Tables
    PROVE  /\ Scanned(g, t) \in Guards /\ Scanned(g, t).vendorPath = g.vendorPath
           /\ Scanned(g, t).lastClass = Len(t.class) /\ Scanned(g, t).lastFunction = Len(t.function)
           /\ Scanned(g, t).compiledFiles = g.compiledFiles \cup
                  {n \in Names \ Composer :
                      <<"distro", n>> \in getNewlyCompiledFiles(t, g.lastClass, g.lastFunction)}
<1> DEFINE d == {n \in Names \ Composer :
                    <<"distro", n>> \in getNewlyCompiledFiles(t, g.lastClass, g.lastFunction)}
<1>1. d \subseteq Names
  OBVIOUS
<1>2. Len(t.class) \in Nat /\ Len(t.function) \in Nat
  BY DEF Tables
<1>3. Scanned(g, t) = [g EXCEPT !.compiledFiles = @ \cup d,
                                !.lastClass = Len(t.class), !.lastFunction = Len(t.function)]
  BY DEF Scanned
<1> HIDE DEF d
<1>4. g.compiledFiles \cup d \subseteq Names
  BY <1>1 DEF Guards
<1>5. Scanned(g, t) = [vendorPath |-> g.vendorPath, compiledFiles |-> g.compiledFiles \cup d,
                       lastClass |-> Len(t.class), lastFunction |-> Len(t.function)]
  BY <1>3 DEF Guards
<1> QED
  BY <1>2, <1>4, <1>5 DEF Guards, d

\* What the engine keeps of the tables at the end of a request.
Kept(t) == IF t.preloading
           THEN [class |-> t.class, function |-> t.function, included |-> t.included]
           ELSE t.kept

\* The end of a request leaves the tables that preloading made, and no others.
LEMMA EndFacts ==
    ASSUME TypeOK, NEW p \in Procs, RequestEnd(p)
    PROVE  /\ Kept(tables[p]) \in Compiled
           /\ tables' = [tables EXCEPT ![p] =
                  [class |-> Kept(tables[p]).class, function |-> Kept(tables[p]).function,
                   included |-> Kept(tables[p]).included, preloading |-> FALSE,
                   kept |-> Kept(tables[p])]]
<1>1. tables[p] \in Tables
  BY DEF TypeOK, GuardTypes
<1>2. Kept(tables[p]) \in Compiled
  BY <1>1 DEF Kept, Tables, Compiled
<1> QED
  BY <1>2 DEF RequestEnd, Kept, TypeOK, GuardTypes

\* A table with what a compiled file declares.
LEMMA DeclaredFacts ==
    ASSUME NEW t \in Seq(Files), NEW file \in Files, NEW declaring
    PROVE  Declared(t, file, declaring) \in Seq(Files)
  BY DEF Declared

\* The guard and the tables after a file was compiled.
NewlyGuarded(p, file) ==
    IF "distro" \in Called(p, "compile_file") /\ asksTables(guard[p], file)
    THEN Scanned(guard[p], tables[p])
    ELSE guard[p]

WithFile(t, file) ==
    [class |-> Declared(t.class, file, Classes), function |-> Declared(t.function, file, Functions),
     included |-> t.included \cup {file}, preloading |-> t.preloading, kept |-> t.kept]

\* Compiling a file updates the guard, and the tables unless the guard skips a
\* file that they have already.
LEMMA CompileFacts ==
    ASSUME TypeOK, NEW p \in Procs, NEW file \in Files
    PROVE  /\ NewlyGuarded(p, file) \in Guards
           /\ NewlyGuarded(p, file).vendorPath = guard[p].vendorPath
           /\ WithFile(tables[p], file) \in Tables
           /\ \A fails \in BOOLEAN : CompileFile(p, file, fails) =>
                /\ pc[p] = "request" /\ (file[1] = "distro" => request[p].bootstrapped)
                /\ guard' = [guard EXCEPT ![p] = NewlyGuarded(p, file)]
                /\ \/ tables' = tables
                   \/ /\ tables' = [tables EXCEPT ![p] = WithFile(tables[p], file)]
                      /\ ~ (/\ "distro" \in Called(p, "compile_file")
                            /\ asksTables(guard[p], file)
                            /\ file[2] \in Scanned(guard[p], tables[p]).compiledFiles)
<1>1. guard[p] \in Guards /\ tables[p] \in Tables
  BY DEF TypeOK, GuardTypes
<1>2. NewlyGuarded(p, file) \in Guards /\ NewlyGuarded(p, file).vendorPath = guard[p].vendorPath
  BY <1>1, ScannedFacts DEF NewlyGuarded
<1>3. /\ tables[p].class \in Seq(Files) /\ tables[p].function \in Seq(Files)
      /\ tables[p].included \cup {file} \in SUBSET Files
  BY <1>1 DEF Tables
<1>4. /\ Declared(tables[p].class, file, Classes) \in Seq(Files)
      /\ Declared(tables[p].function, file, Functions) \in Seq(Files)
  BY <1>3, DeclaredFacts
<1>5. WithFile(tables[p], file) \in Tables
  BY <1>1, <1>3, <1>4 DEF WithFile, Tables
<1>6. ASSUME NEW fails \in BOOLEAN, CompileFile(p, file, fails)
      PROVE  /\ pc[p] = "request" /\ (file[1] = "distro" => request[p].bootstrapped)
             /\ guard' = [guard EXCEPT ![p] = NewlyGuarded(p, file)]
             /\ \/ tables' = tables
                \/ /\ tables' = [tables EXCEPT ![p] = WithFile(tables[p], file)]
                   /\ ~ (/\ "distro" \in Called(p, "compile_file")
                         /\ asksTables(guard[p], file)
                         /\ file[2] \in Scanned(guard[p], tables[p]).compiledFiles)
  <2>1. pc[p] = "request" /\ (file[1] = "distro" => request[p].bootstrapped)
    BY <1>6 DEF CompileFile
  <2>2. guard' = [guard EXCEPT ![p] = NewlyGuarded(p, file)]
    BY <1>6 DEF CompileFile, NewlyGuarded
  <2>3. \/ tables' = tables
        \/ /\ tables' = [tables EXCEPT ![p].class = Declared(@, file, Classes),
                                      ![p].function = Declared(@, file, Functions),
                                      ![p].included = @ \cup {file}]
           /\ ~ (/\ "distro" \in Called(p, "compile_file")
                 /\ asksTables(guard[p], file)
                 /\ file[2] \in Scanned(guard[p], tables[p]).compiledFiles)
    BY <1>6 DEF CompileFile, wasDeliveredByDistro
  <2>4. \/ tables' = tables
        \/ /\ tables' = [tables EXCEPT ![p] = WithFile(tables[p], file)]
           /\ ~ (/\ "distro" \in Called(p, "compile_file")
                 /\ asksTables(guard[p], file)
                 /\ file[2] \in Scanned(guard[p], tables[p]).compiledFiles)
    BY <1>1, <2>3 DEF WithFile, TypeOK, GuardTypes, Tables
  <2> QED
    BY <2>1, <2>2, <2>4
<1> QED
  BY <1>2, <1>5, <1>6

\* Every step keeps the types.
LEMMA TypesStep ==
    ASSUME TypeOK, [Next]_vars
    PROVE  TypeOK'
<1> USE DEF perProcess, shared
<1>1. ASSUME NEW cfg \in Configs, ModuleInit(cfg)
      PROVE  TypeOK'
  <2>1. HookTypes'
    <3> DEFINE new == Hooked(hooking[Master], engine[Master], cfg)
    <3>1. new.hooking \in Hookings /\ new.engine \in Hooks
      BY HookedFacts, MasterAssumption DEF TypeOK, HookTypes
    <3>2. /\ config' = [config EXCEPT ![Master] = cfg] /\ pc' = [pc EXCEPT ![Master] = "loaded"]
          /\ hooking' = hooking \/ hooking' = [hooking EXCEPT ![Master] = new.hooking]
          /\ engine' = engine \/ engine' = [engine EXCEPT ![Master] = new.engine]
          /\ handlers' = handlers \/ handlers' = [handlers EXCEPT ![Master] = TRUE]
          /\ saved' = saved
      BY <1>1 DEF ModuleInit
    <3> HIDE DEF new
    <3> QED
      BY <3>1, <3>2 DEF TypeOK, HookTypes, Places
  <2>2. ProcessTypes'
    BY <1>1, Constants DEF ModuleInit, TypeOK, ProcessTypes
  <2>3. GuardTypes'
    BY <1>1, Constants DEF ModuleInit, TypeOK, GuardTypes
  <2>4. SharedTypes'
    BY <1>1 DEF ModuleInit, TypeOK, SharedTypes
  <2> QED
    BY <2>1, <2>2, <2>3, <2>4 DEF TypeOK
<1>2. ASSUME NEW p \in Procs, LaterInit(p)
      PROVE  TypeOK'
  <2>1. HookTypes'
    <3>1. [s \in Slots |-> "later"] \in Hooks
      BY DEF Hooks, Pointers
    <3> QED
      BY <1>2, <3>1 DEF LaterInit, TypeOK, HookTypes, Places
  <2>2. ProcessTypes'
    BY <1>2, Constants DEF LaterInit, TypeOK, ProcessTypes
  <2>3. GuardTypes'
    BY <1>2, Constants DEF LaterInit, TypeOK, GuardTypes
  <2>4. SharedTypes'
    BY <1>2 DEF LaterInit, TypeOK, SharedTypes
  <2> QED
    BY <2>1, <2>2, <2>3, <2>4 DEF TypeOK
<1>3. ASSUME NEW p \in Procs, ModuleShutdown(p)
      PROVE  TypeOK'
  <2>1. HookTypes'
    <3>1. engine[p] \in Hooks /\ saved[p] \in Hooks /\ hooking[p].original \in Hooks
      BY DEF TypeOK, HookTypes, Hookings
    <3>2. PICK e \in Hooks : engine' = [engine EXCEPT ![p] = e]
      BY <1>3, <3>1 DEF ModuleShutdown
    <3> QED
      BY <1>3, <3>2 DEF ModuleShutdown, TypeOK, HookTypes, Places
  <2>2. ProcessTypes'
    BY <1>3, Constants DEF ModuleShutdown, Forgotten, TypeOK, ProcessTypes
  <2>3. GuardTypes'
    BY <1>3, Constants DEF ModuleShutdown, Forgotten, TypeOK, GuardTypes
  <2>4. SharedTypes'
    BY <1>3 DEF ModuleShutdown, TypeOK, SharedTypes
  <2> QED
    BY <2>1, <2>2, <2>3, <2>4 DEF TypeOK
<1>4. ASSUME NEW p \in Procs, Die(p)
      PROVE  TypeOK'
  <2>1. HookTypes'
    BY <1>4, Constants DEF Die, TypeOK, HookTypes, Places
  <2>2. ProcessTypes'
    BY <1>4, Constants DEF Die, Forgotten, TypeOK, ProcessTypes
  <2>3. GuardTypes'
    BY <1>4, Constants DEF Die, Forgotten, TypeOK, GuardTypes
  <2>4. SharedTypes'
    BY <1>4 DEF Die, TypeOK, SharedTypes
  <2> QED
    BY <2>1, <2>2, <2>3, <2>4 DEF TypeOK
<1>5. ASSUME NEW p \in Procs, NEW c \in Procs, Fork(p, c)
      PROVE  TypeOK'
  <2>1. HookTypes'
    BY <1>5, Constants DEF Fork, TypeOK, HookTypes, Places
  <2>2. ProcessTypes'
    BY <1>5, Constants DEF Fork, postForkExecutor, TypeOK, ProcessTypes
  <2>3. GuardTypes'
    BY <1>5, Constants DEF Fork, TypeOK, GuardTypes
  <2>4. SharedTypes'
    BY <1>5 DEF Fork, TypeOK, SharedTypes
  <2> QED
    BY <2>1, <2>2, <2>3, <2>4 DEF TypeOK
<1>6. ASSUME NEW p \in Procs, NEW file \in Files, NEW fails \in BOOLEAN, CompileFile(p, file, fails)
      PROVE  TypeOK'
  <2>1. HookTypes'
    BY <1>6, Constants DEF CompileFile, TypeOK, HookTypes, Places
  <2>2. ProcessTypes'
    BY <1>6, Constants DEF CompileFile, TypeOK, ProcessTypes
  <2>3. GuardTypes'
    <3>1. NewlyGuarded(p, file) \in Guards /\ WithFile(tables[p], file) \in Tables
      BY CompileFacts
    <3>2. /\ guard' = [guard EXCEPT ![p] = NewlyGuarded(p, file)]
          /\ tables' = tables \/ tables' = [tables EXCEPT ![p] = WithFile(tables[p], file)]
      BY <1>6, CompileFacts
    <3> QED
      BY <3>1, <3>2 DEF TypeOK, GuardTypes
  <2>4. SharedTypes'
    BY <1>6 DEF CompileFile, TypeOK, SharedTypes
  <2> QED
    BY <2>1, <2>2, <2>3, <2>4 DEF TypeOK
<1>7. ASSUME NEW p \in Procs, LockSharably(p)
      PROVE  TypeOK'
  <2>1. HookTypes'
    BY <1>7, Constants DEF LockSharably, TypeOK, HookTypes, Places
  <2>2. ProcessTypes'
    BY <1>7, Constants DEF LockSharably, TypeOK, ProcessTypes
  <2>3. GuardTypes'
    BY <1>7, Constants DEF LockSharably, TypeOK, GuardTypes
  <2>4. SharedTypes'
    BY <1>7 DEF LockSharably, TypeOK, SharedTypes
  <2> QED
    BY <2>1, <2>2, <2>3, <2>4 DEF TypeOK
<1>8. ASSUME NEW p \in Procs, ReadExecuted(p)
      PROVE  TypeOK'
  <2>1. HookTypes'
    BY <1>8, Constants DEF ReadExecuted, TypeOK, HookTypes, Places
  <2>2. ProcessTypes'
    BY <1>8, Constants DEF ReadExecuted, TypeOK, ProcessTypes
  <2>3. GuardTypes'
    BY <1>8, Constants DEF ReadExecuted, TypeOK, GuardTypes
  <2>4. SharedTypes'
    BY <1>8 DEF ReadExecuted, TypeOK, SharedTypes
  <2> QED
    BY <2>1, <2>2, <2>3, <2>4 DEF TypeOK
<1>9. ASSUME NEW p \in Procs, LockExclusively(p)
      PROVE  TypeOK'
  <2>1. HookTypes'
    BY <1>9, Constants DEF LockExclusively, TypeOK, HookTypes, Places
  <2>2. ProcessTypes'
    BY <1>9, Constants DEF LockExclusively, TypeOK, ProcessTypes
  <2>3. GuardTypes'
    BY <1>9, Constants DEF LockExclusively, TypeOK, GuardTypes
  <2>4. SharedTypes'
    BY <1>9 DEF LockExclusively, TypeOK, SharedTypes
  <2> QED
    BY <2>1, <2>2, <2>3, <2>4 DEF TypeOK
<1>10. ASSUME NEW p \in Procs, Decide(p)
      PROVE  TypeOK'
  <2>1. HookTypes'
    BY <1>10, Constants DEF Decide, TypeOK, HookTypes, Places
  <2>2. ProcessTypes'
    BY <1>10, Constants DEF Decide, TypeOK, ProcessTypes
  <2>3. GuardTypes'
    BY <1>10, Constants DEF Decide, TypeOK, GuardTypes
  <2>4. SharedTypes'
    BY <1>10 DEF Decide, TypeOK, SharedTypes
  <2> QED
    BY <2>1, <2>2, <2>3, <2>4 DEF TypeOK
<1>11. ASSUME NEW p \in Procs, NEW o \in OpcacheStates, NEW cfg \in Configs, RequestInit(p, cfg, o)
      PROVE  TypeOK'
  <2>1. HookTypes'
    BY <1>11, Constants DEF RequestInit, TypeOK, HookTypes, Places
  <2>2. ProcessTypes'
    <3>1. request[p] \in RequestState
      BY DEF TypeOK, ProcessTypes
    <3>2. PICK n \in Nat, b \in BOOLEAN : request' = [request EXCEPT ![p] =
               [counter |-> n, preload |-> b, bootstrapped |-> FALSE]]
      <4> DEFINE k == request[p].counter + 1
                 d == isSupported /\ cfg.enabled
                 b == k = 1 /\ detectOpcachePreload(o)
      <4>3. b \in BOOLEAN
        BY Zenon
      <4>4. k \in Nat
        BY <3>1 DEF RequestState
      <4>2. request' = [request EXCEPT ![p] =
               [counter |-> IF d THEN k ELSE request[p].counter,
                preload |-> IF d THEN b ELSE request[p].preload, bootstrapped |-> FALSE]]
        BY <1>11 DEF RequestInit, TypeOK, ProcessTypes
      <4> HIDE DEF k, d, b
      <4>1. /\ (IF d THEN k ELSE request[p].counter) \in Nat
            /\ (IF d THEN b ELSE request[p].preload) \in BOOLEAN
        BY <3>1, <4>3, <4>4 DEF RequestState
      <4> QED
        BY <4>1, <4>2
    <3> QED
      BY <1>11, <3>2 DEF RequestInit, TypeOK, ProcessTypes, RequestState
  <2>3. GuardTypes'
    <3>1. guard[p] \in Guards /\ tables[p] \in Tables /\ o.preloading \in BOOLEAN
      BY OpcacheAssumption DEF TypeOK, GuardTypes
    <3>2. clear(guard[p]) \in Guards /\ clear(setBootstrapPath(guard[p])) \in Guards
      BY <3>1, ClearFacts
    <3>3. guard' \in [Procs -> Guards]
      BY <1>11, <3>1, <3>2 DEF RequestInit, TypeOK, GuardTypes
    <3>4. tables' = [tables EXCEPT ![p].preloading = o.preloading]
      BY <1>11 DEF RequestInit
    <3>5. tables' \in [Procs -> Tables]
      BY <3>1, <3>4 DEF TypeOK, GuardTypes, Tables
    <3> QED
      BY <3>3, <3>5 DEF GuardTypes
  <2>4. SharedTypes'
    BY <1>11 DEF RequestInit, TypeOK, SharedTypes
  <2> QED
    BY <2>1, <2>2, <2>3, <2>4 DEF TypeOK
<1>12. ASSUME NEW p \in Procs, NEW o \in OpcacheStates, NEW booted \in BOOLEAN, Boot(p, o, booted)
      PROVE  TypeOK'
  <2>1. HookTypes'
    BY <1>12, Constants DEF Boot, TypeOK, HookTypes, Places
  <2>2. ProcessTypes'
    <3>1. request' = [request EXCEPT ![p].bootstrapped = booted]
      BY <1>12 DEF Boot
    <3>2. request' \in [Procs -> RequestState]
      BY <3>1 DEF TypeOK, ProcessTypes, RequestState
    <3>3. executor' \in {executor, [executor EXCEPT ![p] = "threaded"]}
          /\ forkables' \in {forkables, [forkables EXCEPT ![p] = @ \cup {"executor"}]}
      BY <1>12 DEF Boot, getPeriodicTaskExecutor
    <3> QED
      BY <3>2, <3>3 DEF TypeOK, ProcessTypes
  <2>3. GuardTypes'
    BY <1>12, Constants DEF Boot, TypeOK, GuardTypes
  <2>4. SharedTypes'
    BY <1>12 DEF Boot, TypeOK, SharedTypes
  <2> QED
    BY <2>1, <2>2, <2>3, <2>4 DEF TypeOK
<1>13. ASSUME NEW p \in Procs, InstallInferredSpansHooks(p)
      PROVE  TypeOK'
  <2>1. HookTypes'
    <3>1. hooking[p] \in Hookings /\ engine[p] \in Hooks
      BY DEF TypeOK, HookTypes
    <3>2. enableInferredSpansHooks(hooking[p], engine[p]) \in Hooks
      BY <3>1, EnabledFacts
    <3>3. engine' \in [Procs -> Hooks]
      BY <1>13, <3>2 DEF InstallInferredSpansHooks, TypeOK, HookTypes
    <3>5. hooking' \in [Procs -> Hookings]
      BY <1>13, InstallFacts DEF TypeOK, HookTypes
    <3> QED
      BY <1>13, <3>3, <3>5 DEF InstallInferredSpansHooks, TypeOK, HookTypes, Places
  <2>2. ProcessTypes'
    BY <1>13, Constants DEF InstallInferredSpansHooks, TypeOK, ProcessTypes
  <2>3. GuardTypes'
    BY <1>13, Constants DEF InstallInferredSpansHooks, TypeOK, GuardTypes
  <2>4. SharedTypes'
    BY <1>13 DEF InstallInferredSpansHooks, TypeOK, SharedTypes
  <2> QED
    BY <2>1, <2>2, <2>3, <2>4 DEF TypeOK
<1>14. ASSUME NEW p \in Procs, RequestEnd(p)
      PROVE  TypeOK'
  <2>1. HookTypes'
    BY <1>14, Constants DEF RequestEnd, TypeOK, HookTypes, Places
  <2>2. ProcessTypes'
    <3>1. request' = [request EXCEPT ![p].bootstrapped = FALSE]
      BY <1>14 DEF RequestEnd
    <3>2. request' \in [Procs -> RequestState]
      BY <3>1 DEF TypeOK, ProcessTypes, RequestState
    <3> QED
      BY <1>14, <3>2 DEF RequestEnd, TypeOK, ProcessTypes
  <2>3. GuardTypes'
    <3>1. guard[p] \in Guards /\ tables[p] \in Tables
      BY DEF TypeOK, GuardTypes
    <3>2. clear(guard[p]) \in Guards
      BY <3>1, ClearFacts
    <3>3. guard' \in [Procs -> Guards]
      BY <1>14, <3>2 DEF RequestEnd, TypeOK, GuardTypes
    <3>4. PICK t \in Compiled : tables' = [tables EXCEPT ![p] =
               [class |-> t.class, function |-> t.function, included |-> t.included,
                preloading |-> FALSE, kept |-> t]]
      BY <1>14, EndFacts DEF RequestEnd, TypeOK, GuardTypes
    <3>5. [class |-> t.class, function |-> t.function, included |-> t.included,
           preloading |-> FALSE, kept |-> t] \in Tables
      BY DEF Compiled, Tables
    <3>6. tables' \in [Procs -> Tables]
      BY <3>4, <3>5 DEF TypeOK, GuardTypes
    <3> QED
      BY <3>3, <3>6 DEF GuardTypes
  <2>4. SharedTypes'
    BY <1>14 DEF RequestEnd, TypeOK, SharedTypes
  <2> QED
    BY <2>1, <2>2, <2>3, <2>4 DEF TypeOK
<1>15. CASE UNCHANGED vars
  <2>1. HookTypes'
    BY <1>15 DEF vars, TypeOK, HookTypes, Places
  <2>2. ProcessTypes'
    BY <1>15 DEF vars, TypeOK, ProcessTypes
  <2>3. GuardTypes'
    BY <1>15 DEF vars, TypeOK, GuardTypes
  <2>4. SharedTypes'
    BY <1>15 DEF vars, TypeOK, SharedTypes
  <2> QED
    BY <2>1, <2>2, <2>3, <2>4 DEF TypeOK
<1> QED
  BY <1>1, <1>2, <1>3, <1>4, <1>5, <1>6, <1>7, <1>8, <1>9, <1>10, <1>11, <1>12, <1>13, <1>14, <1>15 DEF Next

-----------------------------------------------------------------------------
(* The invariants are kept *)

\* The one-time task: the process that sets the flag is the one that is told.
LEMMA TaskStep ==
    ASSUME TypeOK, TaskInv, [Next]_vars
    PROVE  TaskInv'
<1> USE DEF perProcess, shared
<1>1. ASSUME NEW cfg \in Configs, ModuleInit(cfg)
      PROVE  TaskInv'
  BY <1>1 DEF ModuleInit, TypeOK, SharedTypes, TaskInv
<1>2. ASSUME NEW p \in Procs, LaterInit(p)
      PROVE  TaskInv'
  BY <1>2 DEF LaterInit, TypeOK, SharedTypes, TaskInv
<1>3. ASSUME NEW p \in Procs, ModuleShutdown(p)
      PROVE  TaskInv'
  BY <1>3 DEF ModuleShutdown, TypeOK, SharedTypes, TaskInv
<1>4. ASSUME NEW p \in Procs, Die(p)
      PROVE  TaskInv'
  BY <1>4 DEF Die, TypeOK, SharedTypes, TaskInv
<1>5. ASSUME NEW p \in Procs, NEW c \in Procs, Fork(p, c)
      PROVE  TaskInv'
  BY <1>5 DEF Fork, TypeOK, SharedTypes, TaskInv
<1>6. ASSUME NEW p \in Procs, NEW file \in Files, NEW fails \in BOOLEAN, CompileFile(p, file, fails)
      PROVE  TaskInv'
  BY <1>6 DEF CompileFile, TypeOK, SharedTypes, TaskInv
<1>7. ASSUME NEW p \in Procs, LockSharably(p)
      PROVE  TaskInv'
  BY <1>7 DEF LockSharably, TypeOK, SharedTypes, TaskInv
<1>8. ASSUME NEW p \in Procs, ReadExecuted(p)
      PROVE  TaskInv'
  BY <1>8 DEF ReadExecuted, TypeOK, SharedTypes, TaskInv
<1>9. ASSUME NEW p \in Procs, LockExclusively(p)
      PROVE  TaskInv'
  BY <1>9 DEF LockExclusively, TypeOK, SharedTypes, TaskInv
<1>10. ASSUME NEW p \in Procs, Decide(p)
      PROVE  TaskInv'
  BY <1>10 DEF Decide, GetsTask, TypeOK, SharedTypes, TaskInv
<1>11. ASSUME NEW p \in Procs, NEW o \in OpcacheStates, NEW cfg \in Configs, RequestInit(p, cfg, o)
      PROVE  TaskInv'
  BY <1>11 DEF RequestInit, TypeOK, SharedTypes, TaskInv
<1>12. ASSUME NEW p \in Procs, NEW o \in OpcacheStates, NEW booted \in BOOLEAN, Boot(p, o, booted)
      PROVE  TaskInv'
  BY <1>12 DEF Boot, TypeOK, SharedTypes, TaskInv
<1>13. ASSUME NEW p \in Procs, InstallInferredSpansHooks(p)
      PROVE  TaskInv'
  BY <1>13 DEF InstallInferredSpansHooks, TypeOK, SharedTypes, TaskInv
<1>14. ASSUME NEW p \in Procs, RequestEnd(p)
      PROVE  TaskInv'
  BY <1>14 DEF RequestEnd, TypeOK, SharedTypes, TaskInv
<1>15. CASE UNCHANGED vars
  BY <1>15 DEF vars, TypeOK, SharedTypes, TaskInv
<1> QED
  BY <1>1, <1>2, <1>3, <1>4, <1>5, <1>6, <1>7, <1>8, <1>9, <1>10, <1>11, <1>12, <1>13, <1>14, <1>15 DEF Next

\* Processes join with their handlers and their announcement.
LEMMA JoinedStep ==
    ASSUME TypeOK, JoinedInv, [Next]_vars
    PROVE  JoinedInv'
<1> USE DEF perProcess, shared
<1>1. ASSUME NEW cfg \in Configs, ModuleInit(cfg)
      PROVE  JoinedInv'
  BY <1>1, MasterAssumption DEF ModuleInit, TypeOK, HookTypes, ProcessTypes, Places, JoinedInv,
        Joined, Alive, moduleEnabled, isSupported
<1>2. ASSUME NEW p \in Procs, LaterInit(p)
      PROVE  JoinedInv'
  BY <1>2, MasterAssumption DEF LaterInit, TypeOK, HookTypes, ProcessTypes, Places, JoinedInv,
        Joined, Alive, moduleEnabled, isSupported
<1>3. ASSUME NEW p \in Procs, ModuleShutdown(p)
      PROVE  JoinedInv'
  BY <1>3, MasterAssumption DEF ModuleShutdown, Forgotten, TypeOK, HookTypes, ProcessTypes,
        Places, JoinedInv, Joined, Alive, moduleEnabled, isSupported
<1>4. ASSUME NEW p \in Procs, Die(p)
      PROVE  JoinedInv'
  BY <1>4, MasterAssumption DEF Die, Forgotten, NewRequest, TypeOK, HookTypes, ProcessTypes,
        Places, JoinedInv, Joined, Alive, moduleEnabled, isSupported
<1>5. ASSUME NEW p \in Procs, NEW c \in Procs, Fork(p, c)
      PROVE  JoinedInv'
  BY <1>5, MasterAssumption DEF Fork, postForkExecutor, TypeOK, HookTypes, ProcessTypes, Places,
        JoinedInv, Joined, Alive, moduleEnabled, isSupported
<1>6. ASSUME NEW p \in Procs, NEW file \in Files, NEW fails \in BOOLEAN, CompileFile(p, file, fails)
      PROVE  JoinedInv'
  BY <1>6, MasterAssumption DEF CompileFile, TypeOK, HookTypes, ProcessTypes, Places, JoinedInv,
        Joined, Alive, moduleEnabled, isSupported
<1>7. ASSUME NEW p \in Procs, LockSharably(p)
      PROVE  JoinedInv'
  BY <1>7, MasterAssumption DEF LockSharably, TypeOK, HookTypes, ProcessTypes, Places,
        JoinedInv, Joined, Alive, moduleEnabled, isSupported
<1>8. ASSUME NEW p \in Procs, ReadExecuted(p)
      PROVE  JoinedInv'
  BY <1>8, MasterAssumption DEF ReadExecuted, TypeOK, HookTypes, ProcessTypes, Places,
        JoinedInv, Joined, Alive, moduleEnabled, isSupported
<1>9. ASSUME NEW p \in Procs, LockExclusively(p)
      PROVE  JoinedInv'
  BY <1>9, MasterAssumption DEF LockExclusively, TypeOK, HookTypes, ProcessTypes, Places,
        JoinedInv, Joined, Alive, moduleEnabled, isSupported
<1>10. ASSUME NEW p \in Procs, Decide(p)
      PROVE  JoinedInv'
  BY <1>10, MasterAssumption DEF Decide, TypeOK, HookTypes, ProcessTypes, Places, JoinedInv,
        Joined, Alive, moduleEnabled, isSupported
<1>11. ASSUME NEW p \in Procs, NEW o \in OpcacheStates, NEW cfg \in Configs, RequestInit(p, cfg, o)
      PROVE  JoinedInv'
  BY <1>11, MasterAssumption DEF RequestInit, TypeOK, HookTypes, ProcessTypes, Places,
        JoinedInv, Joined, Alive, moduleEnabled, isSupported
<1>12. ASSUME NEW p \in Procs, NEW o \in OpcacheStates, NEW booted \in BOOLEAN, Boot(p, o, booted)
      PROVE  JoinedInv'
  BY <1>12, MasterAssumption DEF Boot, getPeriodicTaskExecutor, TypeOK, HookTypes, ProcessTypes,
        Places, JoinedInv, Joined, Alive, moduleEnabled, isSupported
<1>13. ASSUME NEW p \in Procs, InstallInferredSpansHooks(p)
      PROVE  JoinedInv'
  BY <1>13, MasterAssumption DEF InstallInferredSpansHooks, TypeOK, HookTypes, ProcessTypes,
        Places, JoinedInv, Joined, Alive, moduleEnabled, isSupported
<1>14. ASSUME NEW p \in Procs, RequestEnd(p)
      PROVE  JoinedInv'
  BY <1>14, MasterAssumption DEF RequestEnd, TypeOK, HookTypes, ProcessTypes, Places, JoinedInv,
        Joined, Alive, moduleEnabled, isSupported
<1>15. CASE UNCHANGED vars
  BY <1>15 DEF vars, TypeOK, HookTypes, ProcessTypes, Places, JoinedInv, Joined, Alive,
        moduleEnabled, isSupported
<1> QED
  BY <1>1, <1>2, <1>3, <1>4, <1>5, <1>6, <1>7, <1>8, <1>9, <1>10, <1>11, <1>12, <1>13, <1>14, <1>15 DEF Next

\* The chains of hooks stay whole.
LEMMA HookStep ==
    ASSUME TypeOK, JoinedInv, HookInv, [Next]_vars
    PROVE  HookInv'
<1> USE DEF perProcess, shared
<1>1. ASSUME NEW cfg \in Configs, ModuleInit(cfg)
      PROVE  HookInv'
  <2> DEFINE new == Hooked(hooking[Master], engine[Master], cfg)
  <2>1. /\ pc[Master] = "loading" /\ engine[Master] = Unhooked /\ ~hooking[Master].late
        /\ ~handlers[Master] /\ hooking[Master].original = NewHooking.original
    BY <1>1, MasterAssumption DEF ModuleInit, HookInv, Chained, Alive, JoinedInv, Joined
  <2>2. /\ new.hooking \in Hookings /\ new.engine \in Hooks
        /\ new.hooking.original = Unhooked /\ ~new.hooking.late
        /\ \A s \in Slots : new.engine[s] \in {"distro", Unhooked[s]}
    BY <2>1, HookedFacts, MasterAssumption DEF TypeOK, HookTypes
  <2>3. /\ pc' = [pc EXCEPT ![Master] = "loaded"] /\ others' = others /\ saved' = saved
        /\ config' = [config EXCEPT ![Master] = cfg] /\ sapi' = sapi
        /\ \/ UNCHANGED <<hooking, engine, handlers>>
           \/ /\ hooking' = [hooking EXCEPT ![Master] = new.hooking]
              /\ engine' = [engine EXCEPT ![Master] = new.engine]
              /\ handlers' = [handlers EXCEPT ![Master] = TRUE]
    BY <1>1 DEF ModuleInit
  <2>4. Unhooked' = Unhooked
    BY <2>3 DEF Unhooked
  <2>5. "distro" # "later" /\ \A s \in Slots : Unhooked[s] # "later" /\ Unhooked[s] # "distro"
    BY DEF Unhooked, Default
  <2> HIDE DEF new
  <2>6. Chained(Master)'
    BY <2>1, <2>2, <2>3, <2>4, <2>5, MasterAssumption DEF Chained, TypeOK, HookTypes
  <2>7. ASSUME NEW q \in Procs, q # Master
        PROVE  (Alive(q) => Chained(q))' /\ (pc[q] = "down" /\ moduleEnabled(config[q]) => engine[q] = Unhooked)'
    BY <2>3, <2>4, <2>7 DEF TypeOK, HookTypes, HookInv, Chained, Alive, moduleEnabled, isSupported
  <2>8. pc'[Master] = "loaded"
    BY <2>3, MasterAssumption DEF TypeOK, HookTypes
  <2> QED
    BY <2>6, <2>7, <2>8 DEF HookInv
<1>2. ASSUME NEW p \in Procs, LaterInit(p)
      PROVE  HookInv'
  BY <1>2, MasterAssumption DEF LaterInit, TypeOK, HookTypes, Places, HookInv, Chained, Alive,
        moduleEnabled, isSupported, Unhooked
<1>3. ASSUME NEW p \in Procs, ModuleShutdown(p)
      PROVE  HookInv'
  BY <1>3, MasterAssumption DEF ModuleShutdown, JoinedInv, Joined, TypeOK, HookTypes, Places,
        HookInv, Chained, Alive, moduleEnabled, isSupported, Unhooked
<1>4. ASSUME NEW p \in Procs, Die(p)
      PROVE  HookInv'
  BY <1>4, MasterAssumption DEF Die, TypeOK, HookTypes, Places, HookInv, Chained, Alive,
        moduleEnabled, isSupported, Unhooked
<1>5. ASSUME NEW p \in Procs, NEW c \in Procs, Fork(p, c)
      PROVE  HookInv'
  BY <1>5, MasterAssumption DEF Fork, TypeOK, HookTypes, Places, HookInv, Chained, Alive,
        moduleEnabled, isSupported, Unhooked
<1>6. ASSUME NEW p \in Procs, NEW file \in Files, NEW fails \in BOOLEAN, CompileFile(p, file, fails)
      PROVE  HookInv'
  BY <1>6, MasterAssumption DEF CompileFile, TypeOK, HookTypes, Places, HookInv, Chained, Alive,
        moduleEnabled, isSupported, Unhooked
<1>7. ASSUME NEW p \in Procs, LockSharably(p)
      PROVE  HookInv'
  BY <1>7, MasterAssumption DEF LockSharably, TypeOK, HookTypes, Places, HookInv, Chained,
        Alive, moduleEnabled, isSupported, Unhooked
<1>8. ASSUME NEW p \in Procs, ReadExecuted(p)
      PROVE  HookInv'
  BY <1>8, MasterAssumption DEF ReadExecuted, TypeOK, HookTypes, Places, HookInv, Chained,
        Alive, moduleEnabled, isSupported, Unhooked
<1>9. ASSUME NEW p \in Procs, LockExclusively(p)
      PROVE  HookInv'
  BY <1>9, MasterAssumption DEF LockExclusively, TypeOK, HookTypes, Places, HookInv, Chained,
        Alive, moduleEnabled, isSupported, Unhooked
<1>10. ASSUME NEW p \in Procs, Decide(p)
      PROVE  HookInv'
  BY <1>10, MasterAssumption DEF Decide, TypeOK, HookTypes, Places, HookInv, Chained, Alive,
        moduleEnabled, isSupported, Unhooked
<1>11. ASSUME NEW p \in Procs, NEW o \in OpcacheStates, NEW cfg \in Configs, RequestInit(p, cfg, o)
      PROVE  HookInv'
  BY <1>11, MasterAssumption DEF RequestInit, TypeOK, HookTypes, Places, HookInv, Chained,
        Alive, moduleEnabled, isSupported, Unhooked
<1>12. ASSUME NEW p \in Procs, NEW o \in OpcacheStates, NEW booted \in BOOLEAN, Boot(p, o, booted)
      PROVE  HookInv'
  BY <1>12, MasterAssumption DEF Boot, TypeOK, HookTypes, Places, HookInv, Chained, Alive,
        moduleEnabled, isSupported, Unhooked
<1>13. ASSUME NEW p \in Procs, InstallInferredSpansHooks(p)
      PROVE  HookInv'
  <2>1. /\ pc[p] = "initialised" /\ pc' = [pc EXCEPT ![p] = "request"]
        /\ UNCHANGED <<sapi, others, config, saved, handlers>>
    BY <1>13 DEF InstallInferredSpansHooks
  <2>2. CASE UNCHANGED <<engine, hooking>>
    BY <2>1, <2>2 DEF TypeOK, HookTypes, HookInv, Chained, Alive, moduleEnabled, isSupported, Unhooked
  <2>3. CASE /\ engine' = [engine EXCEPT ![p] = enableInferredSpansHooks(hooking[p], @)]
             /\ hooking' = [hooking EXCEPT ![p] = Installed(hooking[p])]
    <3>1. Unhooked' = Unhooked
      BY <2>1 DEF Unhooked
    <3>2. \A s \in Slots : engine'[p][s] =
              IF s \in Sampling /\ ~hooking[p].installed THEN "distro" ELSE engine[p][s]
      BY <2>3, EnabledFacts DEF TypeOK, HookTypes
    <3>3. /\ hooking'[p].original = hooking[p].original
          /\ hooking'[p].late = (hooking[p].late \/ ~hooking[p].installed)
      BY <2>3 DEF Installed, TypeOK, HookTypes
    <3>4. Chained(p)
      BY <2>1 DEF HookInv, Alive
    <3>5. pc'[p] = "request"
      BY <2>1 DEF TypeOK, HookTypes
    <3>6. Chained(p)'
      BY <2>1, <3>1, <3>2, <3>3, <3>4, <3>5 DEF Chained
    <3>7. ASSUME NEW q \in Procs, q # p
          PROVE  (Alive(q) => Chained(q))' /\ (pc[q] = "down" /\ moduleEnabled(config[q]) => engine[q] = Unhooked)'
      BY <2>1, <2>3, <3>1, <3>7 DEF TypeOK, HookTypes, HookInv, Chained, Alive, moduleEnabled, isSupported
    <3> QED
      BY <3>5, <3>6, <3>7 DEF HookInv
  <2> QED
    BY <1>13, <2>2, <2>3, InstallFacts
<1>14. ASSUME NEW p \in Procs, RequestEnd(p)
      PROVE  HookInv'
  BY <1>14, MasterAssumption DEF RequestEnd, TypeOK, HookTypes, Places, HookInv, Chained, Alive,
        moduleEnabled, isSupported, Unhooked
<1>15. CASE UNCHANGED vars
  BY <1>15 DEF vars, TypeOK, HookTypes, Places, HookInv, Chained, Alive, moduleEnabled,
        isSupported, Unhooked
<1> QED
  BY <1>1, <1>2, <1>3, <1>4, <1>5, <1>6, <1>7, <1>8, <1>9, <1>10, <1>11, <1>12, <1>13, <1>14, <1>15 DEF Next

-----------------------------------------------------------------------------
(* Tables and the guard *)

\* What onRequestInit does to the guard and to the number of requests.
LEMMA RequestFacts ==
    ASSUME TypeOK, NEW p \in Procs, NEW o \in OpcacheStates, NEW cfg \in Configs,
           RequestInit(p, cfg, o), request[p].counter > 0 => guard[p].vendorPath
    PROVE  /\ tables' = [tables EXCEPT ![p].preloading = o.preloading]
           /\ request'[p].counter > 0 => guard'[p].vendorPath
           /\ guard[p].vendorPath => guard'[p].vendorPath
           /\ pc'[p] \in {"asking", "booting"} => request'[p].counter > 0
           /\ pc'[p] \in {"asking", "booting", "initialised"}
           /\ ~request'[p].bootstrapped
           /\ guard'[p] = guard[p] \/ (guard'[p].lastClass = 0 /\ guard'[p].lastFunction = 0)
           /\ \A q \in Procs \ {p} : UNCHANGED <<pc[q], guard[q], request[q]>>
<1> DEFINE d == isSupported /\ cfg.enabled
           k == request[p].counter
           g == clear(IF k + 1 = 1 THEN setBootstrapPath(guard[p]) ELSE guard[p])
<1>1. guard[p] \in Guards /\ request[p] \in RequestState /\ k \in Nat
  BY DEF TypeOK, GuardTypes, ProcessTypes, RequestState
<1>2. /\ g \in Guards /\ g.lastClass = 0 /\ g.lastFunction = 0 /\ g.vendorPath
  <2>1. CASE k = 0
    <3>1. setBootstrapPath(guard[p]) \in Guards /\ setBootstrapPath(guard[p]).vendorPath = TRUE
      BY <1>1, ClearFacts
    <3>2. g = clear(setBootstrapPath(guard[p]))
      BY <2>1
    <3> QED
      BY <3>1, <3>2, ClearFacts
  <2>2. CASE k > 0
    <3>1. g = clear(guard[p]) /\ guard[p].vendorPath
      BY <1>1, <2>2
    <3> QED
      BY <1>1, <3>1, ClearFacts
  <2> QED
    BY <1>1, <2>1, <2>2
<1>3. (guard[p].vendorPath => g.vendorPath) /\ k + 1 > 0
  BY <1>1, <1>2
<1>4. /\ request'[p].counter = IF d THEN k + 1 ELSE k
      /\ request'[p].bootstrapped = FALSE
      /\ guard'[p] = IF d THEN g ELSE guard[p]
      /\ \A q \in Procs \ {p} : UNCHANGED <<pc[q], guard[q], request[q]>>
  BY DEF RequestInit, TypeOK, GuardTypes, ProcessTypes, HookTypes
<1>5. /\ ~d => pc'[p] = "initialised"
      /\ pc'[p] \in {"asking", "booting", "initialised"}
  BY DEF RequestInit, TypeOK, HookTypes
<1>6. tables' = [tables EXCEPT ![p].preloading = o.preloading]
  BY DEF RequestInit
<1> HIDE DEF d, g, k
<1> QED
  BY <1>1, <1>2, <1>3, <1>4, <1>5, <1>6 DEF k

\* The tables of a process at the start of a request.
LEMMA StartFacts ==
    ASSUME TypeOK, NEW p \in Procs, NEW x, tables' = [tables EXCEPT ![p].preloading = x]
    PROVE  \A q \in Procs : /\ tables'[q].class = tables[q].class
                            /\ tables'[q].function = tables[q].function
                            /\ tables'[q].kept = tables[q].kept
  BY DEF TypeOK, GuardTypes, Tables

\* A file that is not the distro's adds none of the distro to a table.
LEMMA NoneDeclared ==
    ASSUME NEW t \in Seq(Files), NEW file \in Files, NEW declaring,
           NoneOfDistro(t), file[1] # "distro"
    PROVE  NoneOfDistro(Declared(t, file, declaring))
<1> DEFINE r == Append(t, file)
<1>1. Len(t) \in Nat /\ Len(r) = Len(t) + 1 /\ r[Len(t) + 1] = file
  OBVIOUS
<1>2. \A i \in 1 .. Len(t) : r[i] = t[i]
  OBVIOUS
<1> HIDE DEF r
<1>3. NoneOfDistro(r)
  <2>1. SUFFICES ASSUME NEW i \in 1 .. Len(r) PROVE r[i][1] # "distro"
    BY DEF NoneOfDistro
  <2>2. i \in 1 .. Len(t) \/ i = Len(t) + 1
    BY <1>1
  <2> QED
    BY <1>1, <1>2, <2>2 DEF NoneOfDistro
<1> QED
  BY <1>3 DEF Declared, r

\* Compiling a file does not disturb what the guard has seen.
LEMMA SeenDeclared ==
    ASSUME NEW t \in Seq(Files), NEW file \in Files, NEW declaring, NEW g,
           NEW last \in Nat, Seen(g, t, last)
    PROVE  Seen(g, Declared(t, file, declaring), last)
<1> DEFINE r == Append(t, file)
<1>1. Len(t) \in Nat /\ Len(r) = Len(t) + 1
  OBVIOUS
<1>2. \A i \in 1 .. Len(t) : r[i] = t[i]
  OBVIOUS
<1> HIDE DEF r
<1>3. \A i \in 1 .. last : i \in 1 .. Len(t)
  BY <1>1 DEF Seen
<1>4. Seen(g, r, last)
  BY <1>1, <1>2, <1>3 DEF Seen
<1> QED
  BY <1>4 DEF Declared, r

\* Files are pairs of a place and a name.
LEMMA FilePairs ==
    ASSUME NEW t \in Seq(Files), NEW i \in 1 .. Len(t)
    PROVE  t[i] = <<t[i][1], t[i][2]>> /\ t[i][2] \in Names /\ t[i][1] \in {"distro", "app"}
<1>1. t[i] \in {"distro", "app"} \X Names
  BY FilesAssumption
<1> QED
  BY <1>1

\* After the guard has looked at the tables it knows all the distro's files there.
LEMMA SeenScanned ==
    ASSUME NEW g \in Guards, NEW t \in Tables,
           Seen(g, t.class, g.lastClass), Seen(g, t.function, g.lastFunction)
    PROVE  /\ Seen(Scanned(g, t), t.class, Len(t.class))
           /\ Seen(Scanned(g, t), t.function, Len(t.function))
<1> DEFINE found == getNewlyCompiledFiles(t, g.lastClass, g.lastFunction)
           new == Scanned(g, t).compiledFiles
<1>1. new = g.compiledFiles \cup {n \in Names \ Composer : <<"distro", n>> \in found}
  BY ScannedFacts
<1>2. /\ t.class \in Seq(Files) /\ t.function \in Seq(Files)
      /\ Len(t.class) \in Nat /\ Len(t.function) \in Nat
      /\ g.lastClass \in Nat /\ g.lastFunction \in Nat
  BY DEF Tables, Guards
<1>3. ASSUME NEW i \in 1 .. Len(t.class), t.class[i][1] = "distro", t.class[i][2] \notin Composer
      PROVE  t.class[i][2] \in new
  <2>1. t.class[i] = <<"distro", t.class[i][2]>> /\ t.class[i][2] \in Names
    BY <1>2, <1>3, FilePairs
  <2>2. CASE i \in 1 .. g.lastClass
    BY <1>1, <1>3, <2>2 DEF Seen
  <2>3. CASE i \notin 1 .. g.lastClass
    <3>1. i \in (g.lastClass + 1) .. Len(t.class)
      BY <1>2, <2>3
    <3>2. t.class[i] \in found
      BY <3>1 DEF getNewlyCompiledFiles
    <3> HIDE DEF found, new
    <3> QED
      BY <1>1, <1>3, <2>1, <3>2
  <2> QED
    BY <2>2, <2>3
<1>4. ASSUME NEW i \in 1 .. Len(t.function), t.function[i][1] = "distro", t.function[i][2] \notin Composer
      PROVE  t.function[i][2] \in new
  <2>1. t.function[i] = <<"distro", t.function[i][2]>> /\ t.function[i][2] \in Names
    BY <1>2, <1>4, FilePairs
  <2>2. CASE i \in 1 .. g.lastFunction
    BY <1>1, <1>4, <2>2 DEF Seen
  <2>3. CASE i \notin 1 .. g.lastFunction
    <3>1. i \in (g.lastFunction + 1) .. Len(t.function)
      BY <1>2, <2>3
    <3>2. t.function[i] \in found
      BY <3>1 DEF getNewlyCompiledFiles
    <3> HIDE DEF found, new
    <3> QED
      BY <1>1, <1>4, <2>1, <3>2
  <2> QED
    BY <2>2, <2>3
<1> QED
  BY <1>2, <1>3, <1>4 DEF Seen

\* A file may follow what is in a table when the distro's file of its name is not there.
LEMMA NoSecondDeclared ==
    ASSUME NEW t \in Seq(Files), NEW file \in Files, NEW declaring, NoSecondCopy(t),
           \A i \in 1 .. Len(t) :
               t[i][1] = "distro" /\ t[i][2] \notin Composer => file # <<"app", t[i][2]>>
    PROVE  NoSecondCopy(Declared(t, file, declaring))
<1> DEFINE r == Append(t, file)
<1>1. Len(t) \in Nat /\ Len(r) = Len(t) + 1 /\ r[Len(t) + 1] = file
  OBVIOUS
<1>2. \A i \in 1 .. Len(t) : r[i] = t[i]
  OBVIOUS
<1> HIDE DEF r
<1>3. NoSecondCopy(r)
  <2>1. SUFFICES ASSUME NEW i \in 1 .. Len(r), NEW j \in 1 .. Len(r), i < j,
                        r[i][1] = "distro", r[i][2] \notin Composer
                 PROVE  r[j] # <<"app", r[i][2]>>
    BY DEF NoSecondCopy
  <2>2. i \in 1 .. Len(t) /\ (j \in 1 .. Len(t) \/ j = Len(t) + 1)
    BY <1>1, <2>1
  <2>3. CASE j \in 1 .. Len(t)
    BY <1>2, <2>1, <2>2, <2>3 DEF NoSecondCopy
  <2>4. CASE j = Len(t) + 1
    BY <1>1, <1>2, <2>1, <2>2, <2>4
  <2> QED
    BY <2>2, <2>3, <2>4
<1> QED
  BY <1>3 DEF Declared, r

\* Tables with nothing in them.
LEMMA EmptyTables ==
    /\ NoneOfDistro(NewTables.class) /\ NoneOfDistro(NewTables.function)
    /\ NoneOfDistro(NewTables.kept.class) /\ NoneOfDistro(NewTables.kept.function)
    /\ NoSecondCopy(NewTables.class) /\ NoSecondCopy(NewTables.function)
    /\ NoSecondCopy(NewTables.kept.class) /\ NoSecondCopy(NewTables.kept.function)
    /\ NewTables.class = <<>> /\ NewTables.function = <<>>
<1>1. NoneOfDistro(<<>>) /\ NoSecondCopy(<<>>)
  BY DEF NoneOfDistro, NoSecondCopy
<1> QED
  BY <1>1 DEF NewTables, Empty

\* No file of the distro is compiled before the guard knows the path.
LEMMA PathStep ==
    ASSUME TypeOK, PathInv, [Next]_vars
    PROVE  PathInv'
<1> USE DEF perProcess, shared
<1>1. ASSUME NEW cfg \in Configs, ModuleInit(cfg)
      PROVE  PathInv'
  BY <1>1 DEF ModuleInit, TypeOK, HookTypes, ProcessTypes, GuardTypes, Places, PathInv, Alive
<1>2. ASSUME NEW p \in Procs, LaterInit(p)
      PROVE  PathInv'
  BY <1>2 DEF LaterInit, TypeOK, HookTypes, ProcessTypes, GuardTypes, Places, PathInv, Alive
<1>3. ASSUME NEW p \in Procs, ModuleShutdown(p)
      PROVE  PathInv'
  BY <1>3 DEF ModuleShutdown, Forgotten, TypeOK, HookTypes, ProcessTypes, GuardTypes, Places,
        PathInv, Alive
<1>4. ASSUME NEW p \in Procs, Die(p)
      PROVE  PathInv'
  BY <1>4 DEF Die, Forgotten, TypeOK, HookTypes, ProcessTypes, GuardTypes, Places, PathInv,
        Alive
<1>5. ASSUME NEW p \in Procs, NEW c \in Procs, Fork(p, c)
      PROVE  PathInv'
  BY <1>5 DEF Fork, TypeOK, HookTypes, ProcessTypes, GuardTypes, Places, PathInv, Alive
<1>6. ASSUME NEW p \in Procs, NEW file \in Files, NEW fails \in BOOLEAN, CompileFile(p, file, fails)
      PROVE  PathInv'
  <2>1. /\ pc[p] = "request" /\ (file[1] = "distro" => request[p].bootstrapped)
        /\ guard' = [guard EXCEPT ![p] = NewlyGuarded(p, file)]
        /\ NewlyGuarded(p, file).vendorPath = guard[p].vendorPath
        /\ tables' = tables \/ tables' = [tables EXCEPT ![p] = WithFile(tables[p], file)]
    BY <1>6, CompileFacts
  <2>2. UNCHANGED <<pc, request>>
    BY <1>6 DEF CompileFile
  <2>3. \A q \in Procs : guard'[q].vendorPath = guard[q].vendorPath
    BY <2>1 DEF TypeOK, GuardTypes
  <2>4. ASSUME ~guard[p].vendorPath
        PROVE  /\ NoneOfDistro(tables'[p].class) /\ NoneOfDistro(tables'[p].function)
               /\ NoneOfDistro(tables'[p].kept.class) /\ NoneOfDistro(tables'[p].kept.function)
    <3>1. /\ NoneOfDistro(tables[p].class) /\ NoneOfDistro(tables[p].function)
          /\ NoneOfDistro(tables[p].kept.class) /\ NoneOfDistro(tables[p].kept.function)
          /\ file[1] # "distro"
      BY <2>1, <2>4 DEF PathInv, Alive
    <3>2. tables[p].class \in Seq(Files) /\ tables[p].function \in Seq(Files)
      BY DEF TypeOK, GuardTypes, Tables
    <3>3. /\ NoneOfDistro(Declared(tables[p].class, file, Classes))
          /\ NoneOfDistro(Declared(tables[p].function, file, Functions))
      BY <3>1, <3>2, NoneDeclared
    <3> QED
      BY <2>1, <3>1, <3>3 DEF WithFile, TypeOK, GuardTypes
  <2>5. \A q \in Procs \ {p} : tables'[q] = tables[q] /\ guard'[q] = guard[q]
    BY <2>1 DEF TypeOK, GuardTypes
  <2> QED
    BY <2>1, <2>2, <2>3, <2>4, <2>5 DEF PathInv, Alive
<1>7. ASSUME NEW p \in Procs, LockSharably(p)
      PROVE  PathInv'
  BY <1>7 DEF LockSharably, TypeOK, HookTypes, ProcessTypes, GuardTypes, Places, PathInv, Alive
<1>8. ASSUME NEW p \in Procs, ReadExecuted(p)
      PROVE  PathInv'
  BY <1>8 DEF ReadExecuted, TypeOK, HookTypes, ProcessTypes, GuardTypes, Places, PathInv, Alive
<1>9. ASSUME NEW p \in Procs, LockExclusively(p)
      PROVE  PathInv'
  BY <1>9 DEF LockExclusively, TypeOK, HookTypes, ProcessTypes, GuardTypes, Places, PathInv,
        Alive
<1>10. ASSUME NEW p \in Procs, Decide(p)
      PROVE  PathInv'
  BY <1>10 DEF Decide, TypeOK, HookTypes, ProcessTypes, GuardTypes, Places, PathInv, Alive
<1>11. ASSUME NEW p \in Procs, NEW o \in OpcacheStates, NEW cfg \in Configs, RequestInit(p, cfg, o)
      PROVE  PathInv'
  <2>1. request[p].counter > 0 => guard[p].vendorPath
    BY <1>11 DEF RequestInit, PathInv, Alive
  <2>2. \A q \in Procs : /\ tables'[q].class = tables[q].class
                         /\ tables'[q].function = tables[q].function
                         /\ tables'[q].kept = tables[q].kept
    BY <1>11, <2>1, RequestFacts, StartFacts
  <2>3. \A q \in Procs \ {p} : tables'[q] = tables[q]
    BY <1>11 DEF RequestInit, TypeOK, GuardTypes
  <2>4. pc[p] \in {"fresh", "up"}
    BY <1>11 DEF RequestInit
  <2> QED
    BY <1>11, <2>1, <2>2, <2>3, <2>4, RequestFacts DEF PathInv, Alive
<1>12. ASSUME NEW p \in Procs, NEW o \in OpcacheStates, NEW booted \in BOOLEAN, Boot(p, o, booted)
      PROVE  PathInv'
  <2>1. /\ request' = [request EXCEPT ![p].bootstrapped = booted] /\ pc[p] = "booting"
        /\ pc' = [pc EXCEPT ![p] = "initialised"] /\ UNCHANGED <<tables, guard>>
    BY <1>12 DEF Boot
  <2>2. \A q \in Procs : request'[q].counter = request[q].counter
    BY <2>1 DEF TypeOK, ProcessTypes, RequestState
  <2>3. \A q \in Procs \ {p} : request'[q] = request[q] /\ pc'[q] = pc[q]
    BY <2>1 DEF TypeOK, ProcessTypes, HookTypes
  <2>4. pc'[p] = "initialised"
    BY <2>1 DEF TypeOK, HookTypes
  <2> QED
    BY <2>1, <2>2, <2>3, <2>4 DEF PathInv, Alive
<1>13. ASSUME NEW p \in Procs, InstallInferredSpansHooks(p)
      PROVE  PathInv'
  BY <1>13 DEF InstallInferredSpansHooks, TypeOK, HookTypes, ProcessTypes, GuardTypes, Places,
        PathInv, Alive
<1>14. ASSUME NEW p \in Procs, RequestEnd(p)
      PROVE  PathInv'
  <2>1. /\ pc[p] = "request" /\ pc' = [pc EXCEPT ![p] = "up"]
        /\ guard' = [guard EXCEPT ![p] = clear(@)]
        /\ request' = [request EXCEPT ![p].bootstrapped = FALSE]
    BY <1>14 DEF RequestEnd
  <2>2. \A q \in Procs \ {p} : UNCHANGED <<pc[q], guard[q], request[q], tables[q]>>
    BY <1>14, EndFacts, <2>1 DEF TypeOK, ProcessTypes, GuardTypes, HookTypes
  <2>3. /\ pc'[p] = "up" /\ guard'[p].vendorPath = guard[p].vendorPath
        /\ request'[p].counter = request[p].counter /\ request'[p].bootstrapped = FALSE
    BY <2>1, ClearFacts DEF TypeOK, ProcessTypes, GuardTypes, HookTypes, RequestState
  <2>4. /\ tables'[p].class = Kept(tables[p]).class /\ tables'[p].function = Kept(tables[p]).function
        /\ tables'[p].kept = Kept(tables[p])
    BY <1>14, EndFacts DEF TypeOK, GuardTypes
  <2>5. ~guard[p].vendorPath => NoneOfDistro(Kept(tables[p]).class) /\ NoneOfDistro(Kept(tables[p]).function)
    BY <2>1 DEF Kept, PathInv, Alive
  <2> QED
    BY <2>1, <2>2, <2>3, <2>4, <2>5 DEF PathInv, Alive
<1>15. CASE UNCHANGED vars
  BY <1>15 DEF vars, TypeOK, HookTypes, ProcessTypes, GuardTypes, Places, PathInv, Alive
<1> QED
  BY <1>1, <1>2, <1>3, <1>4, <1>5, <1>6, <1>7, <1>8, <1>9, <1>10, <1>11, <1>12, <1>13, <1>14, <1>15 DEF Next

\* The guard's positions in the tables mark what it knows.
LEMMA SeenStep ==
    ASSUME TypeOK, PathInv, SeenInv, [Next]_vars
    PROVE  SeenInv'
<1> USE DEF perProcess, shared
<1>1. ASSUME NEW cfg \in Configs, ModuleInit(cfg)
      PROVE  SeenInv'
  BY <1>1 DEF ModuleInit, TypeOK, HookTypes, GuardTypes, Places, SeenInv, Alive
<1>2. ASSUME NEW p \in Procs, LaterInit(p)
      PROVE  SeenInv'
  BY <1>2 DEF LaterInit, TypeOK, HookTypes, GuardTypes, Places, SeenInv, Alive
<1>3. ASSUME NEW p \in Procs, ModuleShutdown(p)
      PROVE  SeenInv'
  BY <1>3 DEF ModuleShutdown, Forgotten, TypeOK, HookTypes, GuardTypes, Places, SeenInv, Alive
<1>4. ASSUME NEW p \in Procs, Die(p)
      PROVE  SeenInv'
  BY <1>4 DEF Die, Forgotten, TypeOK, HookTypes, GuardTypes, Places, SeenInv, Alive
<1>5. ASSUME NEW p \in Procs, NEW c \in Procs, Fork(p, c)
      PROVE  SeenInv'
  BY <1>5 DEF Fork, TypeOK, HookTypes, GuardTypes, Places, SeenInv, Alive
<1>6. ASSUME NEW p \in Procs, NEW file \in Files, NEW fails \in BOOLEAN, CompileFile(p, file, fails)
      PROVE  SeenInv'
  <2>1. /\ pc[p] = "request" /\ guard' = [guard EXCEPT ![p] = NewlyGuarded(p, file)]
        /\ NewlyGuarded(p, file) \in Guards
        /\ tables' = tables \/ tables' = [tables EXCEPT ![p] = WithFile(tables[p], file)]
    BY <1>6, CompileFacts
  <2>2. pc' = pc
    BY <1>6 DEF CompileFile
  <2> DEFINE g == NewlyGuarded(p, file)
  <2>3. guard[p] \in Guards /\ tables[p] \in Tables
    BY DEF TypeOK, GuardTypes
  <2>4. /\ Seen(guard[p], tables[p].class, guard[p].lastClass)
        /\ Seen(guard[p], tables[p].function, guard[p].lastFunction)
    BY <2>1 DEF SeenInv, Alive
  <2>5. /\ Seen(g, tables[p].class, g.lastClass)
        /\ Seen(g, tables[p].function, g.lastFunction)
    BY <2>3, <2>4, SeenScanned, ScannedFacts DEF NewlyGuarded
  <2>6. /\ tables[p].class \in Seq(Files) /\ tables[p].function \in Seq(Files)
        /\ g.lastClass \in Nat /\ g.lastFunction \in Nat
    BY <2>1, <2>3 DEF Tables, Guards
  <2> HIDE DEF g
  <2>7. /\ Seen(g, Declared(tables[p].class, file, Classes), g.lastClass)
        /\ Seen(g, Declared(tables[p].function, file, Functions), g.lastFunction)
    BY <2>5, <2>6, SeenDeclared
  <2>8. guard'[p] = g /\ (tables'[p] = tables[p] \/ tables'[p] = WithFile(tables[p], file))
    BY <2>1 DEF g, TypeOK, GuardTypes
  <2>9. Seen(guard'[p], tables'[p].class, guard'[p].lastClass) /\ Seen(guard'[p], tables'[p].function, guard'[p].lastFunction)
    BY <2>5, <2>7, <2>8 DEF WithFile
  <2>10. \A q \in Procs \ {p} : tables'[q] = tables[q] /\ guard'[q] = guard[q]
    BY <2>1 DEF TypeOK, GuardTypes
  <2> QED
    BY <2>2, <2>9, <2>10 DEF SeenInv, Alive
<1>7. ASSUME NEW p \in Procs, LockSharably(p)
      PROVE  SeenInv'
  BY <1>7 DEF LockSharably, TypeOK, HookTypes, GuardTypes, Places, SeenInv, Alive
<1>8. ASSUME NEW p \in Procs, ReadExecuted(p)
      PROVE  SeenInv'
  BY <1>8 DEF ReadExecuted, TypeOK, HookTypes, GuardTypes, Places, SeenInv, Alive
<1>9. ASSUME NEW p \in Procs, LockExclusively(p)
      PROVE  SeenInv'
  BY <1>9 DEF LockExclusively, TypeOK, HookTypes, GuardTypes, Places, SeenInv, Alive
<1>10. ASSUME NEW p \in Procs, Decide(p)
      PROVE  SeenInv'
  BY <1>10 DEF Decide, TypeOK, HookTypes, GuardTypes, Places, SeenInv, Alive
<1>11. ASSUME NEW p \in Procs, NEW o \in OpcacheStates, NEW cfg \in Configs, RequestInit(p, cfg, o)
      PROVE  SeenInv'
  <2>1. request[p].counter > 0 => guard[p].vendorPath
    BY <1>11 DEF RequestInit, PathInv, Alive
  <2>2. \A q \in Procs : /\ tables'[q].class = tables[q].class
                         /\ tables'[q].function = tables[q].function
    BY <1>11, <2>1, RequestFacts, StartFacts
  <2>3. pc[p] \in {"fresh", "up"}
    BY <1>11 DEF RequestInit
  <2>4. Len(tables[p].class) \in Nat /\ Len(tables[p].function) \in Nat
    BY DEF TypeOK, GuardTypes, Tables
  <2>5. /\ Seen(guard[p], tables[p].class, guard[p].lastClass)
        /\ Seen(guard[p], tables[p].function, guard[p].lastFunction)
    BY <2>3 DEF SeenInv, Alive
  <2>6. /\ Seen(guard'[p], tables[p].class, 0)
        /\ Seen(guard'[p], tables[p].function, 0)
    BY <2>4 DEF Seen
  <2>7. /\ guard'[p] = guard[p] \/ (guard'[p].lastClass = 0 /\ guard'[p].lastFunction = 0)
        /\ \A q \in Procs \ {p} : UNCHANGED <<pc[q], guard[q], request[q]>>
    BY <1>11, <2>1, RequestFacts
  <2>8. /\ Seen(guard'[p], tables'[p].class, guard'[p].lastClass)
        /\ Seen(guard'[p], tables'[p].function, guard'[p].lastFunction)
    BY <2>2, <2>5, <2>6, <2>7
  <2> QED
    BY <2>2, <2>7, <2>8 DEF SeenInv, Alive
<1>12. ASSUME NEW p \in Procs, NEW o \in OpcacheStates, NEW booted \in BOOLEAN, Boot(p, o, booted)
      PROVE  SeenInv'
  BY <1>12 DEF Boot, TypeOK, HookTypes, GuardTypes, Places, SeenInv, Alive
<1>13. ASSUME NEW p \in Procs, InstallInferredSpansHooks(p)
      PROVE  SeenInv'
  BY <1>13 DEF InstallInferredSpansHooks, TypeOK, HookTypes, GuardTypes, Places, SeenInv, Alive
<1>14. ASSUME NEW p \in Procs, RequestEnd(p)
      PROVE  SeenInv'
  <2>1. guard' = [guard EXCEPT ![p] = clear(@)] /\ pc' = [pc EXCEPT ![p] = "up"]
    BY <1>14 DEF RequestEnd
  <2>2. guard'[p].lastClass = 0 /\ guard'[p].lastFunction = 0
    BY <2>1, ClearFacts DEF TypeOK, GuardTypes
  <2>3. /\ tables'[p].class = Kept(tables[p]).class /\ tables'[p].function = Kept(tables[p]).function
        /\ Kept(tables[p]) \in Compiled
    BY <1>14, EndFacts DEF TypeOK, GuardTypes
  <2>4. Len(tables'[p].class) \in Nat /\ Len(tables'[p].function) \in Nat
    BY <2>3 DEF Compiled
  <2>5. /\ Seen(guard'[p], tables'[p].class, guard'[p].lastClass)
        /\ Seen(guard'[p], tables'[p].function, guard'[p].lastFunction)
    BY <2>2, <2>4 DEF Seen
  <2>6. \A q \in Procs \ {p} : UNCHANGED <<pc[q], guard[q], tables[q]>>
    BY <1>14, EndFacts, <2>1 DEF TypeOK, GuardTypes, HookTypes
  <2> QED
    BY <2>5, <2>6 DEF SeenInv, Alive
<1>15. CASE UNCHANGED vars
  BY <1>15 DEF vars, TypeOK, HookTypes, GuardTypes, Places, SeenInv, Alive
<1> QED
  BY <1>1, <1>2, <1>3, <1>4, <1>5, <1>6, <1>7, <1>8, <1>9, <1>10, <1>11, <1>12, <1>13, <1>14, <1>15 DEF Next

\* The guard's hook is reached exactly when it is on top of the chain or was there
\* when the later extension came.
LEMMA GuardedIsCalled ==
    ASSUME TypeOK, HookInv, NEW p \in Procs, Alive(p)
    PROVE  Guarded(p) <=> "distro" \in Called(p, "compile_file")
<1> DEFINE e == engine[p]["compile_file"]
           u == Unhooked["compile_file"]
           sv == saved[p]["compile_file"]
<1>1. /\ u \in {"earlier", "compile"} /\ e \in {u, "distro", "later"}
      /\ e = "later" => sv \in {u, "distro"}
  BY DEF HookInv, Chained, Unhooked, Default, Slots
<1>2. "compile_file" \in Slots /\ Default["compile_file"] = "compile"
  BY DEF Slots, Default
<1>3. \A h \in {"earlier", "compile"} : Below(p, "compile_file", h) = "compile"
  BY <1>2 DEF Below
<1>4. Below(p, "compile_file", "later") = sv
  BY DEF Below
<1> HIDE DEF e, u, sv
<1>5. Guarded(p) <=> e = "distro" \/ (e = "later" /\ sv = "distro")
  BY DEF Guarded, e, sv
<1>6. CASE e = "distro"
  BY <1>5, <1>6 DEF Called, e
<1>7. CASE e = "later" /\ sv = "distro"
  BY <1>4, <1>5, <1>7 DEF Called, e
<1>8. CASE e = "later" /\ sv = u
  BY <1>1, <1>3, <1>4, <1>5, <1>8 DEF Called, e
<1>9. CASE e = u
  BY <1>1, <1>3, <1>5, <1>9 DEF Called, e
<1> QED
  BY <1>1, <1>6, <1>7, <1>8, <1>9

\* No second copy of a file gets into the tables.
LEMMA CopyStep ==
    ASSUME TypeOK, HookInv, PathInv, SeenInv, CopyInv, [Next]_vars
    PROVE  CopyInv'
<1> USE DEF perProcess, shared
<1>1. ASSUME NEW cfg \in Configs, ModuleInit(cfg)
      PROVE  CopyInv'
  <2>1. tables[Master] = NewTables
    BY <1>1, MasterAssumption DEF ModuleInit, PathInv, Alive
  <2>2. /\ tables' = tables /\ saved' = saved /\ pc[Master] = "loading"
        /\ \A q \in Procs \ {Master} : pc'[q] = pc[q] /\ engine'[q] = engine[q]
    BY <1>1, MasterAssumption DEF ModuleInit, TypeOK, HookTypes
  <2> QED
    BY <2>1, <2>2, EmptyTables DEF CopyInv, Alive, Guarded
<1>2. ASSUME NEW p \in Procs, LaterInit(p)
      PROVE  CopyInv'
  BY <1>2 DEF LaterInit, Slots, TypeOK, HookTypes, GuardTypes, Places, CopyInv, Alive, Guarded
<1>3. ASSUME NEW p \in Procs, ModuleShutdown(p)
      PROVE  CopyInv'
  BY <1>3 DEF ModuleShutdown, Forgotten, TypeOK, HookTypes, GuardTypes, Places, CopyInv, Alive,
        Guarded
<1>4. ASSUME NEW p \in Procs, Die(p)
      PROVE  CopyInv'
  BY <1>4 DEF Die, Forgotten, TypeOK, HookTypes, GuardTypes, Places, CopyInv, Alive, Guarded
<1>5. ASSUME NEW p \in Procs, NEW c \in Procs, Fork(p, c)
      PROVE  CopyInv'
  BY <1>5 DEF Fork, TypeOK, HookTypes, GuardTypes, Places, CopyInv, Alive, Guarded
<1>6. ASSUME NEW p \in Procs, NEW file \in Files, NEW fails \in BOOLEAN, CompileFile(p, file, fails)
      PROVE  CopyInv'
  <2>1. /\ pc[p] = "request" /\ guard' = [guard EXCEPT ![p] = NewlyGuarded(p, file)]
        /\ \/ tables' = tables
           \/ /\ tables' = [tables EXCEPT ![p] = WithFile(tables[p], file)]
              /\ ~ (/\ "distro" \in Called(p, "compile_file")
                    /\ asksTables(guard[p], file)
                    /\ file[2] \in Scanned(guard[p], tables[p]).compiledFiles)
    BY <1>6, CompileFacts
  <2>2. UNCHANGED <<pc, engine, saved>>
    BY <1>6 DEF CompileFile
  <2>3. CASE tables' = tables
    BY <2>2, <2>3 DEF CopyInv, Alive, Guarded
  <2>4. CASE tables' # tables
    <3>1. tables'[p] = WithFile(tables[p], file) /\ \A q \in Procs \ {p} : tables'[q] = tables[q]
      BY <2>1, <2>4 DEF TypeOK, GuardTypes
    <3>2. ASSUME Guarded(p)
          PROVE  /\ NoSecondCopy(tables'[p].class) /\ NoSecondCopy(tables'[p].function)
                 /\ NoSecondCopy(tables'[p].kept.class) /\ NoSecondCopy(tables'[p].kept.function)
      <4>1. /\ NoSecondCopy(tables[p].class) /\ NoSecondCopy(tables[p].function)
            /\ NoSecondCopy(tables[p].kept.class) /\ NoSecondCopy(tables[p].kept.function)
        BY <2>1, <3>2 DEF CopyInv, Alive
      <4>2. "distro" \in Called(p, "compile_file")
        BY <2>1, <3>2, GuardedIsCalled DEF Alive
      <4>3. /\ guard[p] \in Guards /\ tables[p] \in Tables
            /\ tables[p].class \in Seq(Files) /\ tables[p].function \in Seq(Files)
        BY DEF TypeOK, GuardTypes, Tables
      <4>4. /\ Seen(Scanned(guard[p], tables[p]), tables[p].class, Len(tables[p].class))
            /\ Seen(Scanned(guard[p], tables[p]), tables[p].function, Len(tables[p].function))
        BY <2>1, <4>3, SeenScanned DEF SeenInv, Alive
      <4>5. ASSUME NEW t \in Seq(Files), NEW i \in 1 .. Len(t),
                   Seen(Scanned(guard[p], tables[p]), t, Len(t)),
                   ~guard[p].vendorPath => NoneOfDistro(t),
                   t[i][1] = "distro", t[i][2] \notin Composer, file = <<"app", t[i][2]>>
            PROVE  FALSE
        <5>1. guard[p].vendorPath
          BY <4>5 DEF NoneOfDistro
        <5>2. file[1] = "app" /\ file[2] = t[i][2]
          BY <4>5
        <5>3. file[2] \in Scanned(guard[p], tables[p]).compiledFiles
          BY <4>5, <5>2 DEF Seen
        <5>4. asksTables(guard[p], file)
          BY <5>1, <5>2 DEF asksTables
        <5> QED
          BY <2>1, <2>4, <4>2, <5>3, <5>4
      <4>6. ~guard[p].vendorPath => NoneOfDistro(tables[p].class) /\ NoneOfDistro(tables[p].function)
        BY <2>1 DEF PathInv, Alive
      <4>7. /\ NoSecondCopy(Declared(tables[p].class, file, Classes))
            /\ NoSecondCopy(Declared(tables[p].function, file, Functions))
        BY <4>1, <4>3, <4>4, <4>5, <4>6, NoSecondDeclared
      <4> QED
        BY <3>1, <4>1, <4>7 DEF WithFile
    <3> QED
      BY <2>2, <3>1, <3>2 DEF CopyInv, Alive, Guarded
  <2> QED
    BY <2>3, <2>4
<1>7. ASSUME NEW p \in Procs, LockSharably(p)
      PROVE  CopyInv'
  BY <1>7 DEF LockSharably, TypeOK, HookTypes, GuardTypes, Places, CopyInv, Alive, Guarded
<1>8. ASSUME NEW p \in Procs, ReadExecuted(p)
      PROVE  CopyInv'
  BY <1>8 DEF ReadExecuted, TypeOK, HookTypes, GuardTypes, Places, CopyInv, Alive, Guarded
<1>9. ASSUME NEW p \in Procs, LockExclusively(p)
      PROVE  CopyInv'
  BY <1>9 DEF LockExclusively, TypeOK, HookTypes, GuardTypes, Places, CopyInv, Alive, Guarded
<1>10. ASSUME NEW p \in Procs, Decide(p)
      PROVE  CopyInv'
  BY <1>10 DEF Decide, TypeOK, HookTypes, GuardTypes, Places, CopyInv, Alive, Guarded
<1>11. ASSUME NEW p \in Procs, NEW o \in OpcacheStates, NEW cfg \in Configs, RequestInit(p, cfg, o)
      PROVE  CopyInv'
  <2>1. request[p].counter > 0 => guard[p].vendorPath
    BY <1>11 DEF RequestInit, PathInv, Alive
  <2>2. \A q \in Procs : /\ tables'[q].class = tables[q].class
                         /\ tables'[q].function = tables[q].function
                         /\ tables'[q].kept = tables[q].kept
    BY <1>11, <2>1, RequestFacts, StartFacts
  <2>3. pc[p] \in {"fresh", "up"} /\ UNCHANGED <<engine, saved>>
    BY <1>11 DEF RequestInit
  <2>4. \A q \in Procs \ {p} : pc'[q] = pc[q]
    BY <1>11 DEF RequestInit, TypeOK, HookTypes
  <2> QED
    BY <2>2, <2>3, <2>4 DEF CopyInv, Alive, Guarded
<1>12. ASSUME NEW p \in Procs, NEW o \in OpcacheStates, NEW booted \in BOOLEAN, Boot(p, o, booted)
      PROVE  CopyInv'
  BY <1>12 DEF Boot, TypeOK, HookTypes, GuardTypes, Places, CopyInv, Alive, Guarded
<1>13. ASSUME NEW p \in Procs, InstallInferredSpansHooks(p)
      PROVE  CopyInv'
  <2>1. UNCHANGED <<saved, tables>> /\ pc[p] = "initialised" /\ pc' = [pc EXCEPT ![p] = "request"]
    BY <1>13 DEF InstallInferredSpansHooks
  <2>2. /\ \A q \in Procs : engine'[q]["compile_file"] = engine[q]["compile_file"]
        /\ \A q \in Procs \ {p} : pc'[q] = pc[q]
    <3>1. "compile_file" \in Slots /\ "compile_file" \notin Sampling
      BY DEF Slots, Sampling
    <3>2. enableInferredSpansHooks(hooking[p], engine[p])["compile_file"] = engine[p]["compile_file"]
      BY <3>1, EnabledFacts DEF TypeOK, HookTypes
    <3> QED
      BY <1>13, <2>1, <3>2, InstallFacts DEF TypeOK, HookTypes
  <2> QED
    BY <2>1, <2>2 DEF CopyInv, Alive, Guarded
<1>14. ASSUME NEW p \in Procs, RequestEnd(p)
      PROVE  CopyInv'
  <2>1. /\ tables'[p].class = Kept(tables[p]).class /\ tables'[p].function = Kept(tables[p]).function
        /\ tables'[p].kept = Kept(tables[p])
        /\ \A q \in Procs \ {p} : tables'[q] = tables[q]
    BY <1>14, EndFacts DEF TypeOK, GuardTypes
  <2>2. pc[p] = "request" /\ UNCHANGED <<engine, saved>> /\ \A q \in Procs \ {p} : pc'[q] = pc[q]
    BY <1>14 DEF RequestEnd, TypeOK, HookTypes
  <2>3. Guarded(p) => NoSecondCopy(Kept(tables[p]).class) /\ NoSecondCopy(Kept(tables[p]).function)
    BY <2>2 DEF Kept, CopyInv, Alive
  <2> QED
    BY <2>1, <2>2, <2>3 DEF CopyInv, Alive, Guarded
<1>15. CASE UNCHANGED vars
  BY <1>15 DEF vars, TypeOK, HookTypes, GuardTypes, Places, CopyInv, Alive, Guarded
<1> QED
  BY <1>1, <1>2, <1>3, <1>4, <1>5, <1>6, <1>7, <1>8, <1>9, <1>10, <1>11, <1>12, <1>13, <1>14, <1>15 DEF Next

-----------------------------------------------------------------------------
(* Together *)

\* Before the master's MINIT.
LEMMA InitInv == Init => IInv
<1> SUFFICES ASSUME Init PROVE IInv
  OBVIOUS
<1>1. HookTypes
  BY Constants DEF Init, HookTypes, Places, Unhooked
<1>2. ProcessTypes /\ GuardTypes
  BY Constants DEF Init, ProcessTypes, GuardTypes
<1>3. SharedTypes
  <2>1. given \in Seq(Procs) /\ served \in Nat
    BY DEF Init
  <2> QED
    BY <2>1 DEF Init, SharedTypes
<1>4. TaskInv
  BY DEF Init, TaskInv
<1>5. JoinedInv
  BY MasterAssumption DEF Init, JoinedInv, Joined, Alive, NewRequest
<1>6. HookInv
  BY DEF Init, HookInv, Chained, Alive, Unhooked, NewHooking, Default
<1>7. PathInv
  BY EmptyTables DEF Init, PathInv, Alive, NewRequest
<1>8. SeenInv
  <2>1. Seen(NewGuard, NewTables.class, NewGuard.lastClass) /\ Seen(NewGuard, NewTables.function, NewGuard.lastFunction)
    BY EmptyTables DEF Seen, NewGuard
  <2> QED
    BY <2>1 DEF Init, SeenInv
<1>9. CopyInv
  BY EmptyTables DEF Init, CopyInv
<1> QED
  BY <1>1, <1>2, <1>3, <1>4, <1>5, <1>6, <1>7, <1>8, <1>9 DEF IInv, TypeOK

\* Every step keeps the invariant.
LEMMA Step ==
    ASSUME IInv, [Next]_vars
    PROVE  IInv'
<1>1. TypeOK'
  BY TypesStep DEF IInv
<1>2. TaskInv'
  BY TaskStep DEF IInv
<1>3. JoinedInv'
  BY JoinedStep DEF IInv
<1>4. HookInv'
  BY HookStep DEF IInv
<1>5. PathInv'
  BY PathStep DEF IInv
<1>6. SeenInv'
  BY SeenStep DEF IInv
<1>7. CopyInv'
  BY CopyStep DEF IInv
<1> QED
  BY <1>1, <1>2, <1>3, <1>4, <1>5, <1>6, <1>7 DEF IInv

\* What a chain of hooks calls.
LEMMA ChainCalls ==
    ASSUME TypeOK, HookInv, NEW p \in Procs, Alive(p), NEW s \in Slots
    PROVE  /\ Default[s] \in Called(p, s)
           /\ "earlier" \in others =>
                \/ "earlier" \in Called(p, s)
                \/ s \in Sampling /\ hooking[p].late /\ hooking[p].original[s] = "null"
           /\ "later" \in others /\ pc[p] \notin {"loading", "loaded"} =>
                \/ "later" \in Called(p, s)
                \/ s \in Sampling /\ hooking[p].late
<1> DEFINE e == engine[p][s]
           u == Unhooked[s]
           sv == saved[p][s]
           og == hooking[p].original[s]
           d == Default[s]
<1>1. /\ d \in {"null", "compile"} /\ (s \in Sampling => d = "null")
      /\ u = IF "earlier" \in others THEN "earlier" ELSE d
  BY DEF Unhooked, Default, Sampling
<1>2. /\ e \in {u, "distro", "later"}
      /\ e = "later" => sv = u \/ (sv = "distro" /\ handlers[p])
      /\ e = "distro" => handlers[p] \/ (s \in Sampling /\ hooking[p].late)
      /\ "later" \in others /\ pc[p] \notin {"loading", "loaded"} =>
             e = "later" \/ (s \in Sampling /\ hooking[p].late)
      /\ og = IF handlers[p] THEN u ELSE "null"
  BY DEF HookInv, Chained, NewHooking
<1>3. /\ Below(p, s, "later") = sv /\ Below(p, s, "distro") = og /\ Below(p, s, "earlier") = d
      /\ Below(p, s, d) = d
  BY <1>1 DEF Below
<1>4. Called(p, s) = {e, Below(p, s, e), Below(p, s, Below(p, s, e)),
                      Below(p, s, Below(p, s, Below(p, s, e)))}
  BY DEF Called
<1> HIDE DEF e, u, sv, og, d
<1>5. Below(p, s, u) = d
  BY <1>1, <1>3
<1>6. CASE e = u
  BY <1>1, <1>2, <1>3, <1>4, <1>5, <1>6 DEF d, e, og
<1>7. CASE e = "distro"
  BY <1>1, <1>2, <1>3, <1>4, <1>5, <1>7 DEF d, e, og
<1>8. CASE e = "later"
  BY <1>1, <1>2, <1>3, <1>4, <1>5, <1>8 DEF d, e, og
<1> QED
  BY <1>2, <1>6, <1>7, <1>8

-----------------------------------------------------------------------------
(* Theorems *)

\* The invariant holds in every state of every behaviour.
THEOREM Invariance == Spec => []IInv
  BY InitInv, Step, PTL DEF Spec

\* The state of the processes and the shared data keep their types.
THEOREM TypeCorrect == Spec => []TypeOK
  BY Invariance, PTL DEF IInv

\* However many workers ask shouldExecuteOneTimeTaskAmongWorkers, and in whatever
\* order they get the locks, exactly one of those answered was told to execute it.
THEOREM TaskGivenOnce == Spec => []OneTimeTaskGivenOnce
<1>1. IInv => OneTimeTaskGivenOnce
  <2> SUFFICES ASSUME TaskInv PROVE OneTimeTaskGivenOnce
    BY DEF IInv
  <2>1. CASE executed
    <3>1. Len(given) = 1 /\ given # <<>>
      BY <2>1 DEF TaskInv
    <3> QED
      BY <3>1 DEF OneTimeTaskGivenOnce
  <2>2. CASE ~executed
    <3>1. given = <<>> /\ asked = {}
      BY <2>2 DEF TaskInv
    <3> QED
      BY <3>1 DEF OneTimeTaskGivenOnce
  <2> QED
    BY <2>1, <2>2
<1> QED
  BY <1>1, Invariance, PTL

\* Forks at any point, of any process that has the module loaded, leave workers
\* that are known to the coordinator and have the thread of their executor.
THEOREM WholeAfterFork == Spec => []ForkedWorkersAreWhole
<1>1. IInv => ForkedWorkersAreWhole
  BY DEF IInv, JoinedInv, Joined, ForkedWorkersAreWhole
<1> QED
  BY <1>1, Invariance, PTL

\* The hooks of other extensions and the engine's own functions are reached in
\* every process and at every moment, but for the two gaps OtherHooksStillRun names.
THEOREM HooksReached == Spec => []OtherHooksStillRun
<1>1. IInv => OtherHooksStillRun
  BY ChainCalls DEF IInv, HookInv, OtherHooksStillRun
<1> QED
  BY <1>1, Invariance, PTL

\* With the guard's hook in place no copy of the application follows the distro's
\* file of the same name, for any files, requests, preloading and forks.
THEOREM NoFileTwice == Spec => []OneCopyOfEachFile
<1>1. IInv => OneCopyOfEachFile
  BY GuardedIsCalled DEF IInv, CopyInv, NoSecondCopy, OneCopyOfEachFile
<1> QED
  BY <1>1, Invariance, PTL
=============================================================================
