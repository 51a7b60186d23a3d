---------------------------- MODULE RemoteConfig ----------------------------
(***************************************************************************)
(* The way of a remote configuration from the OpAMP server to the PHP      *)
(* processes.  In the coordinator, the HTTP thread passes an answer to     *)
(* OpAmp::handleServerToAgent, which stores the files in shared memory     *)
(* under an exclusive lock and then updates the coordinator's own          *)
(* configuration.  A PHP process looks at the shared revision when a       *)
(* request starts, takes the files under a sharable lock and applies them. *)
(*                                                                         *)
(* Processes may die at any point; the locks live in shared memory and     *)
(* stay as they are.                                                       *)
(*                                                                         *)
(* Every process here watches the configuration: one that was disabled     *)
(* when it started, or runs under an unsupported SAPI, registers no        *)
(* watcher (moduleInit) or never gets to this point (onRequestInit), takes *)
(* nothing over and holds no lock.                                         *)
(***************************************************************************)
EXTENDS Integers

CONSTANTS Workers,     \* PHP processes
          Configs,     \* hashes of the configurations the server may offer
          Files,       \* Files[c]: file name -> content
          NoHash,      \* the empty hash
          MaxRevision  \* bound: revisions of the shared configuration

ASSUME NoHashAssumption == NoHash \notin Configs
ASSUME MaxRevisionAssumption == MaxRevision \in Nat \ {0}

VARIABLES
    hash,         \* OpAmp::currentConfigHash_
    configFiles,  \* OpAmp::configFiles_
    hpc,          \* where the coordinator's HTTP thread is; "dead" without it
    todo,         \* files that storeConfigFiles has still to store
    writer,       \* the shared mutex is locked, or waited for, exclusively
    readers,      \* processes that hold it sharably
    revision,     \* SharedData::configRevision
    shared,       \* SharedData::configFiles
    coordinated,  \* remoteConfigFiles of the coordinator's own configuration
    reported,     \* history: the hash last reported as APPLIED
    published,    \* history: the shared files at the end of each revision
    wpc,          \* where each PHP process is
    localRevision,\* localConfigRevision_ of each PHP process
    managed,      \* remoteConfigFiles of its ConfigurationManager
    snapshot      \* remoteConfigFiles of its ConfigurationStorage

opAmpVars == <<hash, configFiles, hpc, todo, coordinated, reported>>
sharedVars == <<writer, revision, shared, published>>
workerVars == <<wpc, localRevision, managed, snapshot>>
vars == <<hash, configFiles, hpc, todo, writer, readers, revision, shared, coordinated,
          reported, published, wpc, localRevision, managed, snapshot>>

NoFiles == [n \in {} |-> NoHash]

-----------------------------------------------------------------------------
(* The coordinator.  handleServerToAgent holds configAccessMutex_ from the
   comparison of the hashes until the watchers have returned. *)

\* An answer with a remote configuration that is not the current one.
HandleRemoteConfig(c) ==
    /\ hpc = "idle"
    /\ revision < MaxRevision
    /\ hash # c
    /\ hash' = c
    /\ configFiles' = Files[c]
    /\ hpc' = "locking"
    /\ UNCHANGED <<todo, coordinated, reported, sharedVars, readers, workerVars>>

\* storeConfigFiles asks for the exclusive lock: the upgradable mutex of Boost
\* lets no new reader in from here on ...
LockExclusively ==
    /\ hpc = "locking"
    /\ writer' = TRUE
    /\ hpc' = "waiting"
    /\ UNCHANGED <<hash, configFiles, todo, coordinated, reported, readers, revision,
                   shared, published, workerVars>>

\* ... and when the last one has left, a new revision starts.
StartRevision ==
    /\ hpc = "waiting"
    /\ readers = {}
    /\ revision' = revision + 1
    /\ todo' = DOMAIN configFiles
    /\ hpc' = "storing"
    /\ UNCHANGED <<hash, configFiles, coordinated, reported, writer, readers, shared,
                   published, workerVars>>

\* insert_or_assign of one file.
StoreFile(n) ==
    /\ hpc = "storing"
    /\ n \in todo
    /\ shared' = [m \in DOMAIN shared \cup {n} |->
                      IF m = n THEN configFiles[n] ELSE shared[m]]
    /\ todo' = todo \ {n}
    /\ UNCHANGED <<hash, configFiles, hpc, coordinated, reported, writer, readers,
                   revision, published, workerVars>>

\* Mutant of Unlock: the lock is left to the next revision.
UnlockForgotten ==
    /\ hpc = "storing"
    /\ todo = {}
    /\ published' = [r \in DOMAIN published \cup {revision} |->
                         IF r = revision THEN shared ELSE published[r]]
    /\ hpc' = "updating"
    /\ UNCHANGED <<hash, configFiles, todo, coordinated, reported, writer, readers,
                   revision, shared, workerVars>>

\* The end of storeConfigFiles.
Unlock ==
    /\ hpc = "storing"
    /\ todo = {}
    /\ writer' = FALSE
    /\ published' = [r \in DOMAIN published \cup {revision} |->
                         IF r = revision THEN shared ELSE published[r]]
    /\ hpc' = "updating"
    /\ UNCHANGED <<hash, configFiles, todo, coordinated, reported, readers, revision,
                   shared, workerVars>>

\* configManager_->update(configFiles); config_->update().
UpdateCoordinator ==
    /\ hpc = "updating"
    /\ coordinated' = configFiles
    /\ hpc' = "idle"
    /\ UNCHANGED <<hash, configFiles, todo, reported, sharedVars, readers, workerVars>>

\* Mutant of SendHeartbeat: the hash is read without configAccessMutex_.
SendHeartbeatUnlocked ==
    /\ hpc # "dead"
    /\ hash # NoHash
    /\ reported' = hash
    /\ UNCHANGED <<hash, configFiles, hpc, todo, coordinated, sharedVars, readers,
                   workerVars>>

\* sendHeartbeat reports the current hash as APPLIED.
SendHeartbeat ==
    /\ hpc = "idle"
    /\ hash # NoHash
    /\ reported' = hash
    /\ UNCHANGED <<hash, configFiles, hpc, todo, coordinated, sharedVars, readers,
                   workerVars>>

\* The coordinator is killed, or the shared memory is used up and the exception
\* of storeConfigFiles, which nobody catches, terminates it.
CoordinatorDies ==
    /\ hpc # "dead"
    /\ hpc' = "dead"
    /\ UNCHANGED <<hash, configFiles, todo, coordinated, reported, sharedVars, readers,
                   workerVars>>

-----------------------------------------------------------------------------
(* PHP processes *)

\* A process forks; the child has its parent's configuration and revision.
Fork(p, w) ==
    /\ wpc[p] = "idle" /\ wpc[w] = "unborn"
    /\ wpc' = [wpc EXCEPT ![w] = "idle"]
    /\ localRevision' = [localRevision EXCEPT ![w] = localRevision[p]]
    /\ managed' = [managed EXCEPT ![w] = managed[p]]
    /\ snapshot' = [snapshot EXCEPT ![w] = snapshot[p]]
    /\ UNCHANGED <<opAmpVars, sharedVars, readers>>

\* onRequestInit calls triggerUpdateIfChanged.
RequestInit(w) ==
    /\ wpc[w] = "idle"
    /\ wpc' = [wpc EXCEPT ![w] = "locking"]
    /\ UNCHANGED <<opAmpVars, sharedVars, readers, localRevision, managed, snapshot>>

\* Mutant of LockSharably: the exclusive lock is not respected.
LockSharablyAnyway(w) ==
    /\ wpc[w] = "locking"
    /\ readers' = readers \cup {w}
    /\ wpc' = [wpc EXCEPT ![w] = "reading"]
    /\ UNCHANGED <<opAmpVars, sharedVars, localRevision, managed, snapshot>>

LockSharably(w) ==
    /\ wpc[w] = "locking"
    /\ ~writer
    /\ readers' = readers \cup {w}
    /\ wpc' = [wpc EXCEPT ![w] = "reading"]
    /\ UNCHANGED <<opAmpVars, sharedVars, localRevision, managed, snapshot>>

\* Mutant of TriggerUpdateIfChanged: an older revision is not "changed".
TriggerUpdateOnce(w) ==
    /\ wpc[w] = "reading"
    /\ localRevision' = [localRevision EXCEPT ![w] = revision]
    /\ IF localRevision[w] = 0
       THEN managed' = [managed EXCEPT ![w] = shared]
       ELSE UNCHANGED managed
    /\ readers' = readers \ {w}
    /\ wpc' = [wpc EXCEPT ![w] = "updating"]
    /\ UNCHANGED <<opAmpVars, sharedVars, snapshot>>

\* triggerUpdateIfChanged compares the revisions, passes the shared files to the
\* process's ConfigurationManager, and unlocks.
TriggerUpdateIfChanged(w) ==
    /\ wpc[w] = "reading"
    /\ localRevision' = [localRevision EXCEPT ![w] = revision]
    /\ IF localRevision[w] # revision
       THEN managed' = [managed EXCEPT ![w] = shared]
       ELSE UNCHANGED managed
    /\ readers' = readers \ {w}
    /\ wpc' = [wpc EXCEPT ![w] = "updating"]
    /\ UNCHANGED <<opAmpVars, sharedVars, snapshot>>

\* config_->update(); the request runs with this snapshot.
UpdateStorage(w) ==
    /\ wpc[w] = "updating"
    /\ snapshot' = [snapshot EXCEPT ![w] = managed[w]]
    /\ wpc' = [wpc EXCEPT ![w] = "idle"]
    /\ UNCHANGED <<opAmpVars, sharedVars, readers, localRevision, managed>>

WorkerDies(w) ==
    /\ wpc[w] \notin {"unborn", "dead"}
    /\ wpc' = [wpc EXCEPT ![w] = "dead"]
    /\ UNCHANGED <<opAmpVars, sharedVars, readers, localRevision, managed, snapshot>>

-----------------------------------------------------------------------------
\* One PHP process has loaded the extension and forked the coordinator.
Init ==
    /\ hash = NoHash
    /\ configFiles = NoFiles
    /\ hpc = "idle"
    /\ todo = {}
    /\ writer = FALSE
    /\ readers = {}
    /\ revision = 1
    /\ shared = NoFiles
    /\ coordinated = NoFiles
    /\ reported = NoHash
    /\ published = [r \in {0, 1} |-> NoFiles]
    /\ \E master \in Workers :
           wpc = [w \in Workers |-> IF w = master THEN "idle" ELSE "unborn"]
    /\ localRevision = [w \in Workers |-> 0]
    /\ managed = [w \in Workers |-> NoFiles]
    /\ snapshot = [w \in Workers |-> NoFiles]

HttpThread ==
    \/ LockExclusively \/ StartRevision
    \/ \E n \in todo : StoreFile(n)
    \/ Unlock
    \/ UpdateCoordinator

WorkerStep(w) == LockSharably(w) \/ TriggerUpdateIfChanged(w) \/ UpdateStorage(w)

Next ==
    \/ \E c \in Configs : HandleRemoteConfig(c)
    \/ HttpThread
    \/ SendHeartbeat
    \/ CoordinatorDies
    \/ \E p, w \in Workers : Fork(p, w)
    \/ \E w \in Workers : RequestInit(w) \/ WorkerStep(w) \/ WorkerDies(w)

Spec == Init /\ [][Next]_vars

\* The HTTP thread and a PHP process inside onRequestInit go on, and requests
\* keep coming.
FairSpec == /\ Spec
            /\ WF_vars(HttpThread)
            /\ \A w \in Workers : WF_vars(WorkerStep(w)) /\ WF_vars(RequestInit(w))

-----------------------------------------------------------------------------
(* Properties *)

Names == UNION {DOMAIN Files[c] : c \in Configs}

IsFileMap(f) == DOMAIN f \subseteq Names

\* Types of OpAmp's fields, of the shared data and of the processes' copies.
TypeOK ==
    /\ hash \in Configs \cup {NoHash}
    /\ reported \in Configs \cup {NoHash}
    /\ IsFileMap(configFiles) /\ IsFileMap(shared) /\ IsFileMap(coordinated)
    /\ hpc \in {"idle", "locking", "waiting", "storing", "updating", "dead"}
    /\ todo \subseteq Names
    /\ writer \in BOOLEAN
    /\ readers \subseteq Workers
    /\ revision \in 1 .. MaxRevision
    /\ DOMAIN published \subseteq 0 .. revision
    /\ \A r \in DOMAIN published : IsFileMap(published[r])
    /\ wpc \in [Workers -> {"unborn", "idle", "locking", "reading", "updating", "dead"}]
    /\ localRevision \in [Workers -> 0 .. revision]
    /\ \A w \in Workers : IsFileMap(managed[w]) /\ IsFileMap(snapshot[w])

\* triggerUpdateIfChanged never picks up a half-stored configuration, also not
\* when the coordinator dies inside storeConfigFiles: what a process applies is
\* what the shared memory held at the end of the revision it remembers, and two
\* processes with the same revision have the same files.
WorkersSeeWholeRevisions ==
    \A w \in Workers : /\ localRevision[w] \in DOMAIN published
                       /\ managed[w] = published[localRevision[w]]

Includes(f, g) == \A n \in DOMAIN g : n \in DOMAIN f /\ f[n] = g[n]

\* The hash that sendHeartbeat reports to the server as APPLIED is one whose
\* files the PHP processes can get from the shared memory and the coordinator's
\* own configuration has taken over, until a later configuration replaces it.
ReportedIsApplied ==
    reported # NoHash =>
        /\ \E r \in DOMAIN published : Includes(published[r], Files[reported])
        /\ hash = reported /\ hpc = "idle" =>
               coordinated = Files[reported] /\ Includes(shared, Files[reported])

\* Somebody died holding the shared mutex.
LockLost == (hpc = "dead" /\ writer) \/ \E w \in readers : wpc[w] = "dead"

\* A request's start waits for the configuration for ever only when a process
\* died holding the mutex.
RequestInitReturns ==
    \A w \in Workers :
        (wpc[w] = "locking") ~> (wpc[w] \in {"idle", "dead"} \/ LockLost)

\* A configuration that stays the current one arrives at every PHP process that
\* goes on serving requests.
ConfigArrives ==
    \A c \in Configs : \A w \in Workers :
        <>[](hash = c /\ hpc # "dead" /\ ~LockLost)
            => <>[](wpc[w] \in {"unborn", "dead"} \/ Includes(snapshot[w], Files[c]))

\* A consumer is "Called ... with the full file map" of the "remote configuration
\* received via OpAMP" (RemoteConfigConsumerInterface.php:19-21): a process that
\* has taken over the latest revision has the files of the current configuration.
FullFileMap ==
    \A w \in Workers :
        (/\ hpc = "idle" /\ hash # NoHash
         /\ wpc[w] = "idle" /\ localRevision[w] = revision)
            => snapshot[w] = Files[hash]
=============================================================================
