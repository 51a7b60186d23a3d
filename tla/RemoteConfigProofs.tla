------------------------- MODULE RemoteConfigProofs -------------------------
(***************************************************************************)
(* Theorems about RemoteConfig, for any number of PHP processes and of     *)
(* revisions and any configurations, with deaths at any point; and about   *)
(* Configuration, for any sources and any configurations that arrive.      *)
(***************************************************************************)
EXTENDS RemoteConfig, Configuration, NaturalsInduction, WellFoundedInduction, TLAPS

\* What is in the shared memory was there at the end of the current revision.
Settled == revision \in DOMAIN published /\ published[revision] = shared

\* The shared mutex: who holds it, and that files are half-stored only under the
\* exclusive lock, which a coordinator that died while storing never gives back.
LockInv ==
    /\ hpc \in {"waiting", "storing"} => writer
    /\ hpc \in {"idle", "locking", "updating"} => ~writer
    /\ \A w \in Workers : wpc[w] = "reading" => w \in readers
    /\ Settled \/ (writer /\ readers = {} /\ hpc \in {"storing", "dead"})
    /\ hpc = "storing" => readers = {} /\ revision \notin DOMAIN published
    /\ hpc \in {"locking", "waiting"} => revision < MaxRevision

\* The configurations of the PHP processes are functions.
CopiesInv == DOMAIN managed = Workers /\ DOMAIN snapshot = Workers

\* How far the current configuration has come.
ProgressInv ==
    /\ hash # NoHash => configFiles = Files[hash]
    /\ hpc \in {"locking", "waiting", "storing", "updating"} => hash # NoHash
    /\ hpc = "storing" =>
           /\ todo \subseteq DOMAIN configFiles
           /\ \A n \in DOMAIN configFiles \ todo : n \in DOMAIN shared /\ shared[n] = configFiles[n]
    /\ hpc = "updating" => Includes(shared, configFiles)
    /\ hpc = "idle" /\ hash # NoHash => coordinated = Files[hash] /\ Includes(shared, Files[hash])

\* A revision with the files of the reported configuration was published.
ReportedInv ==
    reported # NoHash => \E r \in DOMAIN published : Includes(published[r], Files[reported])

\* The parts of TypeOK.
OpAmpTypes ==
    /\ hash \in Configs \cup {NoHash} /\ reported \in Configs \cup {NoHash}
    /\ IsFileMap(configFiles) /\ IsFileMap(coordinated)
    /\ hpc \in {"idle", "locking", "waiting", "storing", "updating", "dead"}
    /\ todo \subseteq Names

SharedTypes ==
    /\ IsFileMap(shared) /\ writer \in BOOLEAN /\ readers \subseteq Workers
    /\ revision \in 1 .. MaxRevision /\ DOMAIN published \subseteq 0 .. revision
    /\ \A r \in DOMAIN published : IsFileMap(published[r])

WorkerTypes ==
    /\ wpc \in [Workers -> {"unborn", "idle", "locking", "reading", "updating", "dead"}]
    /\ localRevision \in [Workers -> 0 .. revision]
    /\ \A w \in Workers : IsFileMap(managed[w]) /\ IsFileMap(snapshot[w])

\* The type invariant in three parts.
LEMMA TypeParts == TypeOK <=> OpAmpTypes /\ SharedTypes /\ WorkerTypes
  BY DEF TypeOK, OpAmpTypes, SharedTypes, WorkerTypes

\* The same parts after a step.
LEMMA TypePartsNext == TypeOK' <=> OpAmpTypes' /\ SharedTypes' /\ WorkerTypes'
  BY DEF TypeOK, OpAmpTypes, SharedTypes, WorkerTypes

IInv == /\ TypeOK /\ LockInv /\ CopiesInv /\ ProgressInv /\ ReportedInv
        /\ WorkersSeeWholeRevisions

-----------------------------------------------------------------------------
(* The invariant holds at first and is kept by every step *)

\* The state after the extension was loaded and the coordinator forked.
LEMMA InitInv == Init => IInv
<1> SUFFICES ASSUME Init PROVE IInv
  OBVIOUS
<1>0. DOMAIN NoFiles = {}
  BY DEF NoFiles
<1>1. OpAmpTypes
  BY <1>0 DEF Init, OpAmpTypes, IsFileMap
<1>2. SharedTypes
  <2>1. /\ revision \in 1 .. MaxRevision /\ DOMAIN published = {0, 1} /\ revision = 1
        /\ \A r \in {0, 1} : published[r] = NoFiles
    BY MaxRevisionAssumption DEF Init
  <2>2. shared = NoFiles /\ writer = FALSE /\ readers = {}
    BY DEF Init
  <2> QED
    BY <1>0, <2>1, <2>2 DEF SharedTypes, IsFileMap
<1>3. WorkerTypes
  BY <1>0 DEF Init, WorkerTypes, IsFileMap
<1>4. LockInv
  BY DEF Init, LockInv, Settled
<1>5. CopiesInv /\ ProgressInv /\ ReportedInv
  BY <1>0 DEF Init, CopiesInv, ProgressInv, ReportedInv
<1>6. WorkersSeeWholeRevisions
  BY DEF Init, WorkersSeeWholeRevisions
<1> QED
  BY <1>1, <1>2, <1>3, <1>4, <1>5, <1>6, TypeParts DEF IInv

\* Every step keeps the invariant.
LEMMA Step ==
    ASSUME IInv, [Next]_vars
    PROVE  IInv'
<1> USE DEF opAmpVars, sharedVars, workerVars
<1>0. /\ OpAmpTypes /\ SharedTypes /\ WorkerTypes
      /\ LockInv /\ CopiesInv /\ ProgressInv /\ ReportedInv /\ WorkersSeeWholeRevisions
  BY TypeParts DEF IInv
<1>1. CASE \E c \in Configs : HandleRemoteConfig(c)
  <2>0. PICK c \in Configs : HandleRemoteConfig(c)
    BY <1>1
  <2>1. OpAmpTypes'
    <3>1. DOMAIN Files[c] \subseteq Names
      BY <2>0 DEF Names
    <3> QED
      BY <2>0, <3>1, <1>0 DEF OpAmpTypes, IsFileMap, HandleRemoteConfig
  <2>2. SharedTypes'
    BY <2>0, <1>0 DEF SharedTypes, IsFileMap, HandleRemoteConfig
  <2>3. WorkerTypes'
    BY <2>0, <1>0 DEF WorkerTypes, SharedTypes, IsFileMap, HandleRemoteConfig
  <2>4. LockInv'
    BY <2>0, <1>0 DEF LockInv, Settled, WorkerTypes, SharedTypes, HandleRemoteConfig
  <2>5. CopiesInv'
    BY <2>0, <1>0 DEF CopiesInv, HandleRemoteConfig
  <2>6. ProgressInv'
    BY <2>0, NoHashAssumption DEF ProgressInv, HandleRemoteConfig
  <2>7. ReportedInv'
    BY <2>0, <1>0 DEF ReportedInv, HandleRemoteConfig
  <2>8. WorkersSeeWholeRevisions'
    BY <2>0, <1>0 DEF WorkersSeeWholeRevisions, HandleRemoteConfig
  <2> QED
    BY <2>1, <2>2, <2>3, <2>4, <2>5, <2>6, <2>7, <2>8, TypePartsNext DEF IInv
<1>2. CASE LockExclusively
  <2>1. OpAmpTypes'
    BY <1>2, <1>0 DEF OpAmpTypes, IsFileMap, LockExclusively
  <2>2. SharedTypes'
    BY <1>2, <1>0 DEF SharedTypes, IsFileMap, LockExclusively
  <2>3. WorkerTypes'
    BY <1>2, <1>0 DEF WorkerTypes, SharedTypes, IsFileMap, LockExclusively
  <2>4. LockInv'
    BY <1>2, <1>0 DEF LockInv, Settled, WorkerTypes, SharedTypes, LockExclusively
  <2>5. CopiesInv'
    BY <1>2, <1>0 DEF CopiesInv, LockExclusively
  <2>6. ProgressInv'
    BY <1>2, <1>0 DEF ProgressInv, Includes, LockExclusively
  <2>7. ReportedInv'
    BY <1>2, <1>0 DEF ReportedInv, LockExclusively
  <2>8. WorkersSeeWholeRevisions'
    BY <1>2, <1>0 DEF WorkersSeeWholeRevisions, LockExclusively
  <2> QED
    BY <2>1, <2>2, <2>3, <2>4, <2>5, <2>6, <2>7, <2>8, TypePartsNext DEF IInv
<1>3. CASE StartRevision
  <2>1. OpAmpTypes'
    BY <1>3, <1>0 DEF OpAmpTypes, IsFileMap, StartRevision
  <2>2. SharedTypes'
    <3>1. revision' = revision + 1 /\ revision < MaxRevision
      BY <1>3, <1>0 DEF StartRevision, LockInv
    <3>2. revision' \in 1 .. MaxRevision /\ 0 .. revision \subseteq 0 .. revision'
      BY <3>1, <1>0, MaxRevisionAssumption DEF SharedTypes
    <3> QED
      BY <1>3, <1>0, <3>2 DEF SharedTypes, IsFileMap, StartRevision
  <2>3. WorkerTypes'
    BY <1>3, <1>0 DEF WorkerTypes, SharedTypes, IsFileMap, StartRevision
  <2>4. LockInv'
    BY <1>3, <1>0 DEF LockInv, Settled, WorkerTypes, SharedTypes, StartRevision
  <2>5. CopiesInv'
    BY <1>3, <1>0 DEF CopiesInv, StartRevision
  <2>6. ProgressInv'
    BY <1>3, <1>0 DEF ProgressInv, Includes, StartRevision
  <2>7. ReportedInv'
    BY <1>3, <1>0 DEF ReportedInv, StartRevision
  <2>8. WorkersSeeWholeRevisions'
    BY <1>3, <1>0 DEF WorkersSeeWholeRevisions, StartRevision
  <2> QED
    BY <2>1, <2>2, <2>3, <2>4, <2>5, <2>6, <2>7, <2>8, TypePartsNext DEF IInv
<1>4. CASE \E n \in todo : StoreFile(n)
  <2>0. PICK n \in todo : StoreFile(n)
    BY <1>4
  <2>1. OpAmpTypes'
    BY <2>0, <1>0 DEF OpAmpTypes, IsFileMap, StoreFile
  <2>2. SharedTypes'
    <3>1. n \in Names
      BY <1>0 DEF OpAmpTypes
    <3>2. DOMAIN shared' = DOMAIN shared \cup {n}
      BY <2>0 DEF StoreFile
    <3>3. IsFileMap(shared')
      BY <3>1, <3>2, <1>0 DEF SharedTypes, IsFileMap
    <3> QED
      BY <2>0, <1>0, <3>3 DEF SharedTypes, StoreFile
  <2>3. WorkerTypes'
    BY <2>0, <1>0 DEF WorkerTypes, SharedTypes, IsFileMap, StoreFile
  <2>4. LockInv'
    BY <2>0, <1>0 DEF LockInv, Settled, WorkerTypes, SharedTypes, StoreFile
  <2>5. CopiesInv'
    BY <2>0, <1>0 DEF CopiesInv, StoreFile
  <2>6. ProgressInv'
    BY <2>0, <1>0 DEF ProgressInv, Includes, StoreFile
  <2>7. ReportedInv'
    BY <2>0, <1>0 DEF ReportedInv, StoreFile
  <2>8. WorkersSeeWholeRevisions'
    BY <2>0, <1>0 DEF WorkersSeeWholeRevisions, StoreFile
  <2> QED
    BY <2>1, <2>2, <2>3, <2>4, <2>5, <2>6, <2>7, <2>8, TypePartsNext DEF IInv
<1>5. CASE Unlock
  <2>1. OpAmpTypes'
    BY <1>5, <1>0 DEF OpAmpTypes, IsFileMap, Unlock
  <2>2. SharedTypes'
    <3>1. /\ IsFileMap(shared) /\ revision \in 0 .. revision
          /\ DOMAIN published' = DOMAIN published \cup {revision}
          /\ \A r \in DOMAIN published' : published'[r] = shared \/ (r \in DOMAIN published /\ published'[r] = published[r])
      BY <1>5, <1>0 DEF Unlock, SharedTypes
    <3>2. \A r \in DOMAIN published' : IsFileMap(published'[r])
      BY <3>1, <1>0 DEF SharedTypes
    <3>3. DOMAIN published' \subseteq 0 .. revision
      BY <3>1, <1>0 DEF SharedTypes
    <3> QED
      BY <1>5, <1>0, <3>2, <3>3 DEF SharedTypes, Unlock
  <2>3. WorkerTypes'
    BY <1>5, <1>0 DEF WorkerTypes, SharedTypes, IsFileMap, Unlock
  <2>4. LockInv'
    BY <1>5, <1>0 DEF LockInv, Settled, WorkerTypes, SharedTypes, Unlock
  <2>5. CopiesInv'
    BY <1>5, <1>0 DEF CopiesInv, Unlock
  <2>6. ProgressInv'
    BY <1>5, <1>0 DEF ProgressInv, Includes, Unlock
  <2>9. /\ revision \notin DOMAIN published
        /\ DOMAIN published' = DOMAIN published \cup {revision}
        /\ \A r \in DOMAIN published : published'[r] = published[r]
        /\ UNCHANGED <<reported, localRevision, managed>>
    BY <1>5, <1>0 DEF Unlock, LockInv
  <2>7. ReportedInv'
    BY <2>9, <1>0 DEF ReportedInv
  <2>8. WorkersSeeWholeRevisions'
    BY <2>9, <1>0 DEF WorkersSeeWholeRevisions
  <2> QED
    BY <2>1, <2>2, <2>3, <2>4, <2>5, <2>6, <2>7, <2>8, TypePartsNext DEF IInv
<1>6. CASE UpdateCoordinator
  <2>1. OpAmpTypes'
    BY <1>6, <1>0 DEF OpAmpTypes, IsFileMap, UpdateCoordinator
  <2>2. SharedTypes'
    BY <1>6, <1>0 DEF SharedTypes, IsFileMap, UpdateCoordinator
  <2>3. WorkerTypes'
    BY <1>6, <1>0 DEF WorkerTypes, SharedTypes, IsFileMap, UpdateCoordinator
  <2>4. LockInv'
    BY <1>6, <1>0 DEF LockInv, Settled, WorkerTypes, SharedTypes, UpdateCoordinator
  <2>5. CopiesInv'
    BY <1>6, <1>0 DEF CopiesInv, UpdateCoordinator
  <2>6. ProgressInv'
    BY <1>6, <1>0 DEF ProgressInv, Includes, UpdateCoordinator
  <2>7. ReportedInv'
    BY <1>6, <1>0 DEF ReportedInv, UpdateCoordinator
  <2>8. WorkersSeeWholeRevisions'
    BY <1>6, <1>0 DEF WorkersSeeWholeRevisions, UpdateCoordinator
  <2> QED
    BY <2>1, <2>2, <2>3, <2>4, <2>5, <2>6, <2>7, <2>8, TypePartsNext DEF IInv
<1>7. CASE SendHeartbeat
  <2>1. OpAmpTypes'
    BY <1>7, <1>0 DEF OpAmpTypes, IsFileMap, SendHeartbeat
  <2>2. SharedTypes'
    BY <1>7, <1>0 DEF SharedTypes, IsFileMap, SendHeartbeat
  <2>3. WorkerTypes'
    BY <1>7, <1>0 DEF WorkerTypes, SharedTypes, IsFileMap, SendHeartbeat
  <2>4. LockInv'
    BY <1>7, <1>0 DEF LockInv, Settled, WorkerTypes, SharedTypes, SendHeartbeat
  <2>5. CopiesInv'
    BY <1>7, <1>0 DEF CopiesInv, SendHeartbeat
  <2>6. ProgressInv'
    BY <1>7, <1>0 DEF ProgressInv, Includes, SendHeartbeat
  <2>7. ReportedInv'
    <3>1. revision \in DOMAIN published /\ published[revision] = shared
      BY <1>7, <1>0 DEF SendHeartbeat, LockInv, Settled
    <3>2. Includes(shared, Files[hash])
      BY <1>7, <1>0 DEF SendHeartbeat, ProgressInv
    <3> QED
      BY <1>7, <3>1, <3>2 DEF SendHeartbeat, ReportedInv
  <2>8. WorkersSeeWholeRevisions'
    BY <1>7, <1>0 DEF WorkersSeeWholeRevisions, SendHeartbeat
  <2> QED
    BY <2>1, <2>2, <2>3, <2>4, <2>5, <2>6, <2>7, <2>8, TypePartsNext DEF IInv
<1>8. CASE CoordinatorDies
  <2>1. OpAmpTypes'
    BY <1>8, <1>0 DEF OpAmpTypes, IsFileMap, CoordinatorDies
  <2>2. SharedTypes'
    BY <1>8, <1>0 DEF SharedTypes, IsFileMap, CoordinatorDies
  <2>3. WorkerTypes'
    BY <1>8, <1>0 DEF WorkerTypes, SharedTypes, IsFileMap, CoordinatorDies
  <2>4. LockInv'
    BY <1>8, <1>0 DEF LockInv, Settled, WorkerTypes, SharedTypes, CoordinatorDies
  <2>5. CopiesInv'
    BY <1>8, <1>0 DEF CopiesInv, CoordinatorDies
  <2>6. ProgressInv'
    BY <1>8, <1>0 DEF ProgressInv, Includes, CoordinatorDies
  <2>7. ReportedInv'
    BY <1>8, <1>0 DEF ReportedInv, CoordinatorDies
  <2>8. WorkersSeeWholeRevisions'
    BY <1>8, <1>0 DEF WorkersSeeWholeRevisions, CoordinatorDies
  <2> QED
    BY <2>1, <2>2, <2>3, <2>4, <2>5, <2>6, <2>7, <2>8, TypePartsNext DEF IInv
<1>9. CASE \E p, w \in Workers : Fork(p, w)
  <2>0. PICK p \in Workers, w \in Workers : Fork(p, w)
    BY <1>9
  <2>1. OpAmpTypes'
    BY <2>0, <1>0 DEF OpAmpTypes, IsFileMap, Fork
  <2>2. SharedTypes'
    BY <2>0, <1>0 DEF SharedTypes, IsFileMap, Fork
  <2>3. WorkerTypes'
    BY <2>0, <1>0 DEF WorkerTypes, SharedTypes, IsFileMap, Fork
  <2>4. LockInv'
    BY <2>0, <1>0 DEF LockInv, Settled, WorkerTypes, SharedTypes, Fork
  <2>5. CopiesInv'
    BY <2>0, <1>0 DEF CopiesInv, Fork
  <2>6. ProgressInv'
    BY <2>0, <1>0 DEF ProgressInv, Includes, Fork
  <2>7. ReportedInv'
    BY <2>0, <1>0 DEF ReportedInv, Fork
  <2>8. WorkersSeeWholeRevisions'
    BY <2>0, <1>0 DEF WorkersSeeWholeRevisions, Fork, WorkerTypes, CopiesInv
  <2> QED
    BY <2>1, <2>2, <2>3, <2>4, <2>5, <2>6, <2>7, <2>8, TypePartsNext DEF IInv
<1>10. CASE \E w \in Workers : RequestInit(w)
  <2>0. PICK w \in Workers : RequestInit(w)
    BY <1>10
  <2>1. OpAmpTypes'
    BY <2>0, <1>0 DEF OpAmpTypes, IsFileMap, RequestInit
  <2>2. SharedTypes'
    BY <2>0, <1>0 DEF SharedTypes, IsFileMap, RequestInit
  <2>3. WorkerTypes'
    BY <2>0, <1>0 DEF WorkerTypes, SharedTypes, IsFileMap, RequestInit
  <2>4. LockInv'
    BY <2>0, <1>0 DEF LockInv, Settled, WorkerTypes, SharedTypes, RequestInit
  <2>5. CopiesInv'
    BY <2>0, <1>0 DEF CopiesInv, RequestInit
  <2>6. ProgressInv'
    BY <2>0, <1>0 DEF ProgressInv, Includes, RequestInit
  <2>7. ReportedInv'
    BY <2>0, <1>0 DEF ReportedInv, RequestInit
  <2>8. WorkersSeeWholeRevisions'
    BY <2>0, <1>0 DEF WorkersSeeWholeRevisions, RequestInit
  <2> QED
    BY <2>1, <2>2, <2>3, <2>4, <2>5, <2>6, <2>7, <2>8, TypePartsNext DEF IInv
<1>11. CASE \E w \in Workers : LockSharably(w)
  <2>0. PICK w \in Workers : LockSharably(w)
    BY <1>11
  <2>1. OpAmpTypes'
    BY <2>0, <1>0 DEF OpAmpTypes, IsFileMap, LockSharably
  <2>2. SharedTypes'
    BY <2>0, <1>0 DEF SharedTypes, IsFileMap, LockSharably
  <2>3. WorkerTypes'
    BY <2>0, <1>0 DEF WorkerTypes, SharedTypes, IsFileMap, LockSharably
  <2>4. LockInv'
    BY <2>0, <1>0 DEF LockInv, Settled, WorkerTypes, SharedTypes, LockSharably
  <2>5. CopiesInv'
    BY <2>0, <1>0 DEF CopiesInv, LockSharably
  <2>6. ProgressInv'
    BY <2>0, <1>0 DEF ProgressInv, Includes, LockSharably
  <2>7. ReportedInv'
    BY <2>0, <1>0 DEF ReportedInv, LockSharably
  <2>8. WorkersSeeWholeRevisions'
    BY <2>0, <1>0 DEF WorkersSeeWholeRevisions, LockSharably
  <2> QED
    BY <2>1, <2>2, <2>3, <2>4, <2>5, <2>6, <2>7, <2>8, TypePartsNext DEF IInv
<1>12. CASE \E w \in Workers : TriggerUpdateIfChanged(w)
  <2>0. PICK w \in Workers : TriggerUpdateIfChanged(w)
    BY <1>12
  <2>1. OpAmpTypes'
    BY <2>0, <1>0 DEF OpAmpTypes, IsFileMap, TriggerUpdateIfChanged
  <2>2. SharedTypes'
    BY <2>0, <1>0 DEF SharedTypes, IsFileMap, TriggerUpdateIfChanged
  <2>3. WorkerTypes'
    <3>1. IsFileMap(shared) /\ revision \in 0 .. revision
      BY <1>0 DEF SharedTypes
    <3>2. \A v \in Workers : managed'[v] = managed[v] \/ managed'[v] = shared
      BY <2>0, <1>0 DEF TriggerUpdateIfChanged, CopiesInv
    <3> QED
      BY <2>0, <1>0, <3>1, <3>2 DEF WorkerTypes, TriggerUpdateIfChanged
  <2>4. LockInv'
    BY <2>0, <1>0 DEF LockInv, Settled, WorkerTypes, SharedTypes, TriggerUpdateIfChanged
  <2>5. CopiesInv'
    BY <2>0, <1>0 DEF CopiesInv, TriggerUpdateIfChanged
  <2>6. ProgressInv'
    BY <2>0, <1>0 DEF ProgressInv, Includes, TriggerUpdateIfChanged
  <2>7. ReportedInv'
    BY <2>0, <1>0 DEF ReportedInv, TriggerUpdateIfChanged
  <2>8. WorkersSeeWholeRevisions'
    <3>1. w \in readers
      BY <2>0, <1>0 DEF TriggerUpdateIfChanged, LockInv
    <3>2. revision \in DOMAIN published /\ published[revision] = shared
      BY <3>1, <1>0 DEF LockInv, Settled
    <3>3. /\ published' = published /\ localRevision'[w] = revision
          /\ managed'[w] = IF localRevision[w] # revision THEN shared ELSE managed[w]
          /\ \A v \in Workers \ {w} : localRevision'[v] = localRevision[v] /\ managed'[v] = managed[v]
      BY <2>0, <1>0 DEF TriggerUpdateIfChanged, WorkerTypes, CopiesInv
    <3> QED
      BY <1>0, <3>2, <3>3 DEF WorkersSeeWholeRevisions
  <2> QED
    BY <2>1, <2>2, <2>3, <2>4, <2>5, <2>6, <2>7, <2>8, TypePartsNext DEF IInv
<1>13. CASE \E w \in Workers : UpdateStorage(w)
  <2>0. PICK w \in Workers : UpdateStorage(w)
    BY <1>13
  <2>1. OpAmpTypes'
    BY <2>0, <1>0 DEF OpAmpTypes, IsFileMap, UpdateStorage
  <2>2. SharedTypes'
    BY <2>0, <1>0 DEF SharedTypes, IsFileMap, UpdateStorage
  <2>3. WorkerTypes'
    BY <2>0, <1>0 DEF WorkerTypes, SharedTypes, IsFileMap, UpdateStorage
  <2>4. LockInv'
    BY <2>0, <1>0 DEF LockInv, Settled, WorkerTypes, SharedTypes, UpdateStorage
  <2>5. CopiesInv'
    BY <2>0, <1>0 DEF CopiesInv, UpdateStorage
  <2>6. ProgressInv'
    BY <2>0, <1>0 DEF ProgressInv, Includes, UpdateStorage
  <2>7. ReportedInv'
    BY <2>0, <1>0 DEF ReportedInv, UpdateStorage
  <2>8. WorkersSeeWholeRevisions'
    BY <2>0, <1>0 DEF WorkersSeeWholeRevisions, UpdateStorage
  <2> QED
    BY <2>1, <2>2, <2>3, <2>4, <2>5, <2>6, <2>7, <2>8, TypePartsNext DEF IInv
<1>14. CASE \E w \in Workers : WorkerDies(w)
  <2>0. PICK w \in Workers : WorkerDies(w)
    BY <1>14
  <2>1. OpAmpTypes'
    BY <2>0, <1>0 DEF OpAmpTypes, IsFileMap, WorkerDies
  <2>2. SharedTypes'
    BY <2>0, <1>0 DEF SharedTypes, IsFileMap, WorkerDies
  <2>3. WorkerTypes'
    BY <2>0, <1>0 DEF WorkerTypes, SharedTypes, IsFileMap, WorkerDies
  <2>4. LockInv'
    BY <2>0, <1>0 DEF LockInv, Settled, WorkerTypes, SharedTypes, WorkerDies
  <2>5. CopiesInv'
    BY <2>0, <1>0 DEF CopiesInv, WorkerDies
  <2>6. ProgressInv'
    BY <2>0, <1>0 DEF ProgressInv, Includes, WorkerDies
  <2>7. ReportedInv'
    BY <2>0, <1>0 DEF ReportedInv, WorkerDies
  <2>8. WorkersSeeWholeRevisions'
    BY <2>0, <1>0 DEF WorkersSeeWholeRevisions, WorkerDies
  <2> QED
    BY <2>1, <2>2, <2>3, <2>4, <2>5, <2>6, <2>7, <2>8, TypePartsNext DEF IInv
<1>15. CASE UNCHANGED vars
  <2>1. OpAmpTypes'
    BY <1>15, <1>0 DEF vars, OpAmpTypes, IsFileMap
  <2>2. SharedTypes'
    BY <1>15, <1>0 DEF vars, SharedTypes, IsFileMap
  <2>3. WorkerTypes'
    BY <1>15, <1>0 DEF vars, WorkerTypes, SharedTypes, IsFileMap
  <2>4. LockInv'
    BY <1>15, <1>0 DEF vars, LockInv, Settled, WorkerTypes, SharedTypes
  <2>5. CopiesInv'
    BY <1>15, <1>0 DEF vars, CopiesInv
  <2>6. ProgressInv'
    BY <1>15, <1>0 DEF vars, ProgressInv, Includes
  <2>7. ReportedInv'
    BY <1>15, <1>0 DEF vars, ReportedInv
  <2>8. WorkersSeeWholeRevisions'
    BY <1>15, <1>0 DEF vars, WorkersSeeWholeRevisions
  <2> QED
    BY <2>1, <2>2, <2>3, <2>4, <2>5, <2>6, <2>7, <2>8, TypePartsNext DEF IInv
<1> QED
  BY <1>1, <1>2, <1>3, <1>4, <1>5, <1>6, <1>7, <1>8, <1>9, <1>10, <1>11, <1>12, <1>13, <1>14, <1>15 DEF Next, HttpThread, WorkerStep

-----------------------------------------------------------------------------
(* Theorems *)

\* The invariant holds in every state of every behaviour.
THEOREM Invariance == Spec => []IInv
  BY InitInv, Step, PTL DEF Spec

\* OpAmp's fields, the shared data and the processes' copies keep their types.
THEOREM TypeCorrect == Spec => []TypeOK
  BY Invariance, PTL DEF IInv

\* What triggerUpdateIfChanged takes over is what the shared memory held at the
\* end of a revision, for any number of processes and wherever one of them dies.
THEOREM WholeRevisions == Spec => []WorkersSeeWholeRevisions
  BY Invariance, PTL DEF IInv

\* What sendHeartbeat reports as APPLIED was stored, and taken over by the
\* coordinator, for any sequence of configurations.
THEOREM AppliedWhenReported == Spec => []ReportedIsApplied
<1>1. IInv => ReportedIsApplied
  BY DEF IInv, ProgressInv, ReportedInv, ReportedIsApplied
<1> QED
  BY <1>1, Invariance, PTL

-----------------------------------------------------------------------------
(* Configuration: the process that the files arrive in. *)

\* A connection is made with the options of a signal only under the URL that
\* the signal's path and an endpoint of its own lead to.
THEOREM TlsAtHome == ConfigSpec => []TlsStaysHome
<1>1. ConfigInit => TlsStaysHome
  BY DEF ConfigInit, TlsStaysHome
<1>2. ASSUME TlsStaysHome, [ConfigNext]_configVars
      PROVE  TlsStaysHome'
  <2>1. CASE UNCHANGED connected
    BY <1>2, <2>1 DEF TlsStaysHome
  <2>2. ASSUME NEW s \in Signals, Connect(s) PROVE TlsStaysHome'
    <3> DEFINE v == config.values
               url == SignalUrl(v, s)
               ssl == getSSLOptionsForSignalsEndpoint(v, url)
               own == url.path \in Signals /\ Own(v, url.path) # Empty
    <3>1. connected' = [h \in DOMAIN connected \cup {url.host} |->
                           IF h \in DOMAIN connected THEN connected[h] ELSE [ssl |-> ssl, found |-> v]]
      BY <2>2, Zenon DEF Connect, add, connectionId
    <3>2. CASE own
      <4>1. Own(v, s) # Empty /\ UrlOf[Own(v, s)] = url
        <5>1. CASE Own(v, s) # Empty
          BY <5>1, Zenon DEF SignalUrl, Own
        <5>2. CASE Own(v, s) = Empty
          <6>1. url = [host |-> UrlOf[v[Tls.general.endpoint].rest].host, path |-> s]
            BY <5>2, Zenon DEF SignalUrl, Own
          <6>2. url.path = s
            BY <6>1, SMT
          <6>3. QED
            BY <3>2, <5>2, <6>2, Zenon
        <5>3. QED
          BY <5>1, <5>2, Zenon
      <4>2. ssl.key = v[Tls[url.path].key].rest /\ ssl.insecure = v[Tls[url.path].insecure]
        BY <3>2, SMT DEF getSSLOptionsForSignalsEndpoint, Own
      <4>3. Home(v, url.host, url.path)
        BY <3>2, <4>1 DEF Home
      <4> HIDE DEF ssl, url
      <4>4. AtHome(url.host, ssl, v)
        BY <3>2, <4>2, <4>3 DEF AtHome
      <4>5. QED
        BY <1>2, <3>1, <4>4 DEF TlsStaysHome
    <3>3. CASE ~own
      <4>1. ssl.key = v[Tls.general.key].rest /\ ssl.insecure = v[Tls.general.insecure]
        <5>1. ssl = [insecure |-> v[Tls["general"].insecure], key |-> v[Tls["general"].key].rest]
          BY <3>3, Zenon DEF getSSLOptionsForSignalsEndpoint, Own
        <5>2. QED
          BY <5>1, SMT
      <4> HIDE DEF ssl, url
      <4>2. AtHome(url.host, ssl, v)
        BY <4>1 DEF AtHome
      <4>3. QED
        BY <1>2, <3>1, <4>2 DEF TlsStaysHome
    <3>4. QED
      BY <3>2, <3>3
  <2>3. QED
    BY <1>2, <2>1, <2>2 DEF ConfigNext, configVars, ModuleInit, RemoteArrives, onRequestInit
<1>3. QED
  BY <1>1, <1>2, PTL DEF ConfigSpec

-----------------------------------------------------------------------------
(* The options, their texts and their conversions *)

Kinds == {"boolean", "loglevel", "bytes", "duration", "string"}

\* The TLS options of the four families.
LEMMA TlsOptions ==
  /\ TlsNames("endpoint") = {"OTEL_EXPORTER_OTLP_ENDPOINT", "OTEL_EXPORTER_OTLP_TRACES_ENDPOINT",
                             "OTEL_EXPORTER_OTLP_METRICS_ENDPOINT", "OTEL_EXPORTER_OTLP_LOGS_ENDPOINT"}
  /\ TlsNames("insecure") = {"OTEL_EXPORTER_OTLP_INSECURE", "OTEL_EXPORTER_OTLP_TRACES_INSECURE",
                             "OTEL_EXPORTER_OTLP_METRICS_INSECURE", "OTEL_EXPORTER_OTLP_LOGS_INSECURE"}
  /\ TlsNames("key") = {"OTEL_EXPORTER_OTLP_CLIENT_KEY", "OTEL_EXPORTER_OTLP_TRACES_CLIENT_KEY",
                        "OTEL_EXPORTER_OTLP_METRICS_CLIENT_KEY", "OTEL_EXPORTER_OTLP_LOGS_CLIENT_KEY"}
<1>1. Signals \cup {"general"} = {"general", "traces", "metrics", "logs"}
  BY DEF Signals
<1>2. ASSUME NEW field PROVE TlsNames(field) =
        {Tls["general"][field], Tls["traces"][field],
         Tls["metrics"][field], Tls["logs"][field]}
  BY <1>1 DEF TlsNames
<1>3. QED
  BY <1>2 DEF Tls

\* Every option has the type under which it is listed.
LEMMA TypeOfOption ==
  /\ DOMAIN OptionNames = Kinds
  /\ \A k \in Kinds : \A o \in OptionNames[k] : o \in Options /\ options_[o] = k
  /\ \A o \in Options : options_[o] \in Kinds /\ o \in OptionNames[options_[o]]
<1>1. DOMAIN OptionNames = Kinds
  BY DEF OptionNames, Kinds
<1>2. \A k, l \in Kinds : \A o : o \in OptionNames[k] /\ o \in OptionNames[l] => k = l
  BY TlsOptions DEF OptionNames, Kinds
<1>3. \A o : o \in Options <=> \E k \in Kinds : o \in OptionNames[k]
  BY <1>1 DEF Options
<1>4. \A o \in Options : options_[o] = CHOOSE t \in Kinds : o \in OptionNames[t]
  BY <1>1 DEF options_
<1>5. \A o \in Options : options_[o] \in Kinds /\ o \in OptionNames[options_[o]]
  BY <1>3, <1>4, Zenon
<1>6. QED
  BY <1>1, <1>2, <1>3, <1>5

\* The values a snapshot may hold for an option.
ValueIn(o, v) ==
    CASE options_[o] = "boolean" -> v \in BOOLEAN
      [] options_[o] = "loglevel" -> v \in 0 .. 6
      [] options_[o] = "bytes" -> v \in Nat /\ v < SizeLimit
      [] options_[o] = "duration" -> v \in Int /\ v < DurationLimit
      [] options_[o] = "string" -> /\ IsText(v)
                                   /\ o = "log_features" => v.rest \in DOMAIN ItemsOf

\* The forms of a text.
LEMMA TextForms ==
  ASSUME NEW t, IsText(t)
  PROVE  /\ t.form \in {"word", "number", "huge"} /\ t.num \in Int
         /\ t.form = "huge" => t = Huge
<1>1. CASE t = Word(t.rest)
  <2>1. \A w : Word(w).form = "word" /\ Word(w).num = 0
    BY SMT DEF Word
  <2>2. QED
    BY <1>1, <2>1, SMT
<1>2. CASE t.num \in Int /\ t \in {Number(t.num, t.rest), Fraction(t.num, t.rest)}
  <2>1. \A n, w : Number(n, w).form = "number" /\ Fraction(n, w).form = "number"
    BY SMT DEF Number, Fraction
  <2>2. QED
    BY <1>2, <2>1, SMT
<1>3. CASE t = Huge
  <2>1. Huge.form = "huge" /\ Huge.num = 0
    BY SMT DEF Huge
  <2>2. QED
    BY <1>3, <2>1, SMT
<1>4. QED
  BY <1>1, <1>2, <1>3, Zenon DEF IsText

\* The names of the levels, one for each and all in lower case.
LEMMA Levels ==
  /\ LogLevels = 0 .. 6
  /\ Len(LevelNames) = 7
  /\ DOMAIN LevelNames = 1 .. 7
  /\ \A i \in 1 .. 7 : Lower(LevelNames[i]) = LevelNames[i]
  /\ \A i, j \in 1 .. 7 : LevelNames[i] = LevelNames[j] => i = j
<1>1. Len(LevelNames) = 7 /\ DOMAIN LevelNames = 1 .. 7
  BY SMT DEF LevelNames
<1>2. LogLevels = 0 .. 6
  BY <1>1, SMT DEF LogLevels
<1>3. /\ LevelNames[1] = "off" /\ LevelNames[2] = "critical" /\ LevelNames[3] = "error"
      /\ LevelNames[4] = "warning" /\ LevelNames[5] = "info" /\ LevelNames[6] = "debug"
      /\ LevelNames[7] = "trace"
  BY SMT DEF LevelNames
<1>4. \A i \in 1 .. 7 : i \in {1, 2, 3, 4, 5, 6, 7}
  BY SMT
<1>5. \A i \in 1 .. 7 : LevelNames[i] \notin DOMAIN Upper
  BY <1>3, <1>4, SMT DEF Upper
<1>6. \A i \in 1 .. 7 : Lower(LevelNames[i]) = LevelNames[i]
  BY <1>5, SMT DEF Lower
<1>7. \A i, j \in 1 .. 7 : LevelNames[i] = LevelNames[j] => i = j
  <2>1. TAKE i, j \in 1 .. 7
  <2>2. QED
    BY <1>3, <1>4, SMT
<1>8. QED
  BY <1>1, <1>2, <1>6, <1>7, SMT

\* parseLogLevel finds the level that a word names.
LEMMA LevelOfWord ==
  ASSUME NEW t, NEW i \in 0 .. 6, t.form = "word", Lower(t.rest) = LevelNames[i + 1]
  PROVE  parseLogLevel(t) = Result(i)
<1>1. \A j \in 0 .. 6 : LevelNames[j + 1] = Lower(t.rest) => j = i
  BY Levels, SMT
<1>2. (CHOOSE j \in LogLevels : LevelNames[j + 1] = Lower(t.rest)) = i
  BY <1>1, Levels, SMT
<1>3. QED
  BY <1>2, Levels, SMT DEF parseLogLevel

\* parseLogLevel and its documentation agree.
LEMMA LevelParsed ==
  ASSUME NEW t, IsText(t)
  PROVE  LET named == /\ t.form = "word"
                      /\ \E i \in DOMAIN LevelNames : LevelNames[i] = Lower(t.rest)
             level == Unit(LevelNames, Lower(t.rest)) - 1
         IN  /\ named => level \in 0 .. 6 /\ parseLogLevel(t) = Result(level)
             /\ ~named => parseLogLevel(t) = InvalidArgument
<1>1. ASSUME t.form = "word", NEW i \in 1 .. 7, LevelNames[i] = Lower(t.rest)
      PROVE  /\ Unit(LevelNames, Lower(t.rest)) = i
             /\ parseLogLevel(t) = Result(i - 1)
  <2>1. Unit(LevelNames, Lower(t.rest)) = i
    BY <1>1, Levels, SMT DEF Unit
  <2>2. i - 1 \in 0 .. 6 /\ (i - 1) + 1 = i
    BY SMT
  <2>3. QED
    BY <1>1, <2>1, <2>2, LevelOfWord, SMT
<1>2. ASSUME ~(t.form = "word" /\ \E i \in 1 .. 7 : LevelNames[i] = Lower(t.rest))
      PROVE  parseLogLevel(t) = InvalidArgument
  BY <1>2, Levels, SMT DEF parseLogLevel
<1>3. QED
  BY <1>1, <1>2, Levels, SMT

\* Nothing else is the empty text.
LEMMA NotEmpty ==
  /\ Empty \notin {"ms", "s", "m", "b", "kb", "mb", "gb"}
  /\ Empty \notin DOMAIN Upper
<1>1. Empty \notin {"ms", "s", "m", "b", "kb", "mb", "gb", "KB", "MS", "ON", "DEBUG"}
  BY Zenon DEF Empty
<1>2. DOMAIN Upper = {"KB", "MS", "ON", "DEBUG"}
  BY SMT DEF Upper
<1>3. QED
  BY <1>1, <1>2, SMT

\* The units of a duration.
LEMMA DurationUnits ==
  /\ DOMAIN TimeUnits = {"ms", "s", "m"}
  /\ \A w : /\ w = "ms" => TimeUnits[w] = 1
            /\ w = "s" => TimeUnits[w] = 1000
            /\ w = "m" => TimeUnits[w] = 60000
  BY SMT DEF TimeUnits

\* Where the documented units of a duration stand.
LEMMA DurationUnitIndex ==
  /\ Unit(<<"ms", "s", "m">>, "ms") = 1
  /\ Unit(<<"ms", "s", "m">>, "s") = 2
  /\ Unit(<<"ms", "s", "m">>, "m") = 3
<1> DEFINE u == <<"ms", "s", "m">>
<1>1. DOMAIN u = 1 .. 3 /\ u[1] = "ms" /\ u[2] = "s" /\ u[3] = "m"
  BY SMT
<1>2. DOMAIN u = {1, 2, 3}
  BY <1>1, SMT
<1> HIDE DEF u
<1>3. /\ Unit(u, "ms") = 1 /\ Unit(u, "s") = 2 /\ Unit(u, "m") = 3
  BY <1>1, <1>2, SMT DEF Unit
<1>4. QED
  BY <1>3, SMT DEF u

\* The duration, unit by unit.
LEMMA MillisecondsOf ==
  ASSUME NEW t, t.num \in Int
  PROVE  /\ t.rest = Empty \/ t.rest = "ms" => MillisecondsIn(t) = t.num
         /\ t.rest = "s" => MillisecondsIn(t) = (t.num * 1000) + (IF t.half THEN 500 ELSE 0)
         /\ t.rest = "m" => MillisecondsIn(t) = (t.num * 60000) + (IF t.half THEN 30000 ELSE 0)
<1> DEFINE u == IF t.rest = Empty THEN "ms" ELSE t.rest
           ms == Unit(<<"ms", "s", "m">>, u)
<1>3. MillisecondsIn(t) = (t.num * <<1, 1000, 60000>>[ms]) + (IF t.half THEN <<0, 500, 30000>>[ms] ELSE 0)
  BY SMT DEF MillisecondsIn
<1>4. t.rest = Empty \/ t.rest = "ms" => ms = 1
  BY DurationUnitIndex, NotEmpty, SMT
<1>5. t.rest = "s" => ms = 2
  BY DurationUnitIndex, NotEmpty, SMT
<1>6. t.rest = "m" => ms = 3
  BY DurationUnitIndex, NotEmpty, SMT
<1> HIDE DEF ms
<1>7. ms = 1 => MillisecondsIn(t) = t.num
  BY <1>3, SMT
<1>8. ms = 2 => MillisecondsIn(t) = (t.num * 1000) + (IF t.half THEN 500 ELSE 0)
  BY <1>3, SMT
<1>9. ms = 3 => MillisecondsIn(t) = (t.num * 60000) + (IF t.half THEN 30000 ELSE 0)
  BY <1>3, SMT
<1>10. QED
  BY <1>4, <1>5, <1>6, <1>7, <1>8, <1>9, SMT

\* What an integer makes of a number of milliseconds.
Count(ms) == IF ms < DurationLimit THEN ms ELSE Unrepresentable

\* A count is one that the integer holds.
LEMMA CountFits ==
  ASSUME NEW ms \in Nat
  PROVE  Count(ms) \in Int /\ Count(ms) < DurationLimit
  BY DurationAssumption, SMT DEF Count

\* convertDurationWithUnit takes the texts it understands for their milliseconds,
\* truncated, as far as an integer holds them.
LEMMA DurationParsed ==
  ASSUME NEW t, IsText(t)
  PROVE  LET understood == t.form = "number" /\ t.num >= 0 /\ t.rest \in {Empty, "ms", "s", "m"}
         IN  /\ understood => /\ MillisecondsIn(t) \in Nat
                              /\ convertDurationWithUnit(t) = Result(Count(MillisecondsIn(t)))
             /\ ~understood => /\ convertDurationWithUnit(t) \in {InvalidArgument, OutOfRange}
                               /\ convertDurationWithUnit(t) = OutOfRange => t = Huge
<1> DEFINE h == IF t.half THEN 1 ELSE 0
           halves == 2 * t.num + h
<1>1. t.num \in Int /\ h \in {0, 1} /\ (h = 1 <=> t.half) /\ halves \in Int
  BY TextForms, SMT
<1>2. ASSUME t.form = "number", t.num >= 0
      PROVE  convertDurationWithUnit(t) =
                 IF t.rest = Empty THEN Result(Count(halves \div 2))
                 ELSE IF t.rest \in DOMAIN TimeUnits
                      THEN Result(Count((halves * TimeUnits[t.rest]) \div 2))
                      ELSE InvalidArgument
  <2>1. t.form # "huge" /\ ~(t.form = "word" \/ t.num < 0)
    BY <1>1, <1>2, SMT
  <2>2. QED
    BY <2>1, Zenon DEF convertDurationWithUnit, Count
<1>3. /\ t.form = "word" => convertDurationWithUnit(t) = InvalidArgument
      /\ t.form = "huge" => convertDurationWithUnit(t) = OutOfRange
      /\ t.form = "number" /\ t.num < 0 => convertDurationWithUnit(t) = InvalidArgument
  BY SMT DEF convertDurationWithUnit
<1>4. InvalidArgument # OutOfRange
  BY SMT DEF InvalidArgument, OutOfRange
<1>5. ASSUME t.num >= 0
      PROVE  /\ halves \div 2 = t.num /\ (halves * 1) \div 2 = t.num
             /\ (halves * 1000) \div 2 = t.num * 1000 + (IF t.half THEN 500 ELSE 0)
             /\ (halves * 60000) \div 2 = t.num * 60000 + (IF t.half THEN 30000 ELSE 0)
  <2>1. ASSUME NEW n \in Nat, NEW b \in {0, 1}
        PROVE  /\ (2 * n + b) \div 2 = n /\ ((2 * n + b) * 1) \div 2 = n
               /\ ((2 * n + b) * 1000) \div 2 = n * 1000 + 500 * b
               /\ ((2 * n + b) * 60000) \div 2 = n * 60000 + 30000 * b
    BY SMT
  <2>2. t.num \in Nat
    BY <1>1, <1>5, SMT
  <2>3. h = 0 \/ h = 1
    BY <1>1, SMT
  <2>4. QED
    BY <2>1, <2>2, <2>3, <1>1, SMT
<1> HIDE DEF h, halves
<1>6. ASSUME t.form = "number", t.num >= 0, t.rest \in {Empty, "ms", "s", "m"}
      PROVE  MillisecondsIn(t) \in Nat /\ convertDurationWithUnit(t) = Result(Count(MillisecondsIn(t)))
  <2>1. CASE t.rest = Empty
    <3>1. convertDurationWithUnit(t) = Result(Count(halves \div 2))
      BY <1>2, <1>6, <2>1, Zenon
    <3>2. halves \div 2 = MillisecondsIn(t) /\ MillisecondsIn(t) \in Nat
      BY <1>1, <1>5, <1>6, <2>1, MillisecondsOf, SMT
    <3>3. QED
      BY <3>1, <3>2, Zenon
  <2>2. ASSUME NEW n, t.rest \in {"ms", "s", "m"}, TimeUnits[t.rest] = n,
               (halves * n) \div 2 = MillisecondsIn(t)
        PROVE  convertDurationWithUnit(t) = Result(Count(MillisecondsIn(t)))
    <3>1. t.rest # Empty /\ t.rest \in DOMAIN TimeUnits
      BY <2>2, DurationUnits, NotEmpty, SMT
    <3>2. QED
      BY <1>2, <1>6, <2>2, <3>1, Zenon
  <2>3. CASE t.rest = "ms"
    <3>1. (halves * 1) \div 2 = MillisecondsIn(t) /\ MillisecondsIn(t) \in Nat
      BY <1>1, <1>5, <1>6, <2>3, MillisecondsOf, SMT
    <3>2. QED
      BY <2>2, <2>3, <3>1, DurationUnits, SMT
  <2>4. CASE t.rest = "s"
    <3>1. (halves * 1000) \div 2 = MillisecondsIn(t) /\ MillisecondsIn(t) \in Nat
      BY <1>1, <1>5, <1>6, <2>4, MillisecondsOf, SMT
    <3>2. QED
      BY <2>2, <2>4, <3>1, DurationUnits, SMT
  <2>5. CASE t.rest = "m"
    <3>1. (halves * 60000) \div 2 = MillisecondsIn(t) /\ MillisecondsIn(t) \in Nat
      BY <1>1, <1>5, <1>6, <2>5, MillisecondsOf, SMT
    <3>2. QED
      BY <2>2, <2>5, <3>1, DurationUnits, SMT
  <2>6. QED
    BY <1>6, <2>1, <2>3, <2>4, <2>5, SMT
<1>7. ASSUME t.form = "number", t.num >= 0, t.rest \notin {Empty, "ms", "s", "m"}
      PROVE  convertDurationWithUnit(t) = InvalidArgument
  <2>1. t.rest # Empty /\ t.rest \notin DOMAIN TimeUnits
    BY <1>7, DurationUnits, NotEmpty, SMT
  <2>2. QED
    BY <1>2, <1>7, <2>1, Zenon
<1>8. t.form = "number" => t.num >= 0 \/ t.num < 0
  BY <1>1, SMT
<1>9. QED
  BY <1>3, <1>4, <1>6, <1>7, <1>8, TextForms, SMT

\* The units of a number of bytes.
LEMMA UnitsOfBytes ==
  /\ DOMAIN ByteUnits = {"b", "kb", "mb", "gb"}
  /\ \A w \in {"b", "kb", "mb", "gb"} : ByteUnits[w] \in Nat \ {0}
  BY SMT DEF ByteUnits

\* Where the documented units of a number of bytes stand.
LEMMA ByteUnitIndex ==
  /\ Unit(<<"b", "kb", "mb", "gb">>, "b") = 1
  /\ Unit(<<"b", "kb", "mb", "gb">>, "kb") = 2
  /\ Unit(<<"b", "kb", "mb", "gb">>, "mb") = 3
  /\ Unit(<<"b", "kb", "mb", "gb">>, "gb") = 4
<1> DEFINE u == <<"b", "kb", "mb", "gb">>
<1>1. DOMAIN u = 1 .. 4 /\ u[1] = "b" /\ u[2] = "kb" /\ u[3] = "mb" /\ u[4] = "gb"
  BY SMT
<1>2. DOMAIN u = {1, 2, 3, 4}
  BY <1>1, SMT
<1> HIDE DEF u
<1>3. /\ Unit(u, "b") = 1 /\ Unit(u, "kb") = 2
      /\ Unit(u, "mb") = 3 /\ Unit(u, "gb") = 4
  BY <1>1, <1>2, SMT DEF Unit
<1>4. QED
  BY <1>3 DEF u

\* The factor of a unit is the one parseByteUnits uses.
LEMMA BytesOfUnit ==
  ASSUME NEW w
  PROVE  /\ w = Empty => Bytes(w) = 1
         /\ Lower(w) \in DOMAIN ByteUnits =>
                Bytes(w) = ByteUnits[Lower(w)]
         /\ w # Empty => Lower(w) # Empty
<1>1. w # Empty => Lower(w) # Empty
  <2>1. Upper["KB"] = "kb" /\ Upper["MS"] = "ms" /\ Upper["ON"] = "on"
        /\ Upper["DEBUG"] = "debug" /\ DOMAIN Upper = {"KB", "MS", "ON", "DEBUG"}
    BY SMT DEF Upper
  <2>2. Empty \notin {"kb", "ms", "on", "debug"}
    BY Zenon DEF Empty
  <2>3. \A x \in DOMAIN Upper : Upper[x] # Empty
    BY <2>1, <2>2, Zenon
  <2>4. QED
    BY <2>3, Zenon DEF Lower
<1>2. Lower(Empty) = Empty
  BY NotEmpty, Zenon DEF Lower
<1> DEFINE l == Lower(w)
<1>3. Empty \notin DOMAIN ByteUnits
  BY NotEmpty, UnitsOfBytes, SMT
<1> DEFINE i == Unit(<<"b", "kb", "mb", "gb">>, IF w = Empty THEN "b" ELSE l)
<1>4. Bytes(w) = <<1, 1024, 1048576, 1073741824>>[i]
  BY SMT DEF Bytes
<1>5. /\ w = Empty => i = 1
      /\ w # Empty /\ l = "b" => i = 1
      /\ w # Empty /\ l = "kb" => i = 2
      /\ w # Empty /\ l = "mb" => i = 3
      /\ w # Empty /\ l = "gb" => i = 4
  BY ByteUnitIndex, SMT
<1> HIDE DEF i
<1>6. /\ i = 1 => Bytes(w) = 1
      /\ i = 2 => Bytes(w) = 1024
      /\ i = 3 => Bytes(w) = 1048576
      /\ i = 4 => Bytes(w) = 1073741824
  BY <1>4, SMT
<1> HIDE DEF l
<1>7. /\ l = "b" => ByteUnits[l] = 1
      /\ l = "kb" => ByteUnits[l] = 1024
      /\ l = "mb" => ByteUnits[l] = 1048576
      /\ l = "gb" => ByteUnits[l] = 1073741824
  BY SMT DEF ByteUnits
<1>8. l \in DOMAIN ByteUnits => w # Empty
  BY <1>2, <1>3, SMT DEF l
<1>9. l \in DOMAIN ByteUnits => Bytes(w) = ByteUnits[l]
  BY <1>5, <1>6, <1>7, <1>8, UnitsOfBytes, SMT
<1>10. QED
  BY <1>1, <1>5, <1>6, <1>9, SMT DEF l

\* parseByteUnits takes the texts it understands for their bytes, of which it keeps
\* what an integer holds.
LEMMA BytesParsed ==
  ASSUME NEW t, IsText(t)
  PROVE  LET r == parseByteUnits(t)
         IN  /\ /\ t.form = "number" /\ t.num >= 0 /\ ~t.half
                /\ Lower(t.rest) \in {Empty, "b", "kb", "mb", "gb"}
                /\ t.num < SizeLimit
                => r = Result(BytesIn(t) % SizeLimit)
             /\ r.kind = "value" => r.value \in Nat /\ r.value < SizeLimit
             /\ r.kind = "out_of_range" => TooManyBytes(t)
<1> DEFINE r == parseByteUnits(t)
           l == Lower(t.rest)
           n == t.num * ByteUnits[l]
           fits == t.num < SizeLimit /\ -SizeLimit < t.num
<1>0. SizeLimit \in Nat /\ SizeLimit > 0
  BY SizeLimitAssumption, SMT DEF DefaultQueueSize
<1>1. t.form \in {"word", "number", "huge"} /\ t.num \in Int /\ (t.form = "huge" => t = Huge)
  BY TextForms, Zenon
<1>12. /\ t.form = "huge" => TooManyBytes(t)
       /\ t.form = "word" => ~TooManyBytes(t)
       /\ t.form = "number" /\ ~fits => TooManyBytes(t)
       /\ t.form = "number" /\ fits => ~TooManyBytes(t)
  BY <1>0, <1>1, SMT DEF TooManyBytes
<1>2. /\ TooManyBytes(t) => r = OutOfRange
      /\ t.form = "word" => r = InvalidArgument
      /\ t.form = "number" /\ fits /\ (t.num < 0 \/ t.half) => r = InvalidArgument
  BY <1>12, Zenon DEF parseByteUnits
<1>3. ASSUME t.form = "number", ~(t.num < 0), ~t.half, fits
      PROVE  /\ t.rest = Empty => r = Result(t.num)
             /\ t.rest # Empty /\ l \in DOMAIN ByteUnits => r = Result(n % SizeLimit)
             /\ t.rest # Empty /\ l \notin DOMAIN ByteUnits => r = InvalidArgument
  <2>1. ~TooManyBytes(t) /\ ~(t.form = "word" \/ t.num < 0 \/ t.half)
    BY <1>3, <1>12, Zenon
  <2>2. QED
    BY <2>1, Zenon DEF parseByteUnits
<1>4. ASSUME NEW v PROVE Result(v).kind = "value" /\ Result(v).value = v
  BY SMT DEF Result
<1>5. InvalidArgument.kind = "invalid_argument" /\ OutOfRange.kind = "out_of_range"
  BY SMT DEF InvalidArgument, OutOfRange
<1> HIDE DEF r
<1>6. ASSUME t.form = "number", ~(t.num < 0), l \in DOMAIN ByteUnits
      PROVE  n \in Nat /\ n = BytesIn(t)
  <2>1. ByteUnits[l] \in Nat /\ Bytes(t.rest) = ByteUnits[l]
    BY <1>6, UnitsOfBytes, BytesOfUnit, SMT
  <2>2. t.num \in Nat
    BY <1>1, <1>6, SMT
  <2>3. \A a, b \in Nat : a * b \in Nat
    BY SMT
  <2>4. QED
    BY <2>1, <2>2, <2>3, Zenon DEF BytesIn
<1> HIDE DEF n, l
<1>7. ASSUME t.form = "number", ~(t.num < 0), ~t.half, fits
      PROVE  r.kind # "out_of_range" /\ (r.kind = "value" => r.value \in Nat /\ r.value < SizeLimit)
  <2>1. CASE t.rest = Empty
    <3>1. t.num \in Nat
      BY <1>1, <1>7, SMT
    <3>2. r.kind = "value" /\ r.value = t.num
      BY <1>3, <1>4, <1>7, <2>1, Zenon
    <3>3. QED
      BY <1>7, <3>1, <3>2, SMT
  <2>2. CASE t.rest # Empty /\ l \in DOMAIN ByteUnits
    <3>1. n % SizeLimit \in Nat /\ n % SizeLimit < SizeLimit
      <4>1. n \in Nat
        BY <1>6, <1>7, <2>2, Zenon
      <4>2. QED
        BY <1>0, <4>1, SMT
    <3>2. r.kind = "value" /\ r.value = n % SizeLimit
      BY <1>3, <1>4, <1>7, <2>2, Zenon
    <3>3. QED
      BY <3>1, <3>2, SMT
  <2>3. CASE t.rest # Empty /\ l \notin DOMAIN ByteUnits
    BY <1>3, <1>5, <1>7, <2>3, SMT
  <2>4. QED
    BY <2>1, <2>2, <2>3, Zenon
<1>8. ASSUME t.form = "number", t.num >= 0, ~t.half, t.num < SizeLimit,
             l \in {Empty, "b", "kb", "mb", "gb"}
      PROVE  r = Result(BytesIn(t) % SizeLimit)
  <2>1. ~(t.num < 0) /\ fits
    BY <1>0, <1>1, <1>8, SMT
  <2>2. CASE t.rest = Empty
    <3>1. Bytes(t.rest) = 1
      BY <2>2, BytesOfUnit, Zenon
    <3>2. BytesIn(t) = t.num
      BY <1>1, <3>1, SMT DEF BytesIn
    <3>3. t.num % SizeLimit = t.num
      BY <1>0, <1>1, <1>8, SMT
    <3>4. QED
      BY <1>3, <1>8, <2>1, <2>2, <3>2, <3>3, Zenon
  <2>3. CASE t.rest # Empty
    <3>1. l \in DOMAIN ByteUnits
      BY <1>8, <2>3, BytesOfUnit, UnitsOfBytes, SMT DEF l
    <3>2. n = BytesIn(t)
      BY <1>6, <1>8, <2>1, <3>1, Zenon
    <3>3. QED
      BY <1>3, <1>8, <2>1, <2>3, <3>1, <3>2, Zenon
  <2>4. QED
    BY <2>2, <2>3, Zenon
<1>9. r.kind = "value" => r.value \in Nat /\ r.value < SizeLimit
  BY <1>1, <1>2, <1>5, <1>7, <1>12, SMT
<1>10. r.kind = "out_of_range" => TooManyBytes(t)
  BY <1>1, <1>2, <1>5, <1>7, <1>12, SMT
<1>11. QED
  BY <1>8, <1>9, <1>10, Zenon DEF r, l

\* parseBoolean takes the two documented words for what they mean.
LEMMA BooleanParsed ==
  ASSUME NEW t
  PROVE  /\ t.form = "word" /\ Lower(t.rest) \in {"true", "false"} =>
                parseBoolean(t) = Result(Lower(t.rest) = "true")
         /\ \E b \in BOOLEAN : parseBoolean(t) = Result(b)
<1> DEFINE b == \/ t.form = "word" /\ Lower(t.rest) \in {"true", "yes", "on"}
                \/ t.form = "number" /\ t.num # 0
<1>1. parseBoolean(t) = Result(b)
  BY Zenon DEF parseBoolean
<1>2. b \in BOOLEAN
  BY Zenon
<1>3. ASSUME t.form = "word", Lower(t.rest) \in {"true", "false"}
      PROVE  b = (Lower(t.rest) = "true")
  BY <1>3, Zenon
<1>4. QED
  BY <1>1, <1>2, <1>3, Zenon

\* A value is not an error.
LEMMA Kind ==
  /\ \A v : Result(v).kind = "value" /\ Result(v).value = v
  /\ InvalidArgument.kind = "invalid_argument"
  /\ OutOfRange.kind = "out_of_range"
  BY SMT DEF Result, InvalidArgument, OutOfRange

\* The parsers by the type of an option.
LEMMA ParserOfOption ==
  ASSUME NEW o \in Options, NEW t
  PROVE  /\ options_[o] = "boolean" => Parsed(o, t) = parseBoolean(t)
         /\ options_[o] = "duration" => Parsed(o, t) = convertDurationWithUnit(t)
         /\ options_[o] = "loglevel" => Parsed(o, t) = parseLogLevel(t)
         /\ options_[o] = "bytes" => Parsed(o, t) = parseByteUnits(t)
         /\ options_[o] = "string" => Parsed(o, t) = Result(t)
  BY SMT DEF Parsed

\* The texts understood, by the type of the option.
LEMMA UnderstoodOfOption ==
  ASSUME NEW o \in Options, NEW t
  PROVE  /\ options_[o] = "boolean" =>
                (Understood(o, t) <=> t.form = "word" /\ Lower(t.rest) \in {"true", "false"})
         /\ options_[o] = "loglevel" =>
                (Understood(o, t) <=>
                    /\ t.form = "word"
                    /\ \E i \in DOMAIN LevelNames : LevelNames[i] = Lower(t.rest))
         /\ options_[o] = "duration" =>
                (Understood(o, t) <=>
                    t.form = "number" /\ t.num >= 0 /\ t.rest \in {Empty, "ms", "s", "m"})
         /\ options_[o] = "bytes" =>
                (Understood(o, t) <=>
                    /\ t.form = "number" /\ t.num >= 0 /\ ~t.half
                    /\ Lower(t.rest) \in {Empty, "b", "kb", "mb", "gb"}
                    /\ t.num < SizeLimit)
         /\ options_[o] = "string" => Understood(o, t)
  BY Zenon DEF Understood

\* What a text means, by the type of the option.
LEMMA MeaningOfOption ==
  ASSUME NEW o \in Options, NEW t
  PROVE  /\ options_[o] = "boolean" => Meaning(o, t) = (Lower(t.rest) = "true")
         /\ options_[o] = "loglevel" =>
                Meaning(o, t) = Unit(LevelNames, Lower(t.rest)) - 1
         /\ options_[o] = "duration" => Meaning(o, t) = Count(MillisecondsIn(t))
         /\ options_[o] = "bytes" => Meaning(o, t) = BytesIn(t) % SizeLimit
         /\ options_[o] = "string" => Meaning(o, t) = t
  BY SMT DEF Meaning, Count

\* The texts of an option that end a process.
TooLarge(o, t) == t = Huge \/ (options_[o] = "bytes" /\ TooManyBytes(t))

\* Every conversion takes the texts it understands for what they mean, yields a
\* value of the option's type or an error, and finds out of range only what is.
LEMMA ConversionMeansText ==
  ASSUME NEW o \in Options, NEW t, IsText(t),
         o = "log_features" => t.rest \in DOMAIN ItemsOf
  PROVE  LET r == Parsed(o, t)
         IN  /\ Understood(o, t) => r = Result(Meaning(o, t))
             /\ ~Understood(o, t) => options_[o] \in {"boolean", "bytes"} \/ r.kind # "value"
             /\ r.kind = "value" => ValueIn(o, r.value)
             /\ r.kind = "out_of_range" => TooLarge(o, t)
<1> DEFINE r == Parsed(o, t)
           k == options_[o]
           Doc == Understood(o, t)
           Goal == /\ Doc => r = Result(Meaning(o, t))
                   /\ ~Doc => k \in {"boolean", "bytes"} \/ r.kind # "value"
                   /\ r.kind = "value" => ValueIn(o, r.value)
                   /\ r.kind = "out_of_range" => TooLarge(o, t)
<1>1. CASE k = "boolean"
  <2>1. PICK b \in BOOLEAN : r = Result(b)
    BY <1>1, BooleanParsed, ParserOfOption, Zenon
  <2>2. Doc => r = Result(Meaning(o, t))
    <3>1. r = parseBoolean(t) /\ Meaning(o, t) = (Lower(t.rest) = "true")
      BY <1>1, ParserOfOption, MeaningOfOption, Zenon
    <3>2. Doc => t.form = "word" /\ Lower(t.rest) \in {"true", "false"}
      BY <1>1, UnderstoodOfOption, Zenon
    <3>3. QED
      BY <3>1, <3>2, BooleanParsed, Zenon
  <2>3. ValueIn(o, b)
    BY <1>1, Zenon DEF ValueIn
  <2>4. QED
    BY <1>1, <2>1, <2>2, <2>3, Kind, Zenon
<1>2. CASE k = "loglevel"
  <2> DEFINE level == Unit(LevelNames, Lower(t.rest)) - 1
  <2>1. /\ Doc => level \in 0 .. 6 /\ r = Result(level)
        /\ ~Doc => r = InvalidArgument
    BY <1>2, LevelParsed, ParserOfOption, UnderstoodOfOption, Zenon
  <2>2. Meaning(o, t) = level
    BY <1>2, MeaningOfOption, Zenon
  <2> HIDE DEF level
  <2>3. level \in 0 .. 6 => ValueIn(o, level)
    BY <1>2, Zenon DEF ValueIn
  <2>4. QED
    BY <1>2, <2>1, <2>2, <2>3, Kind, Zenon
<1>3. CASE k = "duration"
  <2>1. /\ Doc => MillisecondsIn(t) \in Nat /\ r = Result(Count(MillisecondsIn(t)))
        /\ ~Doc => r \in {InvalidArgument, OutOfRange} /\ (r = OutOfRange => t = Huge)
    BY <1>3, DurationParsed, ParserOfOption, UnderstoodOfOption, Zenon
  <2>2. Meaning(o, t) = Count(MillisecondsIn(t))
    BY <1>3, MeaningOfOption, Zenon
  <2>3. MillisecondsIn(t) \in Nat => ValueIn(o, Count(MillisecondsIn(t)))
    BY <1>3, CountFits, Zenon DEF ValueIn
  <2>4. QED
    BY <1>3, <2>1, <2>2, <2>3, Kind, Zenon DEF TooLarge
<1>4. CASE k = "bytes"
  <2>1. /\ Doc => r = Result(BytesIn(t) % SizeLimit)
        /\ r.kind = "value" => r.value \in Nat /\ r.value < SizeLimit
        /\ r.kind = "out_of_range" => TooManyBytes(t)
    BY <1>4, BytesParsed, ParserOfOption, UnderstoodOfOption, Zenon
  <2>2. Meaning(o, t) = BytesIn(t) % SizeLimit
    BY <1>4, MeaningOfOption, Zenon
  <2>3. r.value \in Nat /\ r.value < SizeLimit => ValueIn(o, r.value)
    BY <1>4, Zenon DEF ValueIn
  <2>4. QED
    BY <1>4, <2>1, <2>2, <2>3, Zenon DEF TooLarge
<1>5. CASE k = "string"
  <2>1. r = Result(t) /\ Doc /\ Meaning(o, t) = t
    BY <1>5, ParserOfOption, UnderstoodOfOption, MeaningOfOption, Zenon
  <2>2. ValueIn(o, t)
    BY <1>5, Zenon DEF ValueIn
  <2>3. QED
    BY <2>1, <2>2, Kind, Zenon
<1>6. k \in {"boolean", "loglevel", "bytes", "duration", "string"}
  BY TypeOfOption, Zenon DEF Kinds
<1>7. QED
  BY <1>1, <1>2, <1>3, <1>4, <1>5, <1>6, Zenon

\* The default of an option has its type.
LEMMA DefaultIn ==
  ASSUME NEW o \in Options, Empty \in DOMAIN ItemsOf
  PROVE  ValueIn(o, Defaults[o])
<1> DEFINE k == options_[o]
           d == Defaults[o]
<1>1. o \in OptionNames[k] /\ k \in Kinds
  BY TypeOfOption, Zenon
<1>2. o = "enabled" => d = TRUE
  <2>1. o = "enabled" => o \notin TlsNames("insecure") /\ o \notin OptionNames.loglevel
    BY TlsOptions, SMT DEF OptionNames
  <2>2. QED
    BY <2>1, Zenon DEF Defaults
<1>3. o \in TlsNames("insecure") => d = FALSE
  <2>1. o \in TlsNames("insecure") =>
            /\ o \notin {"enabled", "log_level_syslog", "max_send_queue_size", "opamp_heartbeat_interval"}
            /\ o \notin OptionNames.loglevel
    BY TlsOptions, SMT DEF OptionNames
  <2>2. QED
    BY <2>1, Zenon DEF Defaults
<1>4. o \in OptionNames.loglevel => d \in {0, 4}
  <2>1. o \in OptionNames.loglevel =>
            /\ o \notin {"enabled", "max_send_queue_size", "opamp_heartbeat_interval"}
            /\ o \notin TlsNames("insecure")
    BY TlsOptions, SMT DEF OptionNames
  <2>2. QED
    BY <2>1, Zenon DEF Defaults
<1>5. o = "max_send_queue_size" => d \in Nat /\ d < SizeLimit
  <2>1. o = "max_send_queue_size" => o \notin TlsNames("insecure") /\ o \notin OptionNames.loglevel
    BY TlsOptions, SMT DEF OptionNames
  <2>2. o = "max_send_queue_size" => d = DefaultQueueSize
    BY <2>1, Zenon DEF Defaults
  <2>3. QED
    BY <2>2, SizeLimitAssumption, SMT DEF DefaultQueueSize
<1>6. o = "opamp_heartbeat_interval" => d \in Int /\ d < DurationLimit
  <2>1. o = "opamp_heartbeat_interval" => o \notin TlsNames("insecure") /\ o \notin OptionNames.loglevel
    BY TlsOptions, SMT DEF OptionNames
  <2>2. o = "opamp_heartbeat_interval" => d = DefaultInterval
    BY <2>1, Zenon DEF Defaults
  <2>3. QED
    BY <2>2, DurationAssumption, SMT DEF DefaultInterval
<1>7. o \in OptionNames.string => d = Word(Empty)
  <2>1. o \in OptionNames.string =>
            /\ o \notin {"enabled", "log_level_syslog", "max_send_queue_size", "opamp_heartbeat_interval"}
            /\ o \notin TlsNames("insecure") /\ o \notin OptionNames.loglevel
    BY TlsOptions, SMT DEF OptionNames
  <2>2. QED
    BY <2>1, Zenon DEF Defaults
<1>8. IsText(Word(Empty)) /\ Word(Empty).rest = Empty
  <2>1. Word(Empty).rest = Empty
    BY SMT DEF Word
  <2>2. QED
    BY <2>1, Zenon DEF IsText
<1> HIDE DEF d, k
<1>9. CASE k = "boolean"
  <2>1. o = "enabled" \/ o \in TlsNames("insecure")
    BY <1>1, <1>9, SMT DEF OptionNames
  <2>2. QED
    BY <1>2, <1>3, <1>9, <2>1, Zenon DEF ValueIn, k, d
<1>10. CASE k = "loglevel"
  <2>1. d \in 0 .. 6
    BY <1>1, <1>4, <1>10, SMT
  <2>2. QED
    BY <1>10, <2>1, Zenon DEF ValueIn, k, d
<1>11. CASE k = "bytes"
  <2>1. d \in Nat /\ d < SizeLimit
    BY <1>1, <1>5, <1>11, SMT DEF OptionNames
  <2>2. QED
    BY <1>11, <2>1, Zenon DEF ValueIn, k, d
<1>12. CASE k = "duration"
  <2>1. d \in Int /\ d < DurationLimit
    BY <1>1, <1>6, <1>12, SMT DEF OptionNames
  <2>2. QED
    BY <1>12, <2>1, Zenon DEF ValueIn, k, d
<1>13. CASE k = "string"
  <2>1. d = Word(Empty)
    BY <1>1, <1>7, <1>13, SMT
  <2>2. QED
    BY <1>8, <1>13, <2>1, Zenon DEF ValueIn, k, d
<1>14. QED
  BY <1>1, <1>9, <1>10, <1>11, <1>12, <1>13, Zenon DEF Kinds, k, d

\* The text that phpinfo() shows converts back to the value, unless it is a duration
\* that became negative.
LEMMA ShownText ==
  ASSUME NEW o \in Options, NEW v, ValueIn(o, v), ~(options_[o] = "duration" /\ v < 0)
  PROVE  Parsed(o, accessOptionStringValue(o, v)) = Result(v)
<1> DEFINE k == options_[o]
           t == accessOptionStringValue(o, v)
<1>1. CASE k = "boolean"
  <2>1. t = Word(IF v THEN "true" ELSE "false")
    BY <1>1, Zenon DEF accessOptionStringValue
  <2>2. v \in BOOLEAN
    BY <1>1, Zenon DEF ValueIn
  <2>3. Lower("true") = "true" /\ Lower("false") = "false"
    BY SMT DEF Lower, Upper
  <2>4. \A w : Word(w).form = "word" /\ Word(w).rest = w
    BY SMT DEF Word
  <2>5. CASE v = TRUE
    <3>1. t.form = "word" /\ t.rest = "true"
      BY <2>1, <2>4, <2>5, Zenon
    <3>2. parseBoolean(t) = Result(Lower(t.rest) = "true")
      BY <2>3, <3>1, BooleanParsed, Zenon
    <3>3. (Lower(t.rest) = "true") = v
      BY <2>3, <2>5, <3>1, Zenon
    <3>4. QED
      BY <1>1, <3>2, <3>3, ParserOfOption, Zenon
  <2>6. CASE v = FALSE
    <3>1. t.form = "word" /\ t.rest = "false"
      BY <2>1, <2>4, <2>6, Zenon
    <3>2. parseBoolean(t) = Result(Lower(t.rest) = "true")
      BY <2>3, <3>1, BooleanParsed, Zenon
    <3>3. (Lower(t.rest) = "true") = v
      BY <2>3, <2>6, <3>1, Zenon
    <3>4. QED
      BY <1>1, <3>2, <3>3, ParserOfOption, Zenon
  <2>7. QED
    BY <2>2, <2>5, <2>6, Zenon
<1>2. CASE k = "loglevel"
  <2>1. v \in 0 .. 6
    BY <1>2, Zenon DEF ValueIn
  <2>2. t = Word(LevelNames[v + 1])
    BY <1>2, Zenon DEF accessOptionStringValue
  <2>3. t.form = "word" /\ t.rest = LevelNames[v + 1]
    BY <2>2, SMT DEF Word
  <2>4. Lower(t.rest) = LevelNames[v + 1]
    <3>1. v + 1 \in 1 .. 7
      BY <2>1, SMT
    <3>2. QED
      BY <2>3, <3>1, Levels, Zenon
  <2>5. QED
    BY <1>2, <2>1, <2>3, <2>4, LevelOfWord, ParserOfOption, Zenon
<1>3. CASE k = "duration" \/ k = "bytes"
  <2>0. k = "duration" => v \in Int /\ v < DurationLimit
    BY <1>3, Zenon DEF ValueIn
  <2>1. v \in Nat /\ (k = "bytes" => v < SizeLimit)
    <3>1. k = "bytes" => v \in Nat /\ v < SizeLimit
      BY <1>3, Zenon DEF ValueIn
    <3>2. k = "duration" => v \in Nat /\ k # "bytes"
      BY <2>0, SMT
    <3>3. QED
      BY <1>3, <3>1, <3>2, Zenon
  <2>2. t = Number(v, Empty)
    BY <1>3, Zenon DEF accessOptionStringValue
  <2>3. t.form = "number" /\ t.num = v /\ t.half = FALSE /\ t.rest = Empty
    BY <2>2, SMT DEF Number
  <2>4. t.num >= 0 /\ ~(t.num < 0)
    BY <2>1, <2>3, SMT
  <2>5. CASE k = "bytes"
    <3>1. ~TooManyBytes(t)
      BY <2>1, <2>3, <2>5, SizeLimitAssumption, SMT DEF TooManyBytes
    <3>2. parseByteUnits(t) = Result(v)
      BY <2>3, <2>4, <3>1, Zenon DEF parseByteUnits
    <3>3. QED
      BY <2>5, <3>2, ParserOfOption, Zenon
  <2>6. CASE k = "duration"
    <3>1. convertDurationWithUnit(t) = Result(Count((2 * v + 0) \div 2))
      BY <2>3, <2>4, Zenon DEF convertDurationWithUnit, Count
    <3>2. (2 * v + 0) \div 2 = v
      BY <2>1, SMT
    <3>3. Count(v) = v
      BY <2>0, <2>6, Zenon DEF Count
    <3>4. QED
      BY <2>6, <3>1, <3>2, <3>3, ParserOfOption, Zenon
  <2>7. QED
    BY <1>3, <2>5, <2>6, Zenon
<1>4. CASE k = "string"
  <2>1. t = v
    BY <1>4, Zenon DEF accessOptionStringValue
  <2>2. QED
    BY <1>4, <2>1, ParserOfOption, Zenon
<1>5. QED
  BY <1>1, <1>2, <1>3, <1>4, TypeOfOption, Zenon DEF Kinds

\* Settings are texts of options.
LEMMA SettingsTyped ==
  ASSUME NEW src, \A p \in {"default", "vendor"}, place \in {"ini", "env"} : IsSettings(src[p][place]),
         NEW dyn, IsSettings(dyn),
         NEW place \in {"dynamic", "ini", "env"}, NEW p \in {"default", "vendor"}
  PROVE  IsSettings(Settings(src, dyn, place, p))
<1>1. IsSettings(NoSettings)
  <2>1. DOMAIN NoSettings = {}
    BY SMT DEF NoSettings
  <2>2. QED
    BY <2>1, Zenon DEF IsSettings
<1>2. QED
  BY <1>1, Zenon DEF Settings

-----------------------------------------------------------------------------
(* The text of highest rank *)

\* The first text by place and provider is the one of highest rank.
LEMMA TopTextIs ==
  ASSUME NEW o, NEW files, NEW i \in 1 .. 3, NEW j \in 1 .. 2,
         o \in DOMAIN Settings(sources, DynamicFor(files), Places[i], Providers[j]),
         \A k \in 1 .. 3, l \in 1 .. 2 :
            o \in DOMAIN Settings(sources, DynamicFor(files), Places[k], Providers[l])
                => i < k \/ (i = k /\ j <= l)
  PROVE  /\ Ranked(o, files) # {}
         /\ TopText(o, files) =
                Settings(sources, DynamicFor(files), Places[i], Providers[j])[o]
<1> DEFINE S(k, l) == Settings(sources, DynamicFor(files), Places[k], Providers[l])
           R == Ranked(o, files)
           Top(x) == \A y \in R : 2 * x[1] + x[2] <= 2 * y[1] + y[2]
           top == CHOOSE x \in R : Top(x)
<1>1. R = {x \in (1 .. 3) \X (1 .. 2) : o \in DOMAIN S(x[1], x[2])}
  BY Zenon DEF Ranked
<1>2. TopText(o, files) = S(top[1], top[2])[o]
  BY Zenon DEF TopText
<1> HIDE DEF S, R
<1>3. \A k \in 1 .. 3, l \in 1 .. 2 : o \in DOMAIN S(k, l) => i < k \/ (i = k /\ j <= l)
  BY Zenon DEF S
<1>4. o \in DOMAIN S(i, j)
  BY Zenon DEF S
<1>5. <<i, j>> \in R
  BY <1>1, <1>4, SMT
<1>6. \A x \in R : x \in (1 .. 3) \X (1 .. 2) /\ (i < x[1] \/ (i = x[1] /\ j <= x[2]))
  BY <1>1, <1>3, SMT
<1>7. \A x \in R : 2 * i + j <= 2 * x[1] + x[2]
  BY <1>6, SMT
<1>8. Top(<<i, j>>)
  BY <1>7, SMT
<1>9. top \in R /\ Top(top)
  BY <1>5, <1>8, Zenon
<1>10. 2 * top[1] + top[2] <= 2 * i + j
  BY <1>5, <1>9, SMT
<1> HIDE DEF top
<1>11. top[1] = i /\ top[2] = j
  BY <1>6, <1>9, <1>10, SMT
<1>12. QED
  BY <1>2, <1>5, <1>11, Zenon DEF R, S

\* fetchStringValue finds the text of highest rank.
LEMMA FetchedText ==
  ASSUME NEW o, NEW files
  PROVE  LET text == fetchStringValue(sources, DynamicFor(files), o)
         IN  /\ Ranked(o, files) = {} => text = InvalidArgument
             /\ Ranked(o, files) # {} =>
                    /\ text = Result(TopText(o, files))
                    /\ \E place \in {"dynamic", "ini", "env"}, p \in {"default", "vendor"} :
                         LET s == Settings(sources, DynamicFor(files), place, p)
                         IN  o \in DOMAIN s /\ TopText(o, files) = s[o]
<1> DEFINE dyn == DynamicFor(files)
           S(place, p) == Settings(sources, dyn, place, p)
           H(k, l) == o \in DOMAIN S(Places[k], Providers[l])
           text == fetchStringValue(sources, dyn, o)
           Has(place) == HasValue(sources, dyn, place, o)
           Chain(place) == ChainValue(sources, dyn, place, o)
<1>1. Places[1] = "dynamic" /\ Places[2] = "ini" /\ Places[3] = "env"
  BY SMT DEF Places
<1>2. \/ Providers[1] = "vendor" /\ Providers[2] = "default"
      \/ Providers[1] = "default" /\ Providers[2] = "vendor"
  BY SMT DEF Providers
<1>3. ASSUME NEW place
      PROVE  /\ Has(place) <=> \/ o \in DOMAIN S(place, Providers[1])
                                \/ o \in DOMAIN S(place, Providers[2])
             /\ o \in DOMAIN S(place, Providers[1]) => Chain(place) = S(place, Providers[1])[o]
             /\ o \notin DOMAIN S(place, Providers[1]) => Chain(place) = S(place, Providers[2])[o]
  BY <1>2, Zenon DEF HasValue, ChainValue
<1>4. /\ Has("dynamic") => text = Result(Chain("dynamic"))
      /\ ~Has("dynamic") /\ Has("ini") => text = Result(Chain("ini"))
      /\ ~Has("dynamic") /\ ~Has("ini") /\ Has("env") => text = Result(Chain("env"))
      /\ ~Has("dynamic") /\ ~Has("ini") /\ ~Has("env") => text = InvalidArgument
  BY Zenon DEF fetchStringValue
<1> HIDE DEF text, Has, Chain
<1>5. \A k \in 1 .. 3 : k = 1 \/ k = 2 \/ k = 3
  BY SMT
<1>6. \A l \in 1 .. 2 : l = 1 \/ l = 2
  BY SMT
<1>7. ASSUME NEW k \in 1 .. 3, Has(Places[k]), \A i \in 1 .. 3 : i < k => ~Has(Places[i])
      PROVE  /\ Ranked(o, files) # {} /\ TopText(o, files) = Chain(Places[k])
             /\ \E p \in {"default", "vendor"} :
                   o \in DOMAIN S(Places[k], p) /\ TopText(o, files) = S(Places[k], p)[o]
  <2>1. \A i \in 1 .. 3, l \in 1 .. 2 : H(i, l) => i >= k
    <3>1. TAKE i \in 1 .. 3, l \in 1 .. 2
    <3>2. H(i, l) => Has(Places[i])
      BY <1>3, <1>6, Zenon
    <3>3. QED
      BY <1>7, <3>2, SMT
  <2>2. CASE H(k, 1)
    <3> HIDE DEF S
    <3>1. \A i \in 1 .. 3, l \in 1 .. 2 : H(i, l) => k < i \/ (k = i /\ 1 <= l)
      BY <2>1, SMT
    <3> USE DEF S
    <3>2. Ranked(o, files) # {} /\ TopText(o, files) = S(Places[k], Providers[1])[o]
      <4>1. 1 \in 1 .. 2
        BY SMT
      <4>2. QED
        BY <2>2, <3>1, <4>1, TopTextIs, Zenon
    <3>3. QED
      BY <1>2, <1>3, <2>2, <3>2, Zenon
  <2>3. CASE ~H(k, 1)
    <3>1. H(k, 2)
      BY <1>3, <1>7, <2>3, Zenon
    <3> HIDE DEF S
    <3>2. \A i \in 1 .. 3, l \in 1 .. 2 : H(i, l) => k < i \/ (k = i /\ 2 <= l)
      <4>1. TAKE i \in 1 .. 3, l \in 1 .. 2
      <4>2. CASE l = 1
        <5>1. H(i, l) => i # k
          BY <2>3, <4>2
        <5>2. QED
          BY <2>1, <5>1, SMT
      <4>3. CASE l = 2
        BY <2>1, <4>3, SMT
      <4>4. QED
        BY <1>6, <4>2, <4>3
    <3> USE DEF S
    <3>3. Ranked(o, files) # {} /\ TopText(o, files) = S(Places[k], Providers[2])[o]
      <4>1. 2 \in 1 .. 2
        BY SMT
      <4>2. QED
        BY <3>1, <3>2, <4>1, TopTextIs, Zenon
    <3>4. QED
      BY <1>2, <1>3, <2>3, <3>1, <3>3, Zenon
  <2>4. QED
    BY <2>2, <2>3, Zenon
<1>8. CASE Has("dynamic")
  <2>1. \A i \in 1 .. 3 : i < 1 => ~Has(Places[i])
    BY SMT
  <2>2. 1 \in 1 .. 3 /\ Has(Places[1])
    BY <1>1, <1>8, SMT
  <2>3. QED
    BY <1>1, <1>4, <1>7, <1>8, <2>1, <2>2, Zenon DEF text
<1>9. CASE ~Has("dynamic") /\ Has("ini")
  <2>1. \A i \in 1 .. 3 : i < 2 => ~Has(Places[i])
    BY <1>1, <1>9, SMT
  <2>2. 2 \in 1 .. 3 /\ Has(Places[2])
    BY <1>1, <1>9, SMT
  <2>3. QED
    BY <1>1, <1>4, <1>7, <1>9, <2>1, <2>2, Zenon DEF text
<1>10. CASE ~Has("dynamic") /\ ~Has("ini") /\ Has("env")
  <2>1. \A i \in 1 .. 3 : i < 3 => ~Has(Places[i])
    <3>1. \A i \in 1 .. 3 : i < 3 => i = 1 \/ i = 2
      BY SMT
    <3>2. QED
      BY <1>1, <1>10, <3>1, SMT
  <2>2. 3 \in 1 .. 3 /\ Has(Places[3])
    BY <1>1, <1>10, SMT
  <2>3. QED
    BY <1>1, <1>4, <1>7, <1>10, <2>1, <2>2, Zenon DEF text
<1>11. CASE ~Has("dynamic") /\ ~Has("ini") /\ ~Has("env")
  <2>1. \A k \in 1 .. 3, l \in 1 .. 2 : ~H(k, l)
    <3>1. TAKE k \in 1 .. 3, l \in 1 .. 2
    <3>2. H(k, l) => Has(Places[k])
      BY <1>3, <1>6, Zenon
    <3>3. ~Has(Places[k])
      BY <1>1, <1>5, <1>11, Zenon
    <3>4. QED
      BY <3>2, <3>3
  <2>2. Ranked(o, files) = {}
    <3>1. Ranked(o, files) = {x \in (1 .. 3) \X (1 .. 2) : H(x[1], x[2])}
      BY Zenon DEF Ranked
    <3> HIDE DEF H
    <3>2. QED
      BY <2>1, <3>1, SMT
  <2>3. QED
    BY <1>4, <1>11, <2>2, Zenon DEF text
<1>12. QED
  BY <1>8, <1>9, <1>10, <1>11, Zenon

\* The configurations that may be in shared memory.
Arriving == Remotes \cup {Nothing}

\* The value that an update gives an option is the meaning of the option's text of
\* highest rank, or its default; out of range are numbers that are too large.
LEMMA ConvertedMeansSources ==
  ASSUME sources \in Sources, NEW files \in Arriving, NEW o \in Options, NEW rev
  PROVE  LET v == NewSnapshot(sources, DynamicFor(files), rev, files).values[o]
             top == TopText(o, files)
         IN  /\ ValueIn(o, v)
             /\ Ranked(o, files) = {} => v = Defaults[o]
             /\ Ranked(o, files) # {} /\ Understood(o, top) => v = Meaning(o, top)
             /\ Ranked(o, files) # {} /\ ~Understood(o, top) =>
                    options_[o] \in {"boolean", "bytes"} \/ v = Defaults[o]
             /\ Converted(sources, DynamicFor(files), o).kind = "out_of_range" =>
                    Ranked(o, files) # {} /\ TooLarge(o, top)
<1> DEFINE dyn == DynamicFor(files)
           v == NewSnapshot(sources, dyn, rev, files).values[o]
           top == TopText(o, files)
           text == fetchStringValue(sources, dyn, o)
           r == Converted(sources, dyn, o)
<1>1. v = IF r.kind = "value" THEN r.value ELSE Defaults[o]
  BY SMT DEF NewSnapshot
<1>2. r = IF text.kind = "value" THEN Parsed(o, text.value) ELSE text
  BY Zenon DEF Converted
<1>3. ValueIn(o, Defaults[o])
  BY DefaultIn, ItemsAssumption, Zenon
<1> HIDE DEF v, r, text
<1>4. CASE Ranked(o, files) = {}
  <2>1. text = InvalidArgument
    BY <1>4, FetchedText, Zenon DEF text
  <2>2. r = InvalidArgument
    BY <1>2, <2>1, Kind, SMT
  <2>3. r.kind # "value" /\ r.kind # "out_of_range"
    BY <2>2, Kind, SMT
  <2>4. v = Defaults[o]
    BY <1>1, <2>3, Zenon
  <2>5. QED
    BY <1>3, <1>4, <2>3, <2>4, Zenon DEF v, r
<1>5. CASE Ranked(o, files) # {}
  <2>1. text = Result(top)
    BY <1>5, FetchedText, Zenon DEF text
  <2>2. PICK place \in {"dynamic", "ini", "env"}, p \in {"default", "vendor"} :
            /\ o \in DOMAIN Settings(sources, dyn, place, p)
            /\ top = Settings(sources, dyn, place, p)[o]
    BY <1>5, FetchedText, Zenon
  <2>3. IsSettings(dyn)
    <3>1. DOMAIN NoSettings = {}
      BY SMT DEF NoSettings
    <3>2. IsSettings(NoSettings)
      BY <3>1, Zenon DEF IsSettings
    <3>3. QED
      BY <3>2, DynamicAssumption, Zenon DEF DynamicFor, Arriving
  <2>4. IsSettings(Settings(sources, dyn, place, p))
    BY <2>3, SettingsTyped, SourcesAssumption, Zenon
  <2>5. IsText(top) /\ (o = "log_features" => top.rest \in DOMAIN ItemsOf)
    BY <2>2, <2>4, Zenon DEF IsSettings
  <2>6. r = Parsed(o, top)
    <3>1. text.kind = "value" /\ text.value = top
      BY <2>1, Kind, Zenon
    <3>2. QED
      BY <1>2, <3>1, Zenon
  <2> HIDE DEF top
  <2>8. /\ Understood(o, top) => r = Result(Meaning(o, top))
        /\ ~Understood(o, top) => options_[o] \in {"boolean", "bytes"} \/ r.kind # "value"
        /\ r.kind = "value" => ValueIn(o, r.value)
        /\ r.kind = "out_of_range" => TooLarge(o, top)
    BY <2>5, <2>6, ConversionMeansText, Zenon
  <2>9. ValueIn(o, v)
    BY <1>1, <1>3, <2>8, Zenon
  <2>10. Understood(o, top) => v = Meaning(o, top)
    BY <1>1, <2>8, Kind, Zenon
  <2>11. ~Understood(o, top) => options_[o] \in {"boolean", "bytes"} \/ v = Defaults[o]
    BY <1>1, <2>8, Zenon
  <2>12. QED
    BY <1>5, <2>8, <2>9, <2>10, <2>11, Zenon DEF v, r, top
<1>6. QED
  BY <1>4, <1>5, Zenon

-----------------------------------------------------------------------------
(* The process *)

\* A snapshot made of the sources and of one configuration.
Made(src, s) ==
    /\ s.files \in Arriving
    /\ s.values = NewSnapshot(src, DynamicFor(s.files), 0, s.files).values

\* The log file that is open could be opened.
Openable(l) == l.opened = Empty \/ l.opened \notin Unopenable

\* The logger as the values of a snapshot want it.
Follows(l, v) ==
    /\ l.stderr = v["log_level_stderr"] /\ l.syslog = v["log_level_syslog"]
    /\ l.file = (IF v["log_file"].rest = Empty THEN 0 ELSE v["log_level_file"])
    /\ l.features = parseLogFeatures(ItemsOf[v["log_features"].rest])
    /\ v["log_file"].rest # Empty =>
           l.opened = IF v["log_file"].rest \in Unopenable THEN Empty ELSE v["log_file"].rest

\* The inductive invariant of the process.
ProcessInv ==
    /\ sources \in Sources /\ arrived \in Arriving /\ local \in Arriving
    /\ pc \in {"starting", "running", "idle", "terminated"}
    /\ pc = "starting" => config.revision = 0 /\ upcoming = 1
    /\ config.values = Defaults \/ Made(sources, config)
    /\ pc \in {"running", "idle"} =>
           Made(sources, config) /\ Made(sources, current) /\ Follows(logger, config.values)
    /\ Openable(logger)
    /\ pc = "terminated" => \E f \in Arriving : Throws(sources, DynamicFor(f))

\* loggerConfigUpdateFunc makes the logger follow the snapshot, whatever it was before.
LEMMA LoggerUpdated ==
  ASSUME NEW l, Openable(l), NEW v
  PROVE  LET n == loggerConfigUpdateFunc(l, v) IN Follows(n, v) /\ Openable(n)
<1> DEFINE n == loggerConfigUpdateFunc(l, v)
           file == v["log_file"].rest
<1>1. /\ n.stderr = v["log_level_stderr"] /\ n.syslog = v["log_level_syslog"]
      /\ n.file = (IF file = Empty THEN 0 ELSE v["log_level_file"])
      /\ n.features = parseLogFeatures(ItemsOf[v["log_features"].rest])
      /\ n.opened = IF file = Empty THEN l.opened ELSE reopen(l.opened, file)
  BY SMT DEF loggerConfigUpdateFunc
<1> HIDE DEF n
<1>2. ASSUME file # Empty
      PROVE  reopen(l.opened, file) = IF file \in Unopenable THEN Empty ELSE file
  BY <1>2, Zenon DEF reopen, Openable
<1>3. Follows(n, v)
  BY <1>1, <1>2, Zenon DEF Follows
<1>4. Openable(n)
  BY <1>1, <1>2, Zenon DEF Openable
<1>5. QED
  BY <1>3, <1>4, Zenon DEF n

\* An update makes a snapshot of its sources.
LEMMA SnapshotMade ==
  ASSUME NEW src, NEW files \in Arriving, NEW rev
  PROVE  LET s == NewSnapshot(src, DynamicFor(files), rev, files)
         IN  Made(src, s) /\ s.revision = rev
<1> DEFINE s == NewSnapshot(src, DynamicFor(files), rev, files)
<1>1. s.files = files /\ s.revision = rev
  BY SMT DEF NewSnapshot
<1>2. s.values = NewSnapshot(src, DynamicFor(files), 0, files).values
  <2> DEFINE values == [o \in Options |->
                           LET r == Converted(src, DynamicFor(files), o)
                           IN  IF r.kind = "value" THEN r.value ELSE Defaults[o]]
  <2>1. \A n : NewSnapshot(src, DynamicFor(files), n, files) =
                   [revision |-> n, files |-> files, values |-> values]
    BY Zenon DEF NewSnapshot
  <2> HIDE DEF values
  <2>2. QED
    BY <2>1, SMT
<1>3. QED
  BY <1>1, <1>2, Zenon DEF Made

\* Without files the vendor has no dynamic texts.
LEMMA NothingArrived == DynamicFor(Nothing) = NoSettings /\ Nothing \in Arriving
  BY Zenon DEF DynamicFor, Arriving

\* Every step keeps the invariant.
LEMMA ProcessStep == ProcessInv /\ [ConfigNext]_configVars => ProcessInv'
<1> SUFFICES ASSUME ProcessInv, [ConfigNext]_configVars PROVE ProcessInv'
  OBVIOUS
<1>1. CASE ModuleInit
  <2>1. /\ pc = "starting" /\ config.revision = 0 /\ upcoming = 1
        /\ sources \in Sources /\ arrived \in Arriving /\ local \in Arriving
        /\ config.values = Defaults \/ Made(sources, config)
        /\ Openable(logger)
    BY <1>1, Zenon DEF ModuleInit, ProcessInv
  <2>2. UNCHANGED <<sources, arrived>>
    BY <1>1, Zenon DEF ModuleInit
  <2>3. CASE Throws(sources, NoSettings)
    <3>1. local' = local /\ pc' = "terminated" /\ config' = config /\ logger' = logger
      BY <1>1, <2>3, Zenon DEF ModuleInit, UpdateThrows
    <3>2. \E f \in Arriving : Throws(sources', DynamicFor(f))
      BY <2>2, <2>3, NothingArrived, Zenon
    <3>3. QED
      BY <2>1, <2>2, <3>1, <3>2, Zenon DEF ProcessInv
  <2>4. CASE ~Throws(sources, NoSettings)
    <3> DEFINE first == NewSnapshot(sources, NoSettings, upcoming + 1, Nothing)
               second == NewSnapshot(sources, DynamicFor(arrived), upcoming + 2, arrived)
               enabled == first.values["enabled"]
               late == enabled /\ arrived # local
    <3>1. /\ Refresh(first, config, logger)
          /\ local' = IF late THEN arrived ELSE local
          /\ IF late /\ Throws(sources, DynamicFor(arrived))
             THEN current' = first /\ pc' = "terminated"
             ELSE current' = (IF late THEN second ELSE first) /\ pc' = IF enabled THEN "running" ELSE "idle"
      BY <1>1, <2>4, Zenon DEF ModuleInit
    <3>2. Made(sources, first) /\ first.revision = 2
      <4>1. first = NewSnapshot(sources, DynamicFor(Nothing), 2, Nothing)
        BY <2>1, NothingArrived, SMT
      <4> DEFINE s == NewSnapshot(sources, DynamicFor(Nothing), 2, Nothing)
      <4>2. Made(sources, s) /\ s.revision = 2
        BY SnapshotMade, NothingArrived, Zenon
      <4> HIDE DEF first, s
      <4>3. QED
        BY <4>1, <4>2, Zenon DEF s
    <3>3. Made(sources, second)
      BY <2>1, SnapshotMade, Zenon
    <3> HIDE DEF first, second, late, enabled
    <3>4. config' = first /\ logger' = loggerConfigUpdateFunc(logger, first.values)
      <4>1. config.revision # first.revision
        BY <2>1, <3>2, SMT
      <4>2. QED
        BY <3>1, <4>1, Zenon DEF Refresh
    <3>5. Follows(logger', config'.values) /\ Openable(logger') /\ Made(sources', config')
      BY <2>1, <2>2, <3>2, <3>4, LoggerUpdated, Zenon
    <3>6. local' \in Arriving
      BY <2>1, <3>1, Zenon
    <3>7. CASE late /\ Throws(sources, DynamicFor(arrived))
      BY <2>1, <2>2, <3>1, <3>5, <3>6, <3>7, Zenon DEF ProcessInv
    <3>8. CASE ~(late /\ Throws(sources, DynamicFor(arrived)))
      <4>1. pc' \in {"running", "idle"} /\ Made(sources', current')
        BY <2>2, <3>1, <3>2, <3>3, <3>8, Zenon
      <4>2. QED
        BY <2>1, <2>2, <3>5, <3>6, <4>1, Zenon DEF ProcessInv
    <3>9. QED
      BY <3>7, <3>8, Zenon
  <2>5. QED
    BY <2>3, <2>4, Zenon
<1>2. ASSUME NEW r \in Remotes, RemoteArrives(r) PROVE ProcessInv'
  <2>1. arrived' \in Arriving
    BY <1>2, Zenon DEF RemoteArrives, Arriving
  <2>2. UNCHANGED <<sources, local, upcoming, current, config, logger, pc>>
    BY <1>2, Zenon DEF RemoteArrives
  <2>3. QED
    BY <2>1, <2>2, Zenon DEF ProcessInv
<1>3. CASE onRequestInit
  <2>1. /\ pc \in {"running", "idle"} /\ sources \in Sources /\ arrived \in Arriving
        /\ Made(sources, config) /\ Made(sources, current) /\ Follows(logger, config.values) /\ Openable(logger)
    BY <1>3, Zenon DEF onRequestInit, ProcessInv
  <2>2. UNCHANGED <<sources, arrived>> /\ local' = arrived
    BY <1>3, Zenon DEF onRequestInit
  <2>3. ASSUME NEW s, Made(sources, s), Refresh(s, config, logger)
        PROVE  Made(sources', config') /\ Follows(logger', config'.values) /\ Openable(logger')
    BY <2>1, <2>2, <2>3, LoggerUpdated, Zenon DEF Refresh
  <2>4. CASE pc = "idle" \/ arrived = local
    <3>1. Refresh(current, config, logger) /\ UNCHANGED <<current, pc>>
      BY <1>3, <2>4, Zenon DEF onRequestInit
    <3>2. Made(sources', config') /\ Follows(logger', config'.values) /\ Openable(logger')
      BY <2>1, <2>3, <3>1, Zenon
    <3>3. QED
      BY <2>1, <2>2, <3>1, <3>2, Zenon DEF ProcessInv
  <2>5. CASE pc = "running" /\ arrived # local /\ Throws(sources, DynamicFor(arrived))
    <3>1. pc' = "terminated" /\ UNCHANGED <<config, logger>>
      BY <1>3, <2>5, Zenon DEF onRequestInit, UpdateThrows
    <3>2. \E f \in Arriving : Throws(sources', DynamicFor(f))
      BY <2>1, <2>2, <2>5, Zenon
    <3>3. QED
      BY <2>1, <2>2, <3>1, <3>2, Zenon DEF ProcessInv
  <2>6. CASE pc = "running" /\ arrived # local /\ ~Throws(sources, DynamicFor(arrived))
    <3> DEFINE new == NewSnapshot(sources, DynamicFor(arrived), upcoming + 1, arrived)
    <3>1. current' = new /\ Refresh(new, config, logger) /\ UNCHANGED pc
      BY <1>3, <2>6, Zenon DEF onRequestInit
    <3>2. Made(sources, new)
      BY <2>1, SnapshotMade, Zenon
    <3> HIDE DEF new
    <3>3. Made(sources', config') /\ Follows(logger', config'.values) /\ Openable(logger')
      BY <2>3, <3>1, <3>2, Zenon
    <3>4. Made(sources', current')
      BY <2>2, <3>1, <3>2, Zenon
    <3>5. QED
      BY <2>1, <2>2, <3>1, <3>3, <3>4, Zenon DEF ProcessInv
  <2>7. QED
    BY <2>1, <2>4, <2>5, <2>6, Zenon
<1>4. ASSUME NEW s \in Signals, Connect(s) PROVE ProcessInv'
  <2>1. UNCHANGED <<sources, arrived, local, upcoming, current, config, logger, pc>>
    BY <1>4, Zenon DEF Connect
  <2>2. QED
    BY <2>1, Zenon DEF ProcessInv
<1>5. CASE UNCHANGED configVars
  <2>1. UNCHANGED <<sources, arrived, local, upcoming, current, config, logger, pc>>
    BY <1>5, Zenon DEF configVars
  <2>2. QED
    BY <2>1, Zenon DEF ProcessInv
<1>6. QED
  BY <1>1, <1>2, <1>3, <1>4, <1>5, Zenon DEF ConfigNext

\* The invariant holds in every state of the process.
LEMMA ProcessSafe == ConfigSpec => []ProcessInv
<1>1. ConfigInit => ProcessInv
  <2> SUFFICES ASSUME ConfigInit PROVE ProcessInv
    OBVIOUS
  <2>1. sources \in Sources /\ arrived = Nothing /\ local = Nothing /\ upcoming = 1 /\ pc = "starting"
    BY Zenon DEF ConfigInit
  <2>2. config.revision = 0 /\ config.values = Defaults
    BY SMT DEF ConfigInit
  <2>3. logger.opened = Empty
    BY SMT DEF ConfigInit
  <2>4. QED
    BY <2>1, <2>2, <2>3, NothingArrived, Zenon DEF ProcessInv, Openable
<1>2. QED
  BY <1>1, ProcessStep, PTL DEF ConfigSpec

\* A snapshot of a started process has the meaning of its sources, option by option,
\* with the defaults compiled in and counts that do not fit an integer cut to what
\* they become; what phpinfo() shows means the value it is shown for, unless it is a
\* negative duration; and a process ends only on a number out of range.
THEOREM SnapshotFromSources == ConfigSpec => []SnapshotMeansSources
<1>1. ProcessInv => SnapshotMeansSources
  <2> SUFFICES ASSUME ProcessInv PROVE SnapshotMeansSources
    OBVIOUS
  <2>1. sources \in Sources
    BY Zenon DEF ProcessInv
  <2>2. ASSUME Made(sources, config), NEW o \in Options
        PROVE  LET v == config.values[o]
                   top == TopText(o, config.files)
                   ranked == Ranked(o, config.files)
               IN  /\ ValueIn(o, v)
                   /\ ranked = {} => v = Defaults[o]
                   /\ ranked # {} /\ Understood(o, top) => v = Meaning(o, top)
                   /\ ranked # {} /\ ~Understood(o, top) =>
                          options_[o] \in {"boolean", "bytes"} \/ v = Defaults[o]
    <3> DEFINE files == config.files
               n == NewSnapshot(sources, DynamicFor(files), 0, files).values
    <3>1. files \in Arriving /\ config.values = n
      BY <2>2, Zenon DEF Made
    <3> HIDE DEF files
    <3>2. LET v == n[o]
              top == TopText(o, files)
              ranked == Ranked(o, files)
          IN  /\ ValueIn(o, v)
              /\ ranked = {} => v = Defaults[o]
              /\ ranked # {} /\ Understood(o, top) => v = Meaning(o, top)
              /\ ranked # {} /\ ~Understood(o, top) =>
                     options_[o] \in {"boolean", "bytes"} \/ v = Defaults[o]
      BY <2>1, <3>1, ConvertedMeansSources, Zenon
    <3> HIDE DEF n
    <3>3. QED
      BY <3>1, <3>2, Zenon DEF files
  <2>3. ASSUME NEW o \in Options PROVE ValueIn(o, config.values[o])
    <3>1. CASE Made(sources, config)
      BY <2>2, <3>1, Zenon
    <3>2. CASE config.values = Defaults
      BY <3>2, DefaultIn, ItemsAssumption, Zenon
    <3>3. QED
      BY <3>1, <3>2, Zenon DEF ProcessInv
  <2>4. \A o \in Options :
            \/ options_[o] = "duration" /\ config.values[o] < 0
            \/ Parsed(o, accessOptionStringValue(o, config.values[o])) = Result(config.values[o])
    BY <2>3, ShownText, Zenon
  <2>5. ASSUME pc = "terminated"
        PROVE  \E o \in Options, f \in Arriving :
                   /\ Ranked(o, f) # {}
                   /\ \/ TopText(o, f) = Huge
                      \/ options_[o] = "bytes" /\ TooManyBytes(TopText(o, f))
    <3>1. PICK f \in Arriving : Throws(sources, DynamicFor(f))
      BY <2>5, Zenon DEF ProcessInv
    <3>2. PICK o \in Options : Converted(sources, DynamicFor(f), o).kind = "out_of_range"
      BY <3>1, Zenon DEF Throws
    <3>3. Ranked(o, f) # {} /\ TooLarge(o, TopText(o, f))
      BY <2>1, <3>2, ConvertedMeansSources, Zenon
    <3>4. QED
      BY <3>3, Zenon DEF TooLarge
  <2>6. ASSUME NEW o \in Options, NEW v, config.values[o] = v,
               ~(options_[o] = "bytes" /\ v >= SizeLimit \div 2)
        PROVE  getConfigOptionbyName(o).value = v
    <3> DEFINE found == getOptionValue(o, config)
               wraps == found.type = "bytes" /\ found.value >= SizeLimit \div 2
    <3>1. found.type = options_[o] /\ found.value = v
      BY <2>6, SMT DEF getOptionValue
    <3>2. ~wraps
      BY <2>6, <3>1, Zenon
    <3>3. getConfigOptionbyName(o) =
             [type |-> PhpTypes[found.type], value |-> IF wraps THEN found.value - SizeLimit ELSE found.value]
      BY Zenon DEF getConfigOptionbyName
    <3> HIDE DEF found, wraps
    <3>4. getConfigOptionbyName(o).value = found.value
      BY <3>2, <3>3, SMT
    <3>5. QED
      BY <3>1, <3>4, Zenon
  <2>7. ASSUME Started, NEW o \in Options
        PROVE  LET files == config.files
                   Reads(v) == IF options_[o] = "bytes" /\ v >= SizeLimit \div 2 THEN config.values[o] = v
                               ELSE getConfigOptionbyName(o).value = v
               IN  CASE Ranked(o, files) = {} -> Reads(Defaults[o])
                     [] Ranked(o, files) # {} /\ Understood(o, TopText(o, files)) ->
                            Reads(Meaning(o, TopText(o, files)))
                     [] Ranked(o, files) # {} /\ ~Understood(o, TopText(o, files)) ->
                            options_[o] \in {"boolean", "bytes"} \/ Reads(Defaults[o])
    <3> DEFINE Reads(v) == IF options_[o] = "bytes" /\ v >= SizeLimit \div 2 THEN config.values[o] = v
                           ELSE getConfigOptionbyName(o).value = v
               ranked == Ranked(o, config.files)
               top == TopText(o, config.files)
    <3>1. \A v : config.values[o] = v => Reads(v)
      BY <2>6, Zenon
    <3>2. Made(sources, config)
      BY <2>7, Zenon DEF ProcessInv, Started
    <3> HIDE DEF Reads
    <3>3. /\ ranked = {} => Reads(Defaults[o])
          /\ ranked # {} /\ Understood(o, top) => Reads(Meaning(o, top))
          /\ ranked # {} /\ ~Understood(o, top) =>
                 options_[o] \in {"boolean", "bytes"} \/ Reads(Defaults[o])
      BY <2>2, <3>1, <3>2, Zenon
    <3>4. QED
      BY <3>3, Zenon DEF Reads
  <2>8. QED
    BY <2>4, <2>5, <2>7, Zenon DEF SnapshotMeansSources, Arriving
<1>2. QED
  BY <1>1, ProcessSafe, PTL

-----------------------------------------------------------------------------
(* The logger *)

Less == {p \in Nat \X Nat : p[1] < p[2]}

\* A nonempty set of naturals has a least element.
LEMMA LeastElement ==
    ASSUME NEW T, T \subseteq Nat, T # {}
    PROVE  \E x \in T : \A y \in T : x <= y
<1>1. IsWellFoundedOn(Less, Nat)
  BY NatLessThanWellFounded, Zenon DEF OpToRel, Less
<1>2. \E x \in T : \A y \in T : <<y, x>> \notin Less
  BY <1>1, WFMin
<1>3. \A x, y \in Nat : <<y, x>> \in Less <=> y < x
  BY DEF Less
<1>4. PICK x \in T : \A y \in T : <<y, x>> \notin Less
  BY <1>2
<1>5. ASSUME NEW y \in T PROVE x <= y
  <2>1. x \in Nat /\ y \in Nat /\ ~ (y < x)
    BY <1>3, <1>4
  <2> QED
    BY <2>1
<1> QED
  BY <1>4, <1>5

\* parseLogFeatures keeps the first valid item of each feature.
LEMMA FeaturesParsed ==
  ASSUME NEW items \in Seq([feature : STRING, level : STRING])
  PROVE  LET Asked(f) == {i \in DOMAIN items : ValidItem(items[i]) /\ items[i].feature = f}
             parsed == parseLogFeatures(items)
         IN  /\ DOMAIN parsed = {f \in LogFeatures : Asked(f) # {}}
             /\ \A f \in DOMAIN parsed : \E i \in Asked(f) :
                  /\ \A j \in Asked(f) : i <= j
                  /\ parsed[f] = parseLogLevel(Word(items[i].level)).value
<1> DEFINE Asked(f) == {i \in DOMAIN items : ValidItem(items[i]) /\ items[i].feature = f}
           parsed == parseLogFeatures(items)
           Least(f) == CHOOSE i \in Asked(f) : \A j \in Asked(f) : i <= j
<1>1. parsed = [f \in {g \in LogFeatures : Asked(g) # {}} |->
                   parseLogLevel(Word(items[Least(f)].level)).value]
  BY Zenon DEF parseLogFeatures
<1> HIDE DEF parsed
<1>2. \A f : Asked(f) \in SUBSET Nat
  BY SMT
<1> HIDE DEF Asked
<1>3. ASSUME NEW f, Asked(f) # {} PROVE Least(f) \in Asked(f) /\ \A j \in Asked(f) : Least(f) <= j
  <2>1. \E i \in Asked(f) : \A j \in Asked(f) : i <= j
    BY <1>2, <1>3, LeastElement
  <2>2. QED
    BY <2>1, Zenon
<1> HIDE DEF Least
<1>4. DOMAIN parsed = {f \in LogFeatures : Asked(f) # {}}
  BY <1>1, Zenon
<1>5. ASSUME NEW f \in DOMAIN parsed
      PROVE  \E i \in Asked(f) : /\ \A j \in Asked(f) : i <= j
                                 /\ parsed[f] = parseLogLevel(Word(items[i].level)).value
  <2>1. f \in {g \in LogFeatures : Asked(g) # {}} /\ Asked(f) # {}
    BY <1>4, Zenon
  <2>2. parsed[f] = parseLogLevel(Word(items[Least(f)].level)).value
    BY <1>1, <2>1, Zenon
  <2>3. QED
    BY <1>3, <2>1, <2>2, Zenon
<1>6. QED
  BY <1>4, <1>5, Zenon DEF Asked, parsed

\* The valid items of a feature, whether the first of them lets a message pass, and
\* whether it passes.
AskedItems(items, f) == {i \in DOMAIN items : ValidItem(items[i]) /\ items[i].feature = f}
ItemsLet(items, level, f) ==
    \E i \in AskedItems(items, f) : /\ \A j \in AskedItems(items, f) : i <= j
                                    /\ level <= parseLogLevel(Word(items[i].level)).value
ItemsPass(items, level, f) ==
    \/ \A g \in LogFeatures : AskedItems(items, g) = {}
    \/ \E g \in {f, "ALL"} : /\ AskedItems(items, g) # {} /\ (g # f => AskedItems(items, f) = {})
                             /\ ItemsLet(items, level, g)

\* A message passes the features of a logger when the first valid item of its own
\* feature lets it, or, without one, that of all features.
LEMMA FeaturesPass ==
  ASSUME NEW items \in Seq([feature : STRING, level : STRING]), NEW level, NEW f \in LogFeatures,
         NEW l, l.features = parseLogFeatures(items)
  PROVE  LET none == \A g \in LogFeatures : AskedItems(items, g) = {}
             meets == doesFeatureMeetsLevelCondition(l, level, f)
         IN  /\ none => (meets <=> \E s \in Sinks : level <= l[s])
             /\ ~none => (meets <=> ItemsPass(items, level, f))
<1> DEFINE Asked(g) == {i \in DOMAIN items : ValidItem(items[i]) /\ items[i].feature = g}
           Value(i) == parseLogLevel(Word(items[i].level)).value
           Least(g, i) == i \in Asked(g) /\ \A j \in Asked(g) : i <= j
           Lets(g) == \E i \in Asked(g) : (\A j \in Asked(g) : i <= j) /\ level <= Value(i)
           none == \A g \in LogFeatures : Asked(g) = {}
           meets == doesFeatureMeetsLevelCondition(l, level, f)
           parsed == l.features
<1>1. DOMAIN parsed = {g \in LogFeatures : Asked(g) # {}}
  BY FeaturesParsed, Zenon
<1>2. \A g \in DOMAIN parsed : \E i \in Asked(g) : (\A j \in Asked(g) : i <= j) /\ parsed[g] = Value(i)
  <2> DEFINE p == parseLogFeatures(items)
  <2>1. \A g \in DOMAIN p : \E i \in Asked(g) : (\A j \in Asked(g) : i <= j) /\ p[g] = Value(i)
    BY FeaturesParsed, Zenon
  <2>2. parsed = p
    BY Zenon
  <2> HIDE DEF p, parsed
  <2>3. QED
    BY <2>1, <2>2, Zenon
<1>3. \A g : Asked(g) \in SUBSET Nat
  BY SMT
<1> HIDE DEF Asked, Value
<1>4. ASSUME NEW g \in DOMAIN parsed PROVE Lets(g) <=> level <= parsed[g]
  <2>1. PICK i \in Asked(g) : (\A j \in Asked(g) : i <= j) /\ parsed[g] = Value(i)
    BY <1>2, <1>4, Zenon
  <2>2. ASSUME NEW k \in Asked(g), \A j \in Asked(g) : k <= j PROVE k = i
    <3>1. k \in Nat /\ i \in Nat /\ k <= i /\ i <= k
      BY <1>3, <2>1, <2>2, SMT
    <3>2. QED
      BY <3>1, SMT
  <2>3. QED
    BY <2>1, <2>2, Zenon
<1> HIDE DEF Lets
<1>5. none <=> DOMAIN parsed = {}
  BY <1>1, Zenon
<1>6. /\ DOMAIN parsed = {} => (meets <=> \E s \in Sinks : level <= l[s])
      /\ f \in DOMAIN parsed => (meets <=> level <= parsed[f])
      /\ DOMAIN parsed # {} /\ f \notin DOMAIN parsed => (meets <=> "ALL" \in DOMAIN parsed /\ level <= parsed["ALL"])
  BY Zenon DEF doesFeatureMeetsLevelCondition
<1>7. "ALL" \in LogFeatures
  BY Zenon DEF LogFeatures
<1> HIDE DEF meets, parsed
<1>8. ASSUME ~none
      PROVE  meets <=> \E g \in {f, "ALL"} : Asked(g) # {} /\ (g # f => Asked(f) = {}) /\ Lets(g)
  <2>1. CASE f \in DOMAIN parsed
    <3>1. Asked(f) # {} /\ (meets <=> Lets(f))
      BY <1>1, <1>4, <1>6, <2>1, Zenon
    <3>2. QED
      BY <3>1, Zenon
  <2>2. CASE f \notin DOMAIN parsed
    <3>1. Asked(f) = {} /\ DOMAIN parsed # {}
      BY <1>1, <1>5, <1>8, <2>2, Zenon
    <3>2. meets <=> "ALL" \in DOMAIN parsed /\ level <= parsed["ALL"]
      BY <1>6, <2>2, <3>1, Zenon
    <3>3. "ALL" \in DOMAIN parsed <=> Asked("ALL") # {}
      BY <1>1, <1>7, Zenon
    <3>4. QED
      BY <1>4, <3>1, <3>2, <3>3, Zenon
  <2>3. QED
    BY <2>1, <2>2, Zenon
<1>9. QED
  BY <1>5, <1>6, <1>8, Zenon DEF Asked, Value, Lets, meets, parsed, AskedItems, ItemsLet, ItemsPass

\* Every message of a started process goes to the sinks its snapshot asks for, the
\* logger's past notwithstanding.
THEOREM LoggerFollows == ConfigSpec => []LoggerFollowsConfig
<1>1. ProcessInv => LoggerFollowsConfig
  <2> SUFFICES ASSUME ProcessInv, Started PROVE LoggerFollowsConfig
    BY Zenon DEF LoggerFollowsConfig
  <2> DEFINE v == config.values
             file == v["log_file"].rest
             items == ItemsOf[v["log_features"].rest]
             Wants(s) == CASE s = "stderr" -> v["log_level_stderr"]
                           [] s = "syslog" -> v["log_level_syslog"]
                           [] s = "file" -> IF file \in Unopenable \cup {Empty} THEN 0
                                            ELSE v["log_level_file"]
  <2>1. Follows(logger, v) /\ Made(sources, config) /\ sources \in Sources
    BY Zenon DEF ProcessInv, Started
  <2>2. items \in Seq([feature : STRING, level : STRING])
    <3>1. "log_features" \in Options /\ options_["log_features"] = "string"
      <4>1. "log_features" \in OptionNames["string"]
        BY SMT DEF OptionNames
      <4>2. QED
        BY <4>1, TypeOfOption, Zenon DEF Kinds
    <3> DEFINE files == config.files
               n == NewSnapshot(sources, DynamicFor(files), 0, files).values
    <3>2. files \in Arriving /\ v = n
      BY <2>1, Zenon DEF Made
    <3>3. ValueIn("log_features", n["log_features"])
      BY <2>1, <3>1, <3>2, ConvertedMeansSources, Zenon
    <3> HIDE DEF n
    <3>4. v["log_features"].rest \in DOMAIN ItemsOf
      BY <3>1, <3>2, <3>3, Zenon DEF ValueIn
    <3>5. QED
      BY <3>4, ItemsAssumption, Zenon
  <2>3. Sinks = {"stderr", "syslog", "file"}
    BY Zenon DEF Sinks
  <2>4. ASSUME NEW level \in LogLevels \ {0}, NEW s \in Sinks
        PROVE  level <= Wants(s) <=> level <= logger[s] /\ (s = "file" => logger.opened # Empty)
    <3>1. ~(level <= 0)
      BY <2>4, Levels, SMT
    <3>2. CASE s = "stderr"
      BY <2>1, <3>2, Zenon DEF Follows
    <3>3. CASE s = "syslog"
      BY <2>1, <3>3, Zenon DEF Follows
    <3>4. CASE s = "file"
      BY <2>1, <3>1, <3>4, Zenon DEF Follows
    <3>5. QED
      BY <2>3, <3>2, <3>3, <3>4, Zenon
  <2>5. ASSUME NEW level \in LogLevels \ {0}, NEW f \in LogFeatures
        PROVE  /\ WrittenTo(logger, level, f) =
                      {s \in Sinks : level <= Wants(s) /\ ItemsPass(items, level, f)}
               /\ "file" \in WrittenTo(logger, level, f) => logger.opened = v["log_file"].rest
    <3> DEFINE none == \A g \in LogFeatures : AskedItems(items, g) = {}
               meets == doesFeatureMeetsLevelCondition(logger, level, f)
               written == WrittenTo(logger, level, f)
    <3>1. logger.features = parseLogFeatures(items)
      BY <2>1, Zenon DEF Follows
    <3> HIDE DEF items
    <3>2. /\ none => (meets <=> \E s \in Sinks : level <= logger[s])
          /\ ~none => (meets <=> ItemsPass(items, level, f))
      BY <2>2, <3>1, FeaturesPass, Zenon
    <3>3. none => ItemsPass(items, level, f)
      BY Zenon DEF ItemsPass
    <3>4. written = IF meets
                    THEN {s \in Sinks : level <= logger[s] /\ (s = "file" => logger.opened # Empty)}
                    ELSE {}
      BY Zenon DEF WrittenTo
    <3> HIDE DEF none, meets, written, Wants
    <3>5. \A s : s \in written <=> s \in Sinks /\ level <= Wants(s) /\ ItemsPass(items, level, f)
      BY <2>4, <3>2, <3>3, <3>4, Zenon
    <3>6. written = {s \in Sinks : level <= Wants(s) /\ ItemsPass(items, level, f)}
      BY <3>5, Zenon
    <3>7. "file" \in written => logger.opened = file
      <4>1. "file" \in written => logger.opened # Empty /\ level <= Wants("file")
        BY <3>4, <3>5, Zenon
      <4>2. ~(level <= 0)
        BY <2>5, Levels, SMT
      <4>3. level <= Wants("file") => file # Empty
        BY <4>2, Zenon DEF Wants
      <4>4. QED
        BY <2>1, <4>1, <4>3, Zenon DEF Follows
    <3>8. QED
      BY <3>6, <3>7, Zenon DEF written, Wants, items
  <2>6. QED
    BY <2>5, Zenon DEF LoggerFollowsConfig, ItemsPass, ItemsLet, AskedItems
<1>2. QED
  BY <1>1, ProcessSafe, PTL
=============================================================================
