------------------------ MODULE OpAmpHeartbeatProofs ------------------------
(***************************************************************************)
(* Theorems about OpAmpHeartbeat, for any intervals, configurations and    *)
(* answers of the server.                                                  *)
(***************************************************************************)
EXTENDS OpAmpHeartbeat, TLAPS

Places ==
    /\ owner \in {"created", "running", "released", "stopping", "joining", "stopped"}
    /\ thread \in {"none", "starting", "loop", "waiting", "sending", "over"}
    /\ handler \in {"idle", "config", "watchers", "intervals", "unlock", "end"}
    /\ mutex \in {None, "heartbeat"} /\ configAccessMutex \in {None, "http"}

Flags ==
    /\ keep \in BOOLEAN /\ working \in BOOLEAN /\ stuck \in BOOLEAN
    /\ idle \in BOOLEAN /\ burst \in BOOLEAN /\ unpaced \in BOOLEAN

Times ==
    /\ heartbeatInterval \in Durations /\ pollingInterval \in Durations
    /\ toHeartbeat \in Nat /\ toPoll \in Nat /\ toWake \in Nat

Messages ==
    /\ message \in Answers \cup {None}
    /\ currentConfigHash \in Hashes \cup {None}
    /\ inFlight \in 0 .. MaxInFlight

TypeOK == Places /\ Flags /\ Times /\ Messages

\* Who holds the mutex of the heartbeat thread.
MutexInv ==
    /\ mutex = "heartbeat" => thread \in {"loop", "sending"}
    /\ thread = "sending" => mutex = "heartbeat"

\* The thread of a client that was not started, or is stopped.
StoppedInv == owner \in {"created", "stopped"} => thread = "none"

\* The transport's thread looks options up for configurations only.
ConfigInv == handler \in {"config", "watchers", "intervals"} =>
                 message \in Answers /\ message.hash \in Hashes

\* While every interval that came in unchecked sets a distance, a heartbeat leaves
\* both deadlines in the future, where they stay until time passes.
SpacingInv ==
    /\ ~unpaced => heartbeatInterval \in Paced /\ pollingInterval \in Paced
    /\ ~unpaced /\ ~idle => toHeartbeat > 0 /\ toPoll > 0
    /\ burst => unpaced

IInv == TypeOK /\ MutexInv /\ StoppedInv /\ ConfigInv /\ SpacingInv

-----------------------------------------------------------------------------

\* What fits into 64 bits is a duration.
LEMMA SignedFits ==
    ASSUME NEW n \in Int
    PROVE  Signed(n) \in Durations
<1>1. Half \in Nat /\ Half > 0
  BY WidthAssumption
<1>2. (n + Half) % (2 * Half) \in 0 .. (2 * Half) - 1
  <2> DEFINE m == n + Half
             w == 2 * Half
  <2>1. m \in Int /\ w \in Nat /\ w > 0
    BY <1>1
  <2> HIDE DEF m, w
  <2>2. m % w \in 0 .. w - 1
    BY <2>1
  <2> QED
    BY <2>2 DEF m, w
<1> DEFINE k == (n + Half) % (2 * Half)
<1>3. k \in 0 .. (2 * Half) - 1
  BY <1>2
<1> HIDE DEF k
<1>4. k - Half \in Durations
  BY <1>1, <1>3 DEF Durations
<1> QED
  BY <1>4 DEF Signed, k

\* The intervals of a server are durations, however they wrap around.
LEMMA MillisecondsFit ==
    ASSUME NEW s \in Int
    PROVE  Milliseconds(s) \in Durations
<1>1. Signed(s) \in Int
  BY SignedFits, WidthAssumption DEF Durations
<1>2. PerSecond * Signed(s) \in Int
  BY <1>1, WidthAssumption
<1> QED
  BY <1>2, SignedFits DEF Milliseconds

\* A deadline is not in the past, and in the future if the interval sets a distance.
LEMMA DeadlineAhead ==
    ASSUME NEW i \in Durations, NEW left \in TimeLeft(i)
    PROVE  left \in Nat /\ (i \in Paced => left > 0)
  BY WidthAssumption DEF TimeLeft, Paced, Durations

\* The state a new client is in.
LEMMA InitInv == Init => IInv
<1> SUFFICES ASSUME Init PROVE IInv
  OBVIOUS
<1>1. Places /\ Flags
  BY DEF Init, Places, Flags
<1>2. Times /\ Messages
  BY BoundAssumption, WidthAssumption DEF Init, Times, Messages, Durations
<1>3. MutexInv /\ StoppedInv /\ ConfigInv
  BY NoneAssumption DEF Init, MutexInv, StoppedInv, ConfigInv
<1>4. SpacingInv
  BY WidthAssumption DEF Init, SpacingInv, Paced
<1> QED
  BY <1>1, <1>2, <1>3, <1>4 DEF IInv, TypeOK

\* The deadlines after those that have passed were set again.
LEMMA RescheduleKeeps ==
    ASSUME Times, Flags, SpacingInv, Reschedule, UNCHANGED intervalVars
    PROVE  /\ thread' \in {"sending", "loop"} /\ idle' \in BOOLEAN /\ burst' \in BOOLEAN
           /\ 0 \in {toHeartbeat, toPoll} => thread' = "sending"
           /\ toHeartbeat' \in Nat /\ toPoll' \in Nat
           /\ SpacingInv'
<1>1. /\ heartbeatInterval \in Durations /\ pollingInterval \in Durations
      /\ toHeartbeat \in Nat /\ toPoll \in Nat
  BY DEF Times
<1>2. /\ toHeartbeat = 0 => toHeartbeat' \in TimeLeft(heartbeatInterval)
      /\ toHeartbeat # 0 => toHeartbeat' = toHeartbeat
      /\ toPoll = 0 => toPoll' \in TimeLeft(pollingInterval)
      /\ toPoll # 0 => toPoll' = toPoll
  BY DEF Reschedule
<1>3. /\ toHeartbeat' \in Nat /\ (heartbeatInterval \in Paced => toHeartbeat' > 0)
      /\ toPoll' \in Nat /\ (pollingInterval \in Paced => toPoll' > 0)
  BY <1>1, <1>2, DeadlineAhead
<1>4. /\ thread' = IF 0 \in {toHeartbeat, toPoll} THEN "sending" ELSE "loop"
      /\ idle' = (idle /\ ~(0 \in {toHeartbeat, toPoll}))
      /\ burst' = (burst \/ (0 \in {toHeartbeat, toPoll} /\ ~idle))
  BY DEF Reschedule
<1>5. UNCHANGED <<heartbeatInterval, pollingInterval, unpaced>>
  BY DEF intervalVars
<1>6. SpacingInv'
  <2>1. ~unpaced => heartbeatInterval \in Paced /\ pollingInterval \in Paced
    BY DEF SpacingInv
  <2>2. burst' => unpaced
    <3>1. ~unpaced /\ ~idle => ~(0 \in {toHeartbeat, toPoll})
      BY <1>1 DEF SpacingInv
    <3> QED
      BY <3>1, <1>4 DEF SpacingInv
  <2> QED
    BY <2>1, <2>2, <1>3, <1>5 DEF SpacingInv, Paced
<1> QED
  BY <1>3, <1>4, <1>6 DEF Flags

\* Every step keeps the invariant.
LEMMA Step ==
    ASSUME IInv, [Next]_vars
    PROVE  IInv'
<1> USE DEF IInv, TypeOK, vars, ownerVars, threadVars, handlerVars, intervalVars, history
<1>0. heartbeatInterval \in Durations /\ pollingInterval \in Durations
  BY DEF Times
<1>1. CASE \E options \in StartOptions : startCommunication(options)
  <2>0. PICK options \in StartOptions : startCommunication(options)
    BY <1>1
  <2>5. options.heartbeat \in Durations /\ options.poll \in Durations
    BY OptionsAssumption
  <2>6. /\ owner = "created" /\ owner' = "running"
        /\ thread' \in {thread, "starting"} /\ inFlight' \in {inFlight, inFlight + 1}
        /\ UNCHANGED <<keep, working, mutex, toHeartbeat, toPoll, toWake, handlerVars, stuck, history>>
    BY <2>0 DEF startCommunication, startThread, Enqueued
  <2>7. \/ UNCHANGED intervalVars
        \/ /\ heartbeatInterval' = options.heartbeat /\ pollingInterval' = options.poll
           /\ unpaced' = (unpaced \/ ~({options.heartbeat, options.poll} \subseteq Paced))
    BY <2>0 DEF startCommunication
  <2>8. unpaced' \in BOOLEAN /\ (unpaced => unpaced')
    BY <2>7 DEF Flags
  <2>9. ~unpaced' => heartbeatInterval' \in Paced /\ pollingInterval' \in Paced
    BY <2>7, <2>8 DEF SpacingInv
  <2>1. Places' /\ Flags'
    BY <2>6, <2>8 DEF Places, Flags
  <2>2. Times' /\ Messages'
    BY <2>0, <2>5, <1>0, BoundAssumption DEF Times, Messages, startCommunication, startThread, Enqueued
  <2>3. MutexInv' /\ StoppedInv' /\ ConfigInv'
    BY <2>0, <2>5, NoneAssumption DEF Places, MutexInv, StoppedInv, ConfigInv, startCommunication, startThread, Enqueued
  <2>4. SpacingInv'
    BY <2>6, <2>8, <2>9 DEF SpacingInv
  <2> QED
    BY <2>1, <2>2, <2>3, <2>4
<1>2. CASE prefork
  <2>1. Places' /\ Flags'
    BY <1>2 DEF Places, Flags, prefork
  <2>2. Times' /\ Messages'
    BY <1>2 DEF Times, Messages, prefork
  <2>3. MutexInv' /\ StoppedInv' /\ ConfigInv'
    BY <1>2, NoneAssumption DEF Places, MutexInv, StoppedInv, ConfigInv, prefork
  <2>4. SpacingInv'
    BY <1>2 DEF SpacingInv, prefork
  <2> QED
    BY <2>1, <2>2, <2>3, <2>4
<1>3. CASE postfork
  <2>1. Places' /\ Flags'
    <3>1. Places'
      BY <1>3 DEF Places, postfork, startThread
    <3>2. Flags'
      BY <1>3 DEF Flags, postfork, startThread
    <3> QED
      BY <3>1, <3>2
  <2>2. Times' /\ Messages'
    BY <1>3 DEF Times, Messages, postfork, startThread
  <2>3. MutexInv' /\ StoppedInv' /\ ConfigInv'
    BY <1>3, NoneAssumption DEF Places, MutexInv, StoppedInv, ConfigInv, postfork, startThread
  <2>4. SpacingInv'
    BY <1>3 DEF SpacingInv, postfork, startThread
  <2> QED
    BY <2>1, <2>2, <2>3, <2>4
<1>4. CASE Release
  <2>1. Places' /\ Flags'
    BY <1>4 DEF Places, Flags, Release
  <2>2. Times' /\ Messages'
    BY <1>4 DEF Times, Messages, Release
  <2>3. MutexInv' /\ StoppedInv' /\ ConfigInv'
    BY <1>4, NoneAssumption DEF Places, MutexInv, StoppedInv, ConfigInv, Release
  <2>4. SpacingInv'
    BY <1>4 DEF SpacingInv, Release
  <2> QED
    BY <2>1, <2>2, <2>3, <2>4
<1>5. CASE shutdownThread
  <2>1. Places' /\ Flags'
    <3>1. Places'
      BY <1>5 DEF Places, shutdownThread
    <3>2. Flags'
      BY <1>5 DEF Flags, shutdownThread
    <3> QED
      BY <3>1, <3>2
  <2>2. Times' /\ Messages'
    BY <1>5 DEF Times, Messages, shutdownThread
  <2>3. MutexInv' /\ StoppedInv' /\ ConfigInv'
    BY <1>5, NoneAssumption DEF Places, MutexInv, StoppedInv, ConfigInv, shutdownThread
  <2>4. SpacingInv'
    BY <1>5 DEF SpacingInv, shutdownThread
  <2> QED
    BY <2>1, <2>2, <2>3, <2>4
<1>6. CASE Join
  <2>1. Places' /\ Flags'
    BY <1>6 DEF Places, Flags, Join, Joinable
  <2>2. Times' /\ Messages'
    BY <1>6 DEF Times, Messages, Join, Joinable
  <2>3. MutexInv' /\ StoppedInv' /\ ConfigInv'
    BY <1>6, NoneAssumption DEF Places, MutexInv, StoppedInv, ConfigInv, Join, Joinable
  <2>4. SpacingInv'
    BY <1>6 DEF SpacingInv, Join, Joinable
  <2> QED
    BY <2>1, <2>2, <2>3, <2>4
<1>7. CASE TaskStarts
  <2>0. /\ toHeartbeat' \in Nat /\ (heartbeatInterval \in Paced => toHeartbeat' > 0)
        /\ toPoll' \in Nat /\ (pollingInterval \in Paced => toPoll' > 0)
    BY <1>7, <1>0, DeadlineAhead DEF TaskStarts
  <2>1. Places' /\ Flags'
    BY <1>7 DEF Places, Flags, TaskStarts
  <2>2. Times' /\ Messages'
    BY <1>7, <2>0 DEF Times, Messages, TaskStarts
  <2>3. MutexInv' /\ StoppedInv' /\ ConfigInv'
    BY <1>7, NoneAssumption DEF Places, MutexInv, StoppedInv, ConfigInv, TaskStarts
  <2>4. SpacingInv'
    BY <1>7, <2>0 DEF SpacingInv, TaskStarts
  <2> QED
    BY <2>1, <2>2, <2>3, <2>4
<1>8. CASE LoopHead
  <2>0. UNCHANGED <<ownerVars, working, handlerVars, intervalVars, inFlight, stuck>>
    BY <1>8 DEF LoopHead
  <2>5. CASE /\ thread' \in {"over", "waiting"} /\ mutex' = None /\ toWake' \in Nat
             /\ UNCHANGED <<toHeartbeat, toPoll, history>>
    <3>1. Places' /\ Flags' /\ Times' /\ Messages'
      BY <2>0, <2>5 DEF Places, Flags, Times, Messages
    <3>2. MutexInv' /\ StoppedInv' /\ ConfigInv'
      BY <1>8, <2>0, <2>5, NoneAssumption DEF MutexInv, StoppedInv, ConfigInv, LoopHead
    <3>3. SpacingInv'
      BY <2>0, <2>5 DEF SpacingInv
    <3> QED
      BY <3>1, <3>2, <3>3
  <2>6. CASE /\ working /\ 0 \in {toHeartbeat, toPoll} /\ mutex' = "heartbeat"
             /\ toWake' = 0 /\ Reschedule
    <3>1. /\ thread' = "sending" /\ idle' \in BOOLEAN /\ burst' \in BOOLEAN
          /\ toHeartbeat' \in Nat /\ toPoll' \in Nat
          /\ SpacingInv'
      BY <2>0, <2>6, RescheduleKeeps
    <3>2. Places' /\ Flags' /\ Times' /\ Messages'
      BY <2>0, <2>6, <3>1 DEF Places, Flags, Times, Messages
    <3>3. MutexInv' /\ StoppedInv' /\ ConfigInv'
      BY <1>8, <2>0, <2>6, <3>1, NoneAssumption DEF MutexInv, StoppedInv, ConfigInv, LoopHead
    <3> QED
      BY <3>1, <3>2, <3>3
  <2>7. \/ /\ thread' \in {"over", "waiting"} /\ mutex' = None /\ toWake' \in Nat
           /\ UNCHANGED <<toHeartbeat, toPoll, history>>
        \/ /\ working /\ 0 \in {toHeartbeat, toPoll} /\ mutex' = "heartbeat"
           /\ toWake' = 0 /\ Reschedule
    <3>1. toWake \in Nat /\ toHeartbeat \in Nat /\ toPoll \in Nat
      BY DEF Times
    <3>2. Min2(toHeartbeat, toPoll) \in Nat
      BY <3>1 DEF Min2
    <3> QED
      BY <1>8, <3>1, <3>2 DEF LoopHead
  <2> QED
    BY <2>5, <2>6, <2>7
<1>9. CASE WaitEnds
  <2>0. UNCHANGED <<ownerVars, working, toWake, handlerVars, intervalVars, inFlight, stuck>>
    BY <1>9 DEF WaitEnds
  <2>5. CASE ~working
    <3>1. thread' = "over" /\ UNCHANGED <<mutex, toHeartbeat, toPoll, history>>
      BY <1>9, <2>5 DEF WaitEnds
    <3>2. Places' /\ Flags' /\ Times' /\ Messages'
      BY <2>0, <3>1 DEF Places, Flags, Times, Messages
    <3>3. MutexInv' /\ StoppedInv' /\ ConfigInv'
      BY <1>9, <2>0, <3>1, NoneAssumption DEF MutexInv, StoppedInv, ConfigInv, WaitEnds
    <3>4. SpacingInv'
      BY <2>0, <3>1 DEF SpacingInv
    <3> QED
      BY <3>2, <3>3, <3>4
  <2>6. CASE working
    <3>1. /\ mutex' = "heartbeat" /\ thread' \in {"sending", "loop"}
          /\ idle' \in BOOLEAN /\ burst' \in BOOLEAN
          /\ toHeartbeat' \in Nat /\ toPoll' \in Nat
          /\ SpacingInv'
      BY <1>9, <2>0, <2>6, RescheduleKeeps DEF WaitEnds
    <3>2. Places' /\ Flags' /\ Times' /\ Messages'
      BY <2>0, <3>1 DEF Places, Flags, Times, Messages
    <3>3. MutexInv' /\ StoppedInv' /\ ConfigInv'
      BY <1>9, <2>0, <3>1, NoneAssumption DEF MutexInv, StoppedInv, ConfigInv, WaitEnds
    <3> QED
      BY <3>1, <3>2, <3>3
  <2> QED
    BY <2>5, <2>6
<1>10. CASE sendHeartbeat
  <2>1. Places' /\ Flags'
    BY <1>10 DEF Places, Flags, sendHeartbeat, Enqueued
  <2>2. Times' /\ Messages'
    BY <1>10, <1>0, BoundAssumption DEF Times, Messages, sendHeartbeat, Enqueued
  <2>3. MutexInv' /\ StoppedInv' /\ ConfigInv'
    BY <1>10, NoneAssumption DEF Places, MutexInv, StoppedInv, ConfigInv, sendHeartbeat, Enqueued
  <2>4. SpacingInv'
    BY <1>10, <1>0 DEF Flags, Times, SpacingInv, sendHeartbeat, Enqueued
  <2> QED
    BY <2>1, <2>2, <2>3, <2>4
<1>11. CASE NoAnswer
  <2>1. Places' /\ Flags'
    BY <1>11 DEF Places, Flags, NoAnswer
  <2>2. Times' /\ Messages'
    BY <1>11, <1>0, BoundAssumption DEF Times, Messages, NoAnswer
  <2>3. MutexInv' /\ StoppedInv' /\ ConfigInv'
    BY <1>11, NoneAssumption DEF Places, MutexInv, StoppedInv, ConfigInv, NoAnswer
  <2>4. SpacingInv'
    BY <1>11, <1>0 DEF Flags, Times, SpacingInv, NoAnswer
  <2> QED
    BY <2>1, <2>2, <2>3, <2>4
<1>12. CASE \E m \in Answers : handleServerToAgent(m)
  <2>0. PICK m \in Answers : handleServerToAgent(m)
    BY <1>12
  <2>5. m.seconds \in (0 .. 2 * Half - 1) \cup {None} /\ m.hash \in Hashes \cup {None}
    BY AnswersAssumption
  <2>6. heartbeatInterval' \in Durations
    <3>1. m.seconds # None => m.seconds \in Int
      BY <2>5, WidthAssumption
    <3>2. m.seconds # None => Milliseconds(m.seconds) \in Durations
      BY <3>1, MillisecondsFit
    <3> QED
      BY <2>0, <3>2, <1>0 DEF handleServerToAgent
  <2>1. Places' /\ Flags'
    BY <2>0 DEF Places, Flags, handleServerToAgent
  <2>2. Times' /\ Messages'
    BY <2>0, <2>6, <1>0, BoundAssumption DEF Times, Messages, handleServerToAgent
  <2>3. MutexInv' /\ StoppedInv' /\ ConfigInv'
    BY <2>0, <2>5, NoneAssumption DEF Places, MutexInv, StoppedInv, ConfigInv, handleServerToAgent
  <2>4. SpacingInv'
    <3>1. UNCHANGED <<toHeartbeat, toPoll, idle, burst, pollingInterval>>
      BY <2>0 DEF handleServerToAgent
    <3>2. /\ unpaced => unpaced'
          /\ ~unpaced' => ~unpaced /\ heartbeatInterval' \in Paced
      BY <2>0 DEF handleServerToAgent
    <3> QED
      BY <3>1, <3>2 DEF SpacingInv
  <2> QED
    BY <2>1, <2>2, <2>3, <2>4
<1>13. CASE LockConfig
  <2>1. Places' /\ Flags'
    BY <1>13 DEF Places, Flags, LockConfig
  <2>2. Times' /\ Messages'
    BY <1>13 DEF Times, Messages, ConfigInv, LockConfig
  <2>3. MutexInv' /\ StoppedInv' /\ ConfigInv'
    BY <1>13, NoneAssumption DEF Places, MutexInv, StoppedInv, ConfigInv, LockConfig
  <2>4. SpacingInv'
    BY <1>13 DEF SpacingInv, LockConfig
  <2> QED
    BY <2>1, <2>2, <2>3, <2>4
<1>14. CASE StoreConfigFiles
  <2>1. Places' /\ Flags'
    BY <1>14 DEF Places, Flags, StoreConfigFiles
  <2>2. Times' /\ Messages'
    BY <1>14 DEF Times, Messages, StoreConfigFiles
  <2>3. MutexInv' /\ StoppedInv' /\ ConfigInv'
    BY <1>14, NoneAssumption DEF Places, MutexInv, StoppedInv, ConfigInv, StoreConfigFiles
  <2>4. SpacingInv'
    BY <1>14 DEF SpacingInv, StoreConfigFiles
  <2> QED
    BY <2>1, <2>2, <2>3, <2>4
<1>15. CASE UpdateIntervals
  <2> DEFINE h == OptionsOf[message.hash].heartbeat
             q == OptionsOf[message.hash].poll
  <2>5. h \in Durations /\ q \in Durations
    BY <1>15, OptionsAssumption DEF UpdateIntervals, ConfigInv
  <2>6. /\ heartbeatInterval' = UpdatedInterval(heartbeatInterval, h)
        /\ pollingInterval' = UpdatedInterval(pollingInterval, q)
        /\ unpaced' = (unpaced \/ \E i \in {h, q} : i > Longest)
    BY <1>15 DEF UpdateIntervals, IntervalsFromConfig
  <2> HIDE DEF h, q
  <2>7. heartbeatInterval' \in Durations /\ pollingInterval' \in Durations
    BY <2>5, <2>6, <1>0 DEF UpdatedInterval
  <2>1. Places' /\ Flags'
    BY <1>15, <2>6 DEF Places, Flags, UpdateIntervals
  <2>2. Times' /\ Messages'
    BY <1>15, <2>7 DEF Times, Messages, UpdateIntervals
  <2>3. MutexInv' /\ StoppedInv' /\ ConfigInv'
    BY <1>15, NoneAssumption DEF Places, MutexInv, StoppedInv, ConfigInv, UpdateIntervals
  <2>4. SpacingInv'
    <3>1. UNCHANGED <<toHeartbeat, toPoll, idle, burst>>
      BY <1>15 DEF UpdateIntervals
    <3>2. (unpaced => unpaced') /\ (~unpaced' => ~unpaced /\ ~(h > Longest) /\ ~(q > Longest))
      BY <2>6
    <3>3. ~unpaced' => heartbeatInterval' \in Paced /\ pollingInterval' \in Paced
      <4>1. \A old \in Paced, new \in Durations :
               ~(new > Longest) => UpdatedInterval(old, new) \in Paced
        BY WidthAssumption DEF UpdatedInterval, Paced, Durations
      <4> QED
        BY <3>2, <4>1, <2>5, <2>6 DEF SpacingInv
    <3> QED
      BY <3>1, <3>2, <3>3 DEF SpacingInv
  <2> QED
    BY <2>1, <2>2, <2>3, <2>4
<1>16. CASE UnlockConfig
  <2>1. Places' /\ Flags'
    BY <1>16 DEF Places, Flags, UnlockConfig
  <2>2. Times' /\ Messages'
    BY <1>16 DEF Times, Messages, UnlockConfig
  <2>3. MutexInv' /\ StoppedInv' /\ ConfigInv'
    BY <1>16, NoneAssumption DEF Places, MutexInv, StoppedInv, ConfigInv, UnlockConfig
  <2>4. SpacingInv'
    BY <1>16 DEF SpacingInv, UnlockConfig
  <2> QED
    BY <2>1, <2>2, <2>3, <2>4
<1>17. CASE HandlerEnds
  <2>1. Places' /\ Flags'
    BY <1>17 DEF Places, Flags, HandlerEnds
  <2>2. Times' /\ Messages'
    BY <1>17 DEF Times, Messages, HandlerEnds
  <2>3. MutexInv' /\ StoppedInv' /\ ConfigInv'
    BY <1>17, NoneAssumption DEF Places, MutexInv, StoppedInv, ConfigInv, HandlerEnds
  <2>4. SpacingInv'
    BY <1>17 DEF SpacingInv, HandlerEnds
  <2> QED
    BY <2>1, <2>2, <2>3, <2>4
<1>18. CASE Tick
  <2>1. Places' /\ Flags'
    BY <1>18 DEF Places, Flags, Tick, Less
  <2>2. Times' /\ Messages'
    BY <1>18, <1>0, BoundAssumption DEF Times, Messages, Tick, Less
  <2>3. MutexInv' /\ StoppedInv' /\ ConfigInv'
    BY <1>18, NoneAssumption DEF Places, MutexInv, StoppedInv, ConfigInv, Tick, Less
  <2>4. SpacingInv'
    BY <1>18, <1>0 DEF Flags, Times, SpacingInv, Tick, Less
  <2> QED
    BY <2>1, <2>2, <2>3, <2>4
<1>19. CASE WorkerDies
  <2>1. Places' /\ Flags'
    BY <1>19 DEF Places, Flags, WorkerDies
  <2>2. Times' /\ Messages'
    BY <1>19 DEF Times, Messages, WorkerDies
  <2>3. MutexInv' /\ StoppedInv' /\ ConfigInv'
    BY <1>19, NoneAssumption DEF Places, MutexInv, StoppedInv, ConfigInv, WorkerDies
  <2>4. SpacingInv'
    BY <1>19 DEF SpacingInv, WorkerDies
  <2> QED
    BY <2>1, <2>2, <2>3, <2>4
<1>20. CASE UNCHANGED vars
  BY <1>20 DEF Places, Flags, Times, Messages, MutexInv, StoppedInv, ConfigInv, SpacingInv
<1> QED
  BY <1>1, <1>2, <1>3, <1>4, <1>5, <1>6, <1>7, <1>8, <1>9, <1>10, <1>11, <1>12, <1>13, <1>14, <1>15, <1>16, <1>17, <1>18, <1>19, <1>20 DEF Next

-----------------------------------------------------------------------------
(* Theorems *)

\* The invariant holds in every state of every behaviour.
THEOREM Invariance == Spec => []IInv
  BY InitInv, Step, PTL DEF Spec

\* The fields keep their types, and the deadlines never pass zero.
THEOREM TypeCorrect == Spec => []TypeOK
  BY Invariance, PTL DEF IInv

\* A client that was stopped, by prefork or by the destructor, has no thread and
\* its thread left no mutex locked, wherever it was when it was told to stop.
THEOREM SilentWhenStopped == Spec => []StoppedMeansSilent
<1>1. IInv => StoppedMeansSilent
  BY DEF IInv, StoppedInv, MutexInv, StoppedMeansSilent
<1> QED
  BY <1>1, Invariance, PTL

\* Time passes between two heartbeats, whatever 64-bit intervals come from the server,
\* from the options and from remote configurations, as long as those that are not
\* checked are positive and none is too long to be added to the time.
THEOREM SpacedHeartbeats == Spec => []HeartbeatsAreSpaced
<1>1. IInv => HeartbeatsAreSpaced
  BY DEF IInv, SpacingInv, HeartbeatsAreSpaced
<1> QED
  BY <1>1, Invariance, PTL
=============================================================================
