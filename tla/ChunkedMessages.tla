--------------------------- MODULE ChunkedMessages ---------------------------
(***************************************************************************)
(* ChunkedMessageProcessor over CoordinatorSharedDataQueue: worker         *)
(* processes cut a payload into chunks and push them, without blocking,    *)
(* into one bounded shared-memory queue; the coordinator process pops      *)
(* chunks, reassembles them per (sender, message id) and passes a complete *)
(* message to its dispatcher.  A periodic task throws away messages that   *)
(* stopped growing.                                                        *)
(*                                                                         *)
(* Every call of enqueueMessage is a step, so that the chunks of different *)
(* processes interleave in the queue, the queue fills up between two       *)
(* chunks of one message, and a process dies in the middle of one.         *)
(***************************************************************************)
EXTENDS Integers, Sequences

CONSTANTS Pids,            \* worker process ids (each used by one process)
          Payloads,        \* serialized commands, abstracted to values
          Size,            \* Size[pl] is the payload's length in bytes
          ChunkSize,       \* sizeof(CoordinatorPayload::payload)
          QueueSize,       \* CoordinatorSharedDataQueue::maxQueueSize
          MaxAge,          \* age, in ticks, after which a message is abandoned
          CleanupInterval, \* cleanUpLostMessagesInterval, in ticks
          MaxMsgs          \* bound: payloads sent by each process

ASSUME SizeAssumption == Size \in [Payloads -> Nat \ {0}]
ASSUME ChunkSizeAssumption == ChunkSize \in Nat \ {0}
ASSUME QueueSizeAssumption == QueueSize \in Nat \ {0}
ASSUME AgeAssumption == MaxAge \in Nat /\ CleanupInterval \in Nat \ {0}
ASSUME MaxMsgsAssumption == MaxMsgs \in [Pids -> Nat]

VARIABLES
    sent,          \* sent[p]: payloads p passed to sendPayload; msgId_ is its length
    pc,            \* "idle", "sending" (inside sendPayload) or "dead"
    payloadOffset, \* chunk.payloadOffset of the running sendPayload
    queue,         \* the shared message queue
    recieved,      \* recievedMessages_, keyed by <<pid, msgId>>
    delivered,     \* history: the calls of processMessage_
    sinceCleanup,  \* ticks since lastCleanupTime, up to CleanupInterval
    dropped,       \* history: keys of messages with a chunk refused by the full queue
    aborted,       \* history: keys of messages whose sendPayload did not finish
    expired        \* history: keys erased by cleanupAbandonedMessages

senderVars == <<sent, pc, payloadOffset>>
receiverVars == <<recieved, delivered, sinceCleanup>>
vars == <<sent, pc, payloadOffset, queue, recieved, delivered, sinceCleanup,
          dropped, aborted, expired>>

-----------------------------------------------------------------------------
(* Payloads, chunks and partial messages *)

\* A byte is its payload and its place in it.
Bytes == Payloads \X (Nat \ {0})

\* Bytes offset+1 .. offset+n of a payload: what memcpy puts into one chunk.
Slice(pl, offset, n) == [i \in 1 .. n |-> <<pl, offset + i>>]

Encode(pl) == Slice(pl, 0, Size[pl])

Keys == Pids \X (Nat \ {0})

Minimum(a, b) == IF a < b THEN a ELSE b

\* The message p is sending, or sent last.
CurrentKey(p) == <<p, Len(sent[p])>>
CurrentPayload(p) == sent[p][Len(sent[p])]

\* Mutant of NextChunk: msgId_ is not incremented.
NextChunkSameId(p) ==
    LET pl == CurrentPayload(p)
    IN  [pid |-> p, msgId |-> 1, total |-> Size[pl], offset |-> payloadOffset[p],
         data |-> Slice(pl, payloadOffset[p],
                        Minimum(ChunkSize, Size[pl] - payloadOffset[p]))]

\* The chunk that the loop of sendPayload builds next.
NextChunk(p) ==
    LET pl == CurrentPayload(p)
    IN  [pid |-> p, msgId |-> Len(sent[p]), total |-> Size[pl],
         offset |-> payloadOffset[p],
         data |-> Slice(pl, payloadOffset[p],
                        Minimum(ChunkSize, Size[pl] - payloadOffset[p]))]

Key(c) == <<c.pid, c.msgId>>

\* A ChunkedMessage nothing was added to: lastUpdated_ is the clock's epoch,
\* which is older than any limit.
NewMessage(total) == [total |-> total, data |-> << >>, age |-> MaxAge + 1]

\* The entry of recievedMessages_ that a chunk is for, found or created.
MessageFor(c) ==
    IF Key(c) \in DOMAIN recieved THEN recieved[Key(c)] ELSE NewMessage(c.total)

\* Mutant of Accepts: the chunk that fills the message is too much.
AcceptsOffByOne(m, c) ==
    /\ Len(m.data) = c.offset
    /\ c.offset + Len(c.data) < c.total
    /\ Len(m.data) + Len(c.data) <= m.total

\* The checks of processReceivedChunk and addNextChunk; a chunk that fails one
\* of them makes the coordinator's loop log an exception and go on.
Accepts(m, c) ==
    /\ Len(m.data) = c.offset
    /\ c.offset + Len(c.data) <= c.total
    /\ Len(m.data) + Len(c.data) <= m.total

AddNextChunk(m, c) == [total |-> m.total, data |-> m.data \o c.data, age |-> 0]

Store(k, m) == [j \in DOMAIN recieved \cup {k} |->
                    IF j = k THEN m ELSE recieved[j]]

Erase(ks) == [j \in DOMAIN recieved \ ks |-> recieved[j]]

-----------------------------------------------------------------------------
(* Worker processes *)

\* sendPayload is called with the next command.
SendPayload(p, pl) ==
    /\ pc[p] = "idle"
    /\ Len(sent[p]) < MaxMsgs[p]
    /\ sent' = [sent EXCEPT ![p] = Append(@, pl)]
    /\ pc' = [pc EXCEPT ![p] = "sending"]
    /\ payloadOffset' = [payloadOffset EXCEPT ![p] = 0]
    /\ UNCHANGED <<queue, receiverVars, dropped, aborted, expired>>

\* One turn of the loop of sendPayload.  try_send does not wait and its result
\* is not looked at: a chunk that finds the queue full is gone, and the loop
\* goes on with the next one.
EnqueueChunk(p) ==
    /\ pc[p] = "sending"
    /\ LET c == NextChunk(p)
           next == payloadOffset[p] + Len(c.data)
       IN  /\ \/ /\ Len(queue) < QueueSize
                 /\ queue' = Append(queue, c)
                 /\ UNCHANGED dropped
              \/ /\ Len(queue) = QueueSize
                 /\ dropped' = dropped \cup {CurrentKey(p)}
                 /\ UNCHANGED queue
           /\ payloadOffset' = [payloadOffset EXCEPT ![p] = next]
           /\ pc' = [pc EXCEPT ![p] = IF next < c.total THEN "sending" ELSE "idle"]
    /\ UNCHANGED <<sent, receiverVars, aborted, expired>>

\* try_send throws: sendPayload returns false without the remaining chunks.
EnqueueFails(p) ==
    /\ pc[p] = "sending"
    /\ pc' = [pc EXCEPT ![p] = "idle"]
    /\ aborted' = aborted \cup {CurrentKey(p)}
    /\ UNCHANGED <<sent, payloadOffset, queue, receiverVars, dropped, expired>>

\* The process dies, possibly inside sendPayload.
Die(p) ==
    /\ pc[p] # "dead"
    /\ pc' = [pc EXCEPT ![p] = "dead"]
    /\ aborted' = IF pc[p] = "sending" THEN aborted \cup {CurrentKey(p)} ELSE aborted
    /\ UNCHANGED <<sent, payloadOffset, queue, receiverVars, dropped, expired>>

-----------------------------------------------------------------------------
(* The coordinator process *)

\* processReceivedChunk throws; the entry it created stays in the map.
RejectChunk(c) ==
    /\ ~Accepts(MessageFor(c), c)
    /\ recieved' = Store(Key(c), MessageFor(c))
    /\ UNCHANGED delivered

\* addNextChunk returns false.
KeepChunk(c) ==
    /\ Accepts(MessageFor(c), c)
    /\ Len(MessageFor(c).data) + Len(c.data) < MessageFor(c).total
    /\ recieved' = Store(Key(c), AddNextChunk(MessageFor(c), c))
    /\ UNCHANGED delivered

\* addNextChunk returns true: the entry is erased and the dispatcher called.
CompleteMessage(c) ==
    /\ Accepts(MessageFor(c), c)
    /\ Len(MessageFor(c).data) + Len(c.data) = MessageFor(c).total
    /\ recieved' = Erase({Key(c)})
    /\ delivered' = Append(delivered,
                           [pid |-> c.pid, msgId |-> c.msgId,
                            data |-> AddNextChunk(MessageFor(c), c).data])

\* Mutant of Receive: a chunk that is rejected stays at the head of the queue.
ReceiveKeepsRejected ==
    /\ queue # << >>
    /\ \/ RejectChunk(Head(queue)) /\ UNCHANGED queue
       \/ KeepChunk(Head(queue)) /\ queue' = Tail(queue)
       \/ CompleteMessage(Head(queue)) /\ queue' = Tail(queue)
    /\ UNCHANGED <<senderVars, sinceCleanup, dropped, aborted, expired>>

\* tryReceiveMessage finds a chunk.
Receive ==
    /\ queue # << >>
    /\ queue' = Tail(queue)
    /\ \/ RejectChunk(Head(queue))
       \/ KeepChunk(Head(queue))
       \/ CompleteMessage(Head(queue))
    /\ UNCHANGED <<senderVars, sinceCleanup, dropped, aborted, expired>>

\* The steady clock advances by one tick.
Tick ==
    /\ recieved' = [k \in DOMAIN recieved |->
                        [recieved[k] EXCEPT !.age = Minimum(@ + 1, MaxAge + 1)]]
    /\ sinceCleanup' = Minimum(sinceCleanup + 1, CleanupInterval)
    /\ UNCHANGED <<senderVars, queue, delivered, dropped, aborted, expired>>

\* Mutant of Abandoned: entries that never got a chunk are passed over.
AbandonedWithData == {k \in DOMAIN recieved : /\ recieved[k].age > MaxAge
                                             /\ recieved[k].data # << >>}

\* The messages that cleanupAbandonedMessages finds too old.
Abandoned == {k \in DOMAIN recieved : recieved[k].age > MaxAge}

\* The periodic task of the coordinator: cleanupAbandonedMessages.
Cleanup ==
    /\ sinceCleanup >= CleanupInterval
    /\ sinceCleanup' = 0
    /\ recieved' = Erase(Abandoned)
    /\ expired' = expired \cup Abandoned
    /\ UNCHANGED <<senderVars, queue, delivered, dropped, aborted>>

-----------------------------------------------------------------------------
Init ==
    /\ sent = [p \in Pids |-> << >>]
    /\ pc = [p \in Pids |-> "idle"]
    /\ payloadOffset = [p \in Pids |-> 0]
    /\ queue = << >>
    /\ recieved = [k \in {} |-> NewMessage(0)]
    /\ delivered = << >>
    /\ sinceCleanup = 0
    /\ dropped = {}
    /\ aborted = {}
    /\ expired = {}

SenderStep(p) ==
    \/ \E pl \in Payloads : SendPayload(p, pl)
    \/ EnqueueChunk(p)
    \/ EnqueueFails(p)
    \/ Die(p)

Next == \/ \E p \in Pids : SenderStep(p)
        \/ Receive
        \/ Tick
        \/ Cleanup

Spec == Init /\ [][Next]_vars

\* The coordinator's loop and its periodic task run for as long as the
\* coordinator does, and time passes; nothing is assumed of the workers.
FairSpec == Spec /\ WF_vars(Receive) /\ WF_vars(Tick) /\ WF_vars(Cleanup)
-----------------------------------------------------------------------------
(* Properties *)

Chunk == [pid : Pids, msgId : Nat \ {0}, total : Nat \ {0}, offset : Nat, data : Seq(Bytes)]
PartialMessage == [total : Nat \ {0}, data : Seq(Bytes), age : 0 .. MaxAge + 1]
Handover == [pid : Pids, msgId : Nat \ {0}, data : Seq(Bytes)]

\* The variables of the senders, the queue and the reassembly keep their types;
\* the shared queue never holds more than maxQueueSize chunks.
TypeOK ==
    /\ sent \in [Pids -> Seq(Payloads)]
    /\ pc \in [Pids -> {"idle", "sending", "dead"}]
    /\ payloadOffset \in [Pids -> Nat]
    /\ queue \in Seq(Chunk)
    /\ Len(queue) <= QueueSize
    /\ DOMAIN recieved \subseteq Keys
    /\ \A k \in DOMAIN recieved : recieved[k] \in PartialMessage
    /\ delivered \in Seq(Handover)
    /\ sinceCleanup \in 0 .. CleanupInterval
    /\ dropped \subseteq Keys
    /\ aborted \subseteq Keys
    /\ expired \subseteq Keys

Channel == INSTANCE MessageChannel WITH submitted <- sent, handed <- delivered

\* processReceivedChunk gives the dispatcher only whole payloads that a worker
\* passed to sendPayload, each at most once and in the order of its sender,
\* whatever chunks the full queue swallowed, whichever worker died inside
\* sendPayload and whenever cleanupAbandonedMessages ran.
ChannelSpec == Channel!Spec

InQueue(k) == \E i \in 1 .. Len(queue) : Key(queue[i]) = k

Delivered(k) == \E i \in 1 .. Len(delivered) : Key(delivered[i]) = k

Lost == dropped \cup aborted \cup expired

\* sendPayload returned, or its process is gone.
SendOver(k) == /\ k[2] <= Len(sent[k[1]])
               /\ k = CurrentKey(k[1]) => pc[k[1]] # "sending"

\* A payload disappears only in the three places that may lose one: the full
\* queue, a sendPayload that did not finish, and the cleanup of abandoned
\* messages.  Any other message whose chunks have all left the queue was
\* passed to the dispatcher by processReceivedChunk.
NoOtherLoss ==
    \A p \in Pids : \A id \in 1 .. Len(sent[p]) :
        LET k == <<p, id>>
        IN  SendOver(k) /\ ~InQueue(k) /\ k \notin Lost => Delivered(k)

Messages == UNION {{p} \X (1 .. MaxMsgs[p]) : p \in Pids}

\* recievedMessages_ does not keep a message that will never be complete: an
\* entry is completed or is erased by cleanupAbandonedMessages, also the empty
\* entries that rejected chunks leave behind.
PartialMessagesLeave ==
    \A k \in Messages :
        (k \in DOMAIN recieved) ~> (k \notin DOMAIN recieved)

\* The coordinator's loop never gets stuck on a chunk it rejects: every message
\* that was sent is sooner or later delivered or known to be lost.
EveryMessageSettles ==
    \A k \in Messages :
        SendOver(k) ~> (Delivered(k) \/ k \in Lost)

=============================================================================
