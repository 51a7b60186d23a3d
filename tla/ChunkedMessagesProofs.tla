------------------------ MODULE ChunkedMessagesProofs ------------------------
(***************************************************************************)
(* For any number of workers, payload sizes, chunk size and queue size:    *)
(* ChunkedMessages keeps its types, implements MessageChannel, and loses a *)
(* message only where NoOtherLoss says that one may be lost.               *)
(***************************************************************************)
EXTENDS ChunkedMessages, SequenceTheorems, TLAPS

-----------------------------------------------------------------------------
(* The inductive invariant *)

\* Inside sendPayload there is a message with bytes left to send.
SenderInv ==
    \A p \in Pids : pc[p] = "sending" =>
        /\ Len(sent[p]) > 0
        /\ payloadOffset[p] < Size[CurrentPayload(p)]

\* A chunk carries the bytes of its message at its offset.
Faithful(c) ==
    /\ c.msgId <= Len(sent[c.pid])
    /\ c.total = Size[sent[c.pid][c.msgId]]
    /\ Len(c.data) > 0
    /\ c.offset + Len(c.data) <= c.total
    /\ c.data = Slice(sent[c.pid][c.msgId], c.offset, Len(c.data))

\* c left its sender before d did.
Before(c, d) ==
    \/ c.msgId < d.msgId
    \/ c.msgId = d.msgId /\ c.offset + Len(c.data) <= d.offset

\* The sender of c is past it.
Behind(c) ==
    (c.msgId = Len(sent[c.pid]) /\ pc[c.pid] = "sending") =>
        c.offset + Len(c.data) <= payloadOffset[c.pid]

\* Chunks are faithful, and those of one sender queue up in sending order.
QueueInv ==
    /\ \A i \in 1 .. Len(queue) : Faithful(queue[i]) /\ Behind(queue[i])
    /\ \A i, j \in 1 .. Len(queue) :
           i < j /\ queue[i].pid = queue[j].pid => Before(queue[i], queue[j])

\* A message being reassembled is a proper prefix of what was sent.
PartialInv ==
    \A k \in DOMAIN recieved :
        /\ k[2] <= Len(sent[k[1]])
        /\ recieved[k].total = Size[sent[k[1]][k[2]]]
        /\ Len(recieved[k].data) < recieved[k].total
        /\ recieved[k].data = Slice(sent[k[1]][k[2]], 0, Len(recieved[k].data))

\* Nothing that is still in the queue, or still to be sent, belongs to a
\* message that was delivered, or to one its sender sent before that.
DeliveredInv ==
    \A i \in 1 .. Len(delivered) :
        LET d == delivered[i]
        IN  /\ d.msgId <= Len(sent[d.pid])
            /\ d.msgId = Len(sent[d.pid]) => pc[d.pid] # "sending"
            /\ \A j \in 1 .. Len(queue) :
                   queue[j].pid = d.pid => d.msgId < queue[j].msgId

IInv == TypeOK /\ SenderInv /\ QueueInv /\ PartialInv /\ DeliveredInv

-----------------------------------------------------------------------------
(* Payload slices and the chunks made of them *)

\* A slice is a sequence of bytes of the length asked for (memcpy of a chunk).
LEMMA SliceType ==
    ASSUME NEW pl \in Payloads, NEW o \in Nat, NEW n \in Nat
    PROVE  Slice(pl, o, n) \in Seq(Bytes) /\ Len(Slice(pl, o, n)) = n
  <1>1. Slice(pl, o, n) \in [1 .. n -> Bytes]
    BY DEF Slice, Bytes
  <1>2. QED
    BY <1>1

\* Appending the chunk at offset a to the first a bytes gives the first a + n
\* bytes (addNextChunk).
LEMMA SliceConcat ==
    ASSUME NEW pl \in Payloads, NEW a \in Nat, NEW n \in Nat
    PROVE  Slice(pl, 0, a) \o Slice(pl, a, n) = Slice(pl, 0, a + n)
  <1> DEFINE s == Slice(pl, 0, a)
             t == Slice(pl, a, n)
             u == Slice(pl, 0, a + n)
  <1>1. /\ s \in Seq(Bytes) /\ Len(s) = a
        /\ t \in Seq(Bytes) /\ Len(t) = n
        /\ u \in Seq(Bytes) /\ Len(u) = a + n
    BY SliceType
  <1>2. /\ \A i \in 1 .. a : s[i] = <<pl, i>>
        /\ \A i \in 1 .. n : t[i] = <<pl, a + i>>
        /\ \A i \in 1 .. a + n : u[i] = <<pl, i>>
    BY DEF Slice
  <1> HIDE DEF s, t, u
  <1>3. /\ s \o t \in Seq(Bytes) /\ Len(s \o t) = a + n
        /\ \A i \in 1 .. a + n : (s \o t)[i] = IF i <= a THEN s[i] ELSE t[i - a]
    BY <1>1, ConcatProperties
  <1>4. ASSUME NEW i \in 1 .. a + n PROVE (s \o t)[i] = u[i]
    <2>1. i <= a => i \in 1 .. a
      OBVIOUS
    <2>2. ~(i <= a) => i - a \in 1 .. n /\ a + (i - a) = i
      OBVIOUS
    <2>3. QED
      BY <1>2, <1>3, <2>1, <2>2
  <1>5. s \o t = u
    BY <1>1, <1>3, <1>4, SeqEqual
  <1>6. QED
    BY <1>5 DEF s, t, u

\* A ChunkedMessage record has the type of the entries of recievedMessages_.
LEMMA PartialMessageType ==
    ASSUME NEW t \in Nat \ {0}, NEW s \in Seq(Bytes), NEW a \in 0 .. MaxAge + 1
    PROVE  [total |-> t, data |-> s, age |-> a] \in PartialMessage
  BY DEF PartialMessage

\* The loop of sendPayload builds a faithful, non-empty chunk.
LEMMA NextChunkFaithful ==
    ASSUME TypeOK, SenderInv, NEW p \in Pids, pc[p] = "sending"
    PROVE  LET c == NextChunk(p)
           IN  /\ c \in Chunk /\ Faithful(c)
               /\ c.pid = p /\ c.msgId = Len(sent[p])
               /\ c.offset = payloadOffset[p]
               /\ c.total = Size[CurrentPayload(p)]
  <1> DEFINE pl == CurrentPayload(p)
             o == payloadOffset[p]
             n == Minimum(ChunkSize, Size[pl] - o)
  <1>1. /\ sent[p] \in Seq(Payloads) /\ Len(sent[p]) \in Nat \ {0}
        /\ pl \in Payloads /\ o \in Nat /\ o < Size[pl] /\ Size[pl] \in Nat \ {0}
    BY SizeAssumption DEF TypeOK, SenderInv, CurrentPayload
  <1>2. n \in Nat \ {0} /\ o + n <= Size[pl]
    BY <1>1, ChunkSizeAssumption DEF Minimum
  <1>3. Slice(pl, o, n) \in Seq(Bytes) /\ Len(Slice(pl, o, n)) = n
    BY <1>1, <1>2, SliceType
  <1>4. NextChunk(p) = [pid |-> p, msgId |-> Len(sent[p]), total |-> Size[pl],
                        offset |-> o, data |-> Slice(pl, o, n)]
    BY DEF NextChunk
  <1>5. pl = sent[p][Len(sent[p])]
    BY DEF CurrentPayload
  <1> HIDE DEF pl, o, n
  <1>6. NextChunk(p) \in Chunk
    BY <1>1, <1>3, <1>4 DEF Chunk
  <1>7. Faithful(NextChunk(p))
    BY <1>1, <1>2, <1>3, <1>4, <1>5 DEF Faithful
  <1>8. QED
    BY <1>4, <1>6, <1>7 DEF pl, o

-----------------------------------------------------------------------------
(* The invariant holds initially and every action keeps it *)

\* Nothing is sent, queued or received when the processes start.
LEMMA InitInv == Init => IInv
  <1> SUFFICES ASSUME Init PROVE IInv
    OBVIOUS
  <1>1. TypeOK
    BY AgeAssumption, QueueSizeAssumption DEF Init, TypeOK, Keys
  <1>2. QED
    BY <1>1 DEF Init, IInv, SenderInv, QueueInv, PartialInv, DeliveredInv

\* The fields of queued chunks and of delivered messages.
LEMMA FieldTypes ==
    ASSUME TypeOK
    PROVE  /\ \A i \in 1 .. Len(queue) : queue[i] \in Chunk
           /\ \A i \in 1 .. Len(delivered) :
                  delivered[i].pid \in Pids /\ delivered[i].msgId \in Nat \ {0}
           /\ \A p \in Pids : sent[p] \in Seq(Payloads) /\ Len(sent[p]) \in Nat
  <1>1. \A i \in 1 .. Len(queue) : queue[i] \in Chunk
    BY DEF TypeOK
  <1>2. \A i \in 1 .. Len(delivered) : delivered[i] \in Handover
    BY DEF TypeOK
  <1>3. \A p \in Pids : sent[p] \in Seq(Payloads) /\ Len(sent[p]) \in Nat
    BY DEF TypeOK
  <1>4. QED
    BY <1>1, <1>2, <1>3 DEF Handover

\* sendPayload starts a new message: what was said of the older ones stays true.
LEMMA SendPayloadInv ==
    ASSUME IInv, NEW p \in Pids, NEW pl \in Payloads, SendPayload(p, pl)
    PROVE  IInv'
  <1> USE DEF SendPayload, receiverVars
  <1>1. TypeOK'
    BY DEF IInv, TypeOK
  <1>2. /\ \A q \in Pids : Len(sent'[q]) >= Len(sent[q])
        /\ \A q \in Pids : \A id \in 1 .. Len(sent[q]) : sent'[q][id] = sent[q][id]
        /\ \A q \in Pids : q # p => sent'[q] = sent[q]
        /\ Len(sent'[p]) = Len(sent[p]) + 1 /\ sent'[p][Len(sent'[p])] = pl
        /\ \A q \in Pids : Len(sent[q]) \in Nat
    BY DEF IInv, TypeOK
  <1>3. SenderInv'
    BY <1>2, SizeAssumption DEF IInv, TypeOK, SenderInv, CurrentPayload
  <1>4. QueueInv'
    <2>1. ASSUME NEW i \in 1 .. Len(queue) PROVE Faithful(queue[i])' /\ Behind(queue[i])'
      <3>1. queue[i] \in Chunk /\ Faithful(queue[i]) /\ Behind(queue[i])
        BY DEF IInv, TypeOK, QueueInv
      <3>2. queue[i].pid \in Pids /\ queue[i].msgId \in 1 .. Len(sent[queue[i].pid])
        BY <1>2, <3>1 DEF Chunk, Faithful
      <3>3. Faithful(queue[i])'
        BY <1>2, <3>1, <3>2 DEF Faithful
      <3>4. Behind(queue[i])'
        BY <1>2, <3>1, <3>2 DEF IInv, TypeOK, Behind
      <3>5. QED
        BY <3>3, <3>4
    <2>2. QED
      BY <2>1 DEF IInv, QueueInv, Before
  <1>5. PartialInv'
    <2>1. ASSUME NEW k \in DOMAIN recieved
          PROVE  k[1] \in Pids /\ k[2] \in 1 .. Len(sent[k[1]])
      BY <1>2 DEF IInv, TypeOK, Keys, PartialInv
    <2>2. QED
      BY <1>2, <2>1 DEF IInv, PartialInv
  <1>6. DeliveredInv'
    <2>1. ASSUME NEW i \in 1 .. Len(delivered)
          PROVE  delivered[i].pid \in Pids /\ delivered[i].msgId \in Nat
      BY FieldTypes DEF IInv
    <2>2. QED
      BY <1>2, <2>1 DEF IInv, TypeOK, DeliveredInv
  <1>7. QED
    BY <1>1, <1>3, <1>4, <1>5, <1>6 DEF IInv

\* A chunk joins the queue behind all others of its sender, or is lost.
LEMMA EnqueueChunkInv ==
    ASSUME IInv, NEW p \in Pids, EnqueueChunk(p)
    PROVE  IInv'
  <1> PICK c : c = NextChunk(p)
    OBVIOUS
  <1> DEFINE next == payloadOffset[p] + Len(c.data)
  <1>1. /\ c \in Chunk /\ Faithful(c) /\ c.pid = p /\ c.msgId = Len(sent[p])
        /\ c.offset = payloadOffset[p] /\ c.total = Size[CurrentPayload(p)]
        /\ pc[p] = "sending"
    BY NextChunkFaithful DEF IInv, EnqueueChunk
  <1>2. /\ \/ Len(queue) < QueueSize /\ queue' = Append(queue, c) /\ dropped' = dropped
           \/ queue' = queue /\ dropped' = dropped \cup {CurrentKey(p)}
        /\ payloadOffset' = [payloadOffset EXCEPT ![p] = next]
        /\ pc' = [pc EXCEPT ![p] = IF next < c.total THEN "sending" ELSE "idle"]
        /\ UNCHANGED <<sent, recieved, delivered, sinceCleanup, aborted, expired>>
    BY DEF EnqueueChunk, receiverVars
  <1>3. /\ c.pid \in Pids /\ c.msgId \in Nat \ {0} /\ c.offset \in Nat /\ c.total \in Nat
        /\ Len(c.data) \in Nat /\ next \in Nat
    BY <1>1 DEF Chunk
  <1>4. CurrentKey(p) \in Keys
    BY <1>1, <1>3 DEF CurrentKey, Keys
  <1>5. TypeOK'
    <2>1. queue' \in Seq(Chunk) /\ Len(queue') <= QueueSize
      <3>1. queue \in Seq(Chunk) /\ Len(queue) <= QueueSize /\ Len(queue) \in Nat
        BY DEF IInv, TypeOK
      <3>2. Append(queue, c) \in Seq(Chunk) /\ Len(Append(queue, c)) = Len(queue) + 1
        BY <1>1, <3>1, AppendProperties
      <3>3. QED
        BY <1>2, <3>1, <3>2, QueueSizeAssumption
    <2>2. /\ pc' \in [Pids -> {"idle", "sending", "dead"}]
          /\ payloadOffset' \in [Pids -> Nat] /\ dropped' \subseteq Keys
      BY <1>2, <1>3, <1>4 DEF IInv, TypeOK
    <2>3. QED
      BY <1>2, <2>1, <2>2 DEF IInv, TypeOK
  <1>6. SenderInv'
    BY <1>1, <1>2, <1>3 DEF IInv, TypeOK, SenderInv, CurrentPayload
  <1>7. \A d : Faithful(d)' <=> Faithful(d)
    BY <1>2 DEF Faithful
  <1>8. ASSUME NEW d \in Chunk, Behind(d) PROVE Behind(d)'
    <2>1. d.pid \in Pids /\ d.offset \in Nat /\ Len(d.data) \in Nat
      BY DEF Chunk
    <2>2. CASE d.pid = p
      <3>1. payloadOffset[p] \in Nat /\ payloadOffset'[p] = next /\ sent' = sent
        BY <1>2 DEF IInv, TypeOK
      <3>2. d.msgId = Len(sent[p]) => d.offset + Len(d.data) <= payloadOffset[p]
        BY <1>1, <1>8, <2>2 DEF Behind
      <3>3. QED
        BY <1>3, <2>1, <2>2, <3>1, <3>2 DEF Behind
    <2>3. CASE d.pid # p
      BY <1>2, <1>8, <2>1, <2>3 DEF IInv, TypeOK, Behind
    <2>4. QED
      BY <2>2, <2>3
  <1>9. Behind(c)'
    BY <1>1, <1>2, <1>3 DEF IInv, TypeOK, Behind
  <1>10. QueueInv'
    <2>1. CASE queue' = queue
      <3>1. \A i \in 1 .. Len(queue) : queue[i] \in Chunk
        BY FieldTypes DEF IInv
      <3>2. ASSUME NEW i \in 1 .. Len(queue)
            PROVE  \A d : d = queue[i] => Faithful(d)' /\ Behind(d)'
        BY <1>7, <1>8, <3>1 DEF IInv, QueueInv
      <3>3. QED
        BY <2>1, <3>2 DEF IInv, QueueInv, Before, Faithful, Behind
    <2>2. CASE queue' = Append(queue, c)
      <3>1. /\ Len(queue') = Len(queue) + 1 /\ queue'[Len(queue) + 1] = c
            /\ \A i \in 1 .. Len(queue) : queue'[i] = queue[i]
            /\ Len(queue) \in Nat
        BY <2>2 DEF IInv, TypeOK
      <3>2. ASSUME NEW i \in 1 .. Len(queue')
            PROVE  \A d : d = queue'[i] => Faithful(d)' /\ Behind(d)'
        <4>1. CASE i = Len(queue) + 1
          BY <1>1, <1>7, <1>9, <3>1, <4>1
        <4>2. CASE i \in 1 .. Len(queue)
          BY <1>7, <1>8, <3>1, <4>2, FieldTypes DEF IInv, QueueInv
        <4>3. QED
          BY <3>1, <4>1, <4>2
      <3>3. ASSUME NEW i \in 1 .. Len(queue), queue[i].pid = p PROVE Before(queue[i], c)
        <4>1. queue[i] \in Chunk /\ Behind(queue[i]) /\ Faithful(queue[i])
          BY DEF IInv, TypeOK, QueueInv
        <4>2. queue[i].msgId \in Nat /\ queue[i].msgId <= Len(sent[p])
          BY <3>3, <4>1 DEF Chunk, Faithful
        <4>3. QED
          BY <1>1, <1>3, <3>3, <4>1, <4>2 DEF Before, Behind
      <3>4. ASSUME NEW i \in 1 .. Len(queue'), NEW j \in 1 .. Len(queue'),
                   i < j, queue'[i].pid = queue'[j].pid
            PROVE  Before(queue'[i], queue'[j])
        <4>1. CASE j = Len(queue) + 1
          BY <1>1, <3>1, <3>3, <3>4, <4>1
        <4>2. CASE j # Len(queue) + 1
          BY <3>1, <3>4, <4>2 DEF IInv, QueueInv
        <4>3. QED
          BY <4>1, <4>2
      <3>5. QED
        BY <3>2, <3>4 DEF QueueInv, Before, Faithful, Behind
    <2>3. QED
      BY <1>2, <2>1, <2>2
  <1>11. PartialInv'
    BY <1>2 DEF IInv, PartialInv
  <1>12. DeliveredInv'
    <2>1. ASSUME NEW i \in 1 .. Len(delivered)
          PROVE  /\ delivered[i].pid \in Pids /\ delivered[i].msgId \in Nat
                 /\ delivered[i].msgId <= Len(sent[delivered[i].pid])
                 /\ delivered[i].pid = p => delivered[i].msgId < Len(sent[p])
      <3>1. delivered[i].pid \in Pids /\ delivered[i].msgId \in Nat
        BY FieldTypes DEF IInv
      <3>2. /\ delivered[i].msgId <= Len(sent[delivered[i].pid])
            /\ delivered[i].msgId = Len(sent[delivered[i].pid]) => pc[delivered[i].pid] # "sending"
        BY DEF IInv, DeliveredInv
      <3>3. Len(sent[p]) \in Nat
        BY FieldTypes DEF IInv
      <3>4. QED
        BY <1>1, <3>1, <3>2, <3>3
    <2>2. ASSUME NEW i \in 1 .. Len(delivered), NEW j \in 1 .. Len(queue'),
                 queue'[j].pid = delivered[i].pid
          PROVE  delivered[i].msgId < queue'[j].msgId
      <3>1. CASE queue' = queue
        BY <2>2, <3>1 DEF IInv, DeliveredInv
      <3>2. CASE queue' = Append(queue, c)
        <4>1. \/ j \in 1 .. Len(queue) /\ queue'[j] = queue[j]
              \/ queue'[j] = c
          BY <3>2 DEF IInv, TypeOK
        <4>2. QED
          BY <1>1, <2>1, <2>2, <4>1 DEF IInv, DeliveredInv
      <3>3. QED
        BY <1>2, <3>1, <3>2
    <2>3. ASSUME NEW i \in 1 .. Len(delivered),
                 delivered[i].msgId = Len(sent[delivered[i].pid])
          PROVE  pc'[delivered[i].pid] # "sending"
      <3>1. delivered[i].pid # p
        BY <2>1, <2>3
      <3>2. QED
        BY <1>2, <2>1, <2>3, <3>1 DEF IInv, TypeOK, DeliveredInv
    <2>4. QED
      BY <1>2, <2>1, <2>2, <2>3 DEF DeliveredInv
  <1>13. QED
    BY <1>5, <1>6, <1>10, <1>11, <1>12 DEF IInv

\* A sendPayload that fails, or whose process dies, sends nothing more.
LEMMA SenderStopsInv ==
    ASSUME IInv, NEW p \in Pids, EnqueueFails(p) \/ Die(p)
    PROVE  IInv'
  <1>1. /\ \E st \in {"idle", "dead"} : pc' = [pc EXCEPT ![p] = st]
        /\ aborted' = aborted \/ (pc[p] = "sending" /\ aborted' = aborted \cup {CurrentKey(p)})
        /\ UNCHANGED <<sent, payloadOffset, queue, recieved, delivered, sinceCleanup,
                       dropped, expired>>
    BY DEF EnqueueFails, Die, receiverVars
  <1>2. pc[p] = "sending" => CurrentKey(p) \in Keys
    BY FieldTypes DEF IInv, SenderInv, CurrentKey, Keys
  <1>3. TypeOK'
    BY <1>1, <1>2 DEF IInv, TypeOK
  <1>4. \A q \in Pids : pc'[q] = "sending" => pc[q] = "sending"
    BY <1>1 DEF IInv, TypeOK
  <1>5. SenderInv'
    BY <1>1, <1>4 DEF IInv, SenderInv, CurrentPayload
  <1>6. QueueInv'
    <2>1. \A i \in 1 .. Len(queue) : queue[i].pid \in Pids
      BY FieldTypes DEF IInv, Chunk
    <2>2. QED
      BY <1>1, <1>4, <2>1 DEF IInv, QueueInv, Faithful, Behind, Before
  <1>7. PartialInv'
    BY <1>1 DEF IInv, PartialInv
  <1>8. DeliveredInv'
    BY <1>1, <1>4, FieldTypes DEF IInv, DeliveredInv
  <1>9. QED
    BY <1>3, <1>5, <1>6, <1>7, <1>8 DEF IInv

\* The entry found or made for the first chunk in the queue is a proper prefix
\* of the chunk's message, and a chunk that is accepted extends the prefix.
LEMMA HeadOfQueue ==
    ASSUME IInv, queue # << >>, NEW c, c = Head(queue)
    PROVE  LET m == MessageFor(c)
               pl == sent[c.pid][c.msgId]
           IN  /\ c \in Chunk /\ Faithful(c) /\ Behind(c) /\ Key(c) \in Keys
               /\ pl \in Payloads
               /\ m \in PartialMessage /\ m.total = c.total
               /\ Len(m.data) < m.total /\ m.data = Slice(pl, 0, Len(m.data))
               /\ Accepts(m, c) =>
                    m.data \o c.data = Slice(pl, 0, Len(m.data) + Len(c.data))
  <1> DEFINE m == MessageFor(c)
             pl == sent[c.pid][c.msgId]
  <1>1. c = queue[1] /\ 1 \in 1 .. Len(queue)
    BY DEF IInv, TypeOK
  <1>2. c \in Chunk /\ Faithful(c) /\ Behind(c)
    BY <1>1, FieldTypes DEF IInv, QueueInv
  <1>3. /\ c.pid \in Pids /\ c.msgId \in Nat \ {0} /\ c.total \in Nat \ {0}
        /\ c.offset \in Nat /\ c.data \in Seq(Bytes) /\ Len(c.data) \in Nat
    BY <1>2 DEF Chunk
  <1>4. Key(c) \in Keys /\ Key(c)[1] = c.pid /\ Key(c)[2] = c.msgId
    BY <1>3 DEF Key, Keys
  <1>5. pl \in Payloads /\ c.total = Size[pl]
    <2>1. sent[c.pid] \in Seq(Payloads) /\ c.msgId \in 1 .. Len(sent[c.pid])
      BY <1>2, <1>3, FieldTypes DEF IInv, Faithful
    <2>2. QED
      BY <1>2, <2>1 DEF Faithful
  <1>6. /\ m \in PartialMessage /\ m.total = c.total
        /\ Len(m.data) < m.total /\ m.data = Slice(pl, 0, Len(m.data))
    <2>1. CASE Key(c) \in DOMAIN recieved
      BY <1>4, <1>5, <2>1 DEF IInv, TypeOK, PartialInv, MessageFor
    <2>2. CASE Key(c) \notin DOMAIN recieved
      <3>1. m = [total |-> c.total, data |-> << >>, age |-> MaxAge + 1]
        BY <2>2 DEF MessageFor, NewMessage
      <3>2. << >> = Slice(pl, 0, 0)
        BY <1>5, SliceType, EmptySeq
      <3>3. << >> \in Seq(Bytes) /\ Len(<< >>) = 0
        BY EmptySeq
      <3>4. MaxAge + 1 \in 0 .. MaxAge + 1
        BY AgeAssumption
      <3>5. m \in PartialMessage
        BY <1>3, <3>1, <3>3, <3>4, PartialMessageType
      <3>6. QED
        BY <1>3, <3>1, <3>2, <3>3, <3>5
    <2>3. QED
      BY <2>1, <2>2
  <1>7. ASSUME Accepts(m, c)
        PROVE  m.data \o c.data = Slice(pl, 0, Len(m.data) + Len(c.data))
    <2>1. c.data = Slice(pl, c.offset, Len(c.data))
      BY <1>2 DEF Faithful
    <2>2. c.offset = Len(m.data)
      BY <1>7 DEF Accepts
    <2>3. Slice(pl, 0, c.offset) \o Slice(pl, c.offset, Len(c.data))
              = Slice(pl, 0, c.offset + Len(c.data))
      BY <1>3, <1>5, SliceConcat
    <2>4. QED
      BY <1>6, <2>1, <2>2, <2>3
  <1>8. QED
    BY <1>2, <1>4, <1>5, <1>6, <1>7

\* Taking the first chunk away keeps what is known of the others.
LEMMA TailOfQueue ==
    ASSUME IInv, queue # << >>, queue' = Tail(queue), UNCHANGED senderVars
    PROVE  /\ queue' \in Seq(Chunk) /\ Len(queue') <= QueueSize
           /\ QueueInv'
           /\ \A j \in 1 .. Len(queue') : j + 1 \in 1 .. Len(queue) /\ queue'[j] = queue[j + 1]
  <1>1. queue \in Seq(Chunk) /\ Len(queue) <= QueueSize /\ Len(queue) \in Nat \ {0}
    BY DEF IInv, TypeOK
  <1>2. /\ queue' \in Seq(Chunk) /\ Len(queue') = Len(queue) - 1
        /\ \A j \in 1 .. Len(queue') : queue'[j] = queue[j + 1]
    BY <1>1, HeadTailProperties
  <1>3. Len(queue') <= QueueSize
    BY <1>1, <1>2, QueueSizeAssumption
  <1>4. \A j \in 1 .. Len(queue') : j + 1 \in 1 .. Len(queue)
    BY <1>1, <1>2
  <1>5. QueueInv'
    <2>1. \A d : (Faithful(d)' <=> Faithful(d)) /\ (Behind(d)' <=> Behind(d))
      BY DEF Faithful, Behind, senderVars
    <2>2. ASSUME NEW j \in 1 .. Len(queue')
          PROVE  \A d : d = queue'[j] => Faithful(d)' /\ Behind(d)'
      BY <1>2, <1>4, <2>1 DEF IInv, QueueInv
    <2>3. ASSUME NEW i \in 1 .. Len(queue'), NEW j \in 1 .. Len(queue'),
                 i < j, queue'[i].pid = queue'[j].pid
          PROVE  Before(queue'[i], queue'[j])
      BY <1>2, <1>4, <2>3 DEF IInv, QueueInv
    <2>4. QED
      BY <2>2, <2>3 DEF QueueInv, Faithful, Behind, Before
  <1>6. QED
    BY <1>2, <1>3, <1>4, <1>5

\* A chunk is taken from the queue: whatever becomes of it, entries stay proper
\* prefixes, and a delivered message has no chunk left anywhere.
LEMMA ReceiveInv ==
    ASSUME IInv, Receive
    PROVE  IInv'
  <1> PICK c : c = Head(queue)
    OBVIOUS
  <1> PICK m : m = MessageFor(c)
    OBVIOUS
  <1> DEFINE pl == sent[c.pid][c.msgId]
             k == Key(c)
  <1>1. /\ queue # << >> /\ queue' = Tail(queue)
        /\ UNCHANGED <<sent, pc, payloadOffset, sinceCleanup, dropped, aborted, expired>>
        /\ RejectChunk(c) \/ KeepChunk(c) \/ CompleteMessage(c)
    BY DEF Receive, senderVars
  <1>2. /\ c \in Chunk /\ Faithful(c) /\ Behind(c) /\ k \in Keys /\ pl \in Payloads
        /\ m \in PartialMessage /\ m.total = c.total
        /\ Len(m.data) < m.total /\ m.data = Slice(pl, 0, Len(m.data))
        /\ Accepts(m, c) => m.data \o c.data = Slice(pl, 0, Len(m.data) + Len(c.data))
    BY <1>1, HeadOfQueue
  <1>3. /\ queue' \in Seq(Chunk) /\ Len(queue') <= QueueSize /\ QueueInv'
        /\ \A j \in 1 .. Len(queue') : j + 1 \in 1 .. Len(queue) /\ queue'[j] = queue[j + 1]
    BY <1>1, TailOfQueue DEF senderVars
  <1>4. /\ c.pid \in Pids /\ c.msgId \in Nat \ {0} /\ c.offset \in Nat
        /\ c.data \in Seq(Bytes) /\ Len(c.data) \in Nat /\ c.total \in Nat
        /\ m.data \in Seq(Bytes) /\ Len(m.data) \in Nat /\ m.total \in Nat \ {0}
        /\ k[1] = c.pid /\ k[2] = c.msgId
        /\ c.msgId <= Len(sent[c.pid]) /\ c.total = Size[pl]
    <2>1. /\ c.pid \in Pids /\ c.msgId \in Nat \ {0} /\ c.offset \in Nat
          /\ c.data \in Seq(Bytes) /\ Len(c.data) \in Nat /\ c.total \in Nat
      BY <1>2 DEF Chunk
    <2>2. m.data \in Seq(Bytes) /\ Len(m.data) \in Nat /\ m.total \in Nat \ {0}
      BY <1>2 DEF PartialMessage
    <2>3. k[1] = c.pid /\ k[2] = c.msgId
      BY DEF Key
    <2>4. c.msgId <= Len(sent[c.pid]) /\ c.total = Size[pl]
      BY <1>2 DEF Faithful
    <2>5. QED
      BY <2>1, <2>2, <2>3, <2>4
  <1>5. SenderInv'
    BY <1>1 DEF IInv, SenderInv, CurrentPayload
  \* The new value of an entry is again a proper prefix.
  <1>6. ASSUME NEW e \in PartialMessage, e.total = m.total, Len(e.data) < e.total,
               e.data = Slice(pl, 0, Len(e.data)), recieved' = Store(k, e)
        PROVE  /\ DOMAIN recieved' \subseteq Keys
               /\ \A j \in DOMAIN recieved' : recieved'[j] \in PartialMessage
               /\ PartialInv'
    <2>1. /\ DOMAIN recieved' = DOMAIN recieved \cup {k}
          /\ \A j \in DOMAIN recieved' : recieved'[j] = IF j = k THEN e ELSE recieved[j]
      BY <1>6 DEF Store
    <2>2. DOMAIN recieved' \subseteq Keys /\ \A j \in DOMAIN recieved' : recieved'[j] \in PartialMessage
      BY <1>2, <1>6, <2>1 DEF IInv, TypeOK
    <2>3. ASSUME NEW j \in DOMAIN recieved'
          PROVE  /\ j[2] <= Len(sent[j[1]])
                 /\ recieved'[j].total = Size[sent[j[1]][j[2]]]
                 /\ Len(recieved'[j].data) < recieved'[j].total
                 /\ recieved'[j].data = Slice(sent[j[1]][j[2]], 0, Len(recieved'[j].data))
      <3>1. CASE j = k
        BY <1>2, <1>4, <1>6, <2>1, <3>1
      <3>2. CASE j # k
        BY <2>1, <3>2 DEF IInv, PartialInv
      <3>3. QED
        BY <3>1, <3>2
    <2>4. QED
      BY <1>1, <2>2, <2>3 DEF PartialInv
  \* What stays in the queue keeps its distance from what is delivered.
  <1>7. ASSUME UNCHANGED delivered PROVE DeliveredInv'
    BY <1>1, <1>3, <1>7 DEF IInv, DeliveredInv
  <1>8. CASE RejectChunk(c)
    <2>1. recieved' = Store(k, m) /\ delivered' = delivered
      BY <1>8 DEF RejectChunk
    <2>2. /\ DOMAIN recieved' \subseteq Keys
          /\ \A j \in DOMAIN recieved' : recieved'[j] \in PartialMessage
          /\ PartialInv'
      BY <1>2, <1>6, <2>1
    <2>3. TypeOK'
      BY <1>1, <1>3, <2>1, <2>2 DEF IInv, TypeOK
    <2>4. QED
      BY <1>3, <1>5, <1>7, <2>1, <2>2, <2>3 DEF IInv
  <1>9. CASE KeepChunk(c)
    <2> DEFINE e == AddNextChunk(m, c)
    <2>1. /\ recieved' = Store(k, e) /\ delivered' = delivered
          /\ Accepts(m, c) /\ Len(m.data) + Len(c.data) < m.total
      BY <1>9 DEF KeepChunk
    <2>2. e = [total |-> m.total, data |-> m.data \o c.data, age |-> 0]
      BY DEF AddNextChunk
    <2>3. m.data \o c.data \in Seq(Bytes) /\ Len(m.data \o c.data) = Len(m.data) + Len(c.data)
      BY <1>4, ConcatProperties
    <2>4. e \in PartialMessage
      <3>1. 0 \in 0 .. MaxAge + 1
        BY AgeAssumption
      <3>2. QED
        BY <1>4, <2>2, <2>3, <3>1, PartialMessageType
    <2> HIDE DEF e
    <2>5. /\ DOMAIN recieved' \subseteq Keys
          /\ \A j \in DOMAIN recieved' : recieved'[j] \in PartialMessage
          /\ PartialInv'
      <3>1. /\ e.total = m.total /\ Len(e.data) < e.total
            /\ e.data = Slice(pl, 0, Len(e.data))
        BY <1>2, <2>1, <2>2, <2>3
      <3>2. QED
        BY <1>6, <2>1, <2>4, <3>1
    <2>6. TypeOK'
      BY <1>1, <1>3, <2>1, <2>5 DEF IInv, TypeOK
    <2>7. QED
      BY <1>3, <1>5, <1>7, <2>1, <2>5, <2>6 DEF IInv
  <1>10. CASE CompleteMessage(c)
    <2> DEFINE d == [pid |-> c.pid, msgId |-> c.msgId, data |-> m.data \o c.data]
    <2>1. /\ Accepts(m, c) /\ Len(m.data) + Len(c.data) = m.total
          /\ recieved' = Erase({k}) /\ delivered' = Append(delivered, d)
      BY <1>10 DEF CompleteMessage, AddNextChunk
    <2>2. /\ DOMAIN recieved' = DOMAIN recieved \ {k}
          /\ \A j \in DOMAIN recieved' : recieved'[j] = recieved[j]
      BY <2>1 DEF Erase
    <2>3. d \in Handover
      BY <1>4, ConcatProperties DEF Handover
    <2>4. TypeOK'
      <3>1. delivered' \in Seq(Handover)
        BY <2>1, <2>3 DEF IInv, TypeOK
      <3>2. QED
        BY <1>1, <1>3, <2>2, <3>1 DEF IInv, TypeOK
    <2>5. PartialInv'
      BY <1>1, <2>2 DEF IInv, PartialInv
    \* c is the last chunk of its message, so its sender is done with it ...
    <2>6. c.msgId = Len(sent[c.pid]) => pc[c.pid] # "sending"
      <3>1. c.offset + Len(c.data) = Size[pl]
        BY <1>2, <1>4, <2>1 DEF Accepts
      <3>2. ASSUME c.msgId = Len(sent[c.pid]), pc[c.pid] = "sending" PROVE FALSE
        <4>1. payloadOffset[c.pid] \in Nat /\ payloadOffset[c.pid] < Size[pl]
          BY <1>4, <3>2 DEF IInv, TypeOK, SenderInv, CurrentPayload
        <4>2. c.offset + Len(c.data) <= payloadOffset[c.pid]
          BY <1>2, <3>2 DEF Behind
        <4>3. Size[pl] \in Nat
          BY <1>2, SizeAssumption
        <4>4. QED
          BY <3>1, <4>1, <4>2, <4>3
      <3>3. QED
        BY <3>2
    \* ... and the chunks behind it are of later messages.
    <2>7. ASSUME NEW j \in 1 .. Len(queue'), queue'[j].pid = c.pid
          PROVE  c.msgId < queue'[j].msgId
      <3>1. c = queue[1] /\ 1 \in 1 .. Len(queue) /\ j + 1 \in 1 .. Len(queue)
            /\ queue'[j] = queue[j + 1] /\ 1 < j + 1
        BY <1>1, <1>3 DEF IInv, TypeOK
      <3> DEFINE x == queue[j + 1]
      <3>2. Before(c, x) /\ Faithful(x) /\ x \in Chunk /\ x.pid = c.pid
        BY <2>7, <3>1, FieldTypes DEF IInv, QueueInv
      <3> HIDE DEF x
      <3>3. x.msgId \in Nat /\ x.offset \in Nat /\ Len(x.data) \in Nat
        BY <3>2 DEF Chunk
      <3>4. x.msgId = c.msgId => x.offset < c.total
        BY <1>4, <3>2, <3>3 DEF Faithful
      <3>5. c.offset + Len(c.data) = c.total
        BY <1>2, <1>4, <2>1 DEF Accepts
      <3>6. c.msgId < x.msgId
        BY <1>4, <3>2, <3>3, <3>4, <3>5 DEF Before
      <3>7. QED
        BY <3>1, <3>6 DEF x
    <2>8. DeliveredInv'
      <3>1. ASSUME NEW i \in 1 .. Len(delivered')
            PROVE  (i \in 1 .. Len(delivered) /\ delivered'[i] = delivered[i]) \/ delivered'[i] = d
        BY <2>1, <2>3 DEF IInv, TypeOK
      <3>2. ASSUME NEW i \in 1 .. Len(delivered')
            PROVE  /\ delivered'[i].msgId <= Len(sent[delivered'[i].pid])
                   /\ delivered'[i].msgId = Len(sent[delivered'[i].pid])
                         => pc[delivered'[i].pid] # "sending"
                   /\ \A j \in 1 .. Len(queue') :
                          queue'[j].pid = delivered'[i].pid => delivered'[i].msgId < queue'[j].msgId
        <4>1. CASE i \in 1 .. Len(delivered) /\ delivered'[i] = delivered[i]
          BY <1>3, <4>1 DEF IInv, DeliveredInv
        <4>2. CASE delivered'[i] = d
          <5>1. delivered'[i].pid = c.pid /\ delivered'[i].msgId = c.msgId
            BY <4>2
          <5>2. QED
            BY <1>4, <2>6, <2>7, <5>1
        <4>3. QED
          BY <3>1, <4>1, <4>2
      <3>3. QED
        BY <1>1, <3>2 DEF DeliveredInv
    <2>9. QED
      BY <1>3, <1>5, <2>4, <2>5, <2>8 DEF IInv
  <1>11. QED
    BY <1>1, <1>8, <1>9, <1>10

\* Time and cleanup change the age and the number of entries, not their bytes.
LEMMA TickInv ==
    ASSUME IInv, Tick
    PROVE  IInv'
  <1>1. /\ DOMAIN recieved' = DOMAIN recieved
        /\ \A k \in DOMAIN recieved :
               recieved'[k] = [recieved[k] EXCEPT !.age = Minimum(@ + 1, MaxAge + 1)]
        /\ sinceCleanup' = Minimum(sinceCleanup + 1, CleanupInterval)
        /\ UNCHANGED <<sent, pc, payloadOffset, queue, delivered, dropped, aborted, expired>>
    BY DEF Tick, senderVars
  <1>2. ASSUME NEW k \in DOMAIN recieved
        PROVE  /\ recieved'[k] \in PartialMessage
               /\ recieved'[k].total = recieved[k].total
               /\ recieved'[k].data = recieved[k].data
    <2>1. recieved[k] \in PartialMessage
      BY DEF IInv, TypeOK
    <2>2. QED
      BY <1>1, <2>1, AgeAssumption DEF PartialMessage, Minimum
  <1>3. sinceCleanup' \in 0 .. CleanupInterval
    BY <1>1, AgeAssumption DEF IInv, TypeOK, Minimum
  <1>4. TypeOK'
    BY <1>1, <1>2, <1>3 DEF IInv, TypeOK
  <1>5. SenderInv' /\ QueueInv' /\ DeliveredInv'
    BY <1>1 DEF IInv, SenderInv, CurrentPayload, QueueInv, Faithful, Behind, Before, DeliveredInv
  <1>6. PartialInv'
    BY <1>1, <1>2 DEF IInv, PartialInv
  <1>7. QED
    BY <1>4, <1>5, <1>6 DEF IInv

\* cleanupAbandonedMessages only removes entries.
LEMMA CleanupInv ==
    ASSUME IInv, Cleanup
    PROVE  IInv'
  <1>1. /\ DOMAIN recieved' \subseteq DOMAIN recieved
        /\ \A k \in DOMAIN recieved' : recieved'[k] = recieved[k]
        /\ sinceCleanup' = 0 /\ expired' \subseteq expired \cup DOMAIN recieved
        /\ UNCHANGED <<sent, pc, payloadOffset, queue, delivered, dropped, aborted>>
    BY DEF Cleanup, senderVars, Erase, Abandoned
  <1>2. TypeOK'
    BY <1>1, AgeAssumption DEF IInv, TypeOK
  <1>3. SenderInv' /\ QueueInv' /\ DeliveredInv'
    BY <1>1 DEF IInv, SenderInv, CurrentPayload, QueueInv, Faithful, Behind, Before, DeliveredInv
  <1>4. PartialInv'
    BY <1>1 DEF IInv, PartialInv
  <1>5. QED
    BY <1>2, <1>3, <1>4 DEF IInv

\* No step of the workers or of the coordinator breaks the invariant.
LEMMA NextInv == IInv /\ [Next]_vars => IInv'
  <1> SUFFICES ASSUME IInv, [Next]_vars PROVE IInv'
    OBVIOUS
  <1>1. ASSUME NEW p \in Pids, SenderStep(p) PROVE IInv'
    BY <1>1, SendPayloadInv, EnqueueChunkInv, SenderStopsInv DEF SenderStep
  <1>2. CASE Receive
    BY <1>2, ReceiveInv
  <1>3. CASE Tick
    BY <1>3, TickInv
  <1>4. CASE Cleanup
    BY <1>4, CleanupInv
  <1>5. CASE UNCHANGED vars
    BY <1>5 DEF vars, IInv, TypeOK, SenderInv, CurrentPayload, QueueInv, Faithful, Behind,
                Before, PartialInv, DeliveredInv
  <1>6. QED
    BY <1>1, <1>2, <1>3, <1>4, <1>5 DEF Next

\* The parts of the inductive invariant hold in every reachable state.
THEOREM Invariance == Spec => []IInv
  BY InitInv, NextInv, PTL DEF Spec

\* The senders, the bounded queue and the reassembly of ChunkedMessageProcessor
\* keep their types; in particular the queue stays within maxQueueSize.
THEOREM TypeCorrect == Spec => []TypeOK
  <1>1. IInv => TypeOK
    BY DEF IInv
  <1>2. QED
    BY <1>1, Invariance, PTL

-----------------------------------------------------------------------------
(* ChunkedMessages implements MessageChannel *)

\* The call of processMessage_ hands over a whole payload, later in its
\* sender's order than all that was handed over before.
LEMMA CompleteIsHandOver ==
    ASSUME IInv, queue # << >>, NEW c, c = Head(queue), CompleteMessage(c), sent' = sent
    PROVE  /\ c.pid \in Pids
           /\ c.msgId \in 1 .. Len(sent[c.pid])
           /\ Channel!HandOver(c.pid, c.msgId)
  <1> PICK m : m = MessageFor(c)
    OBVIOUS
  <1> DEFINE pl == sent[c.pid][c.msgId]
  <1>1. /\ c \in Chunk /\ Faithful(c) /\ m.total = c.total
        /\ Accepts(m, c) => m.data \o c.data = Slice(pl, 0, Len(m.data) + Len(c.data))
    BY HeadOfQueue
  <1>2. c.pid \in Pids /\ c.msgId \in 1 .. Len(sent[c.pid]) /\ c.total = Size[pl]
    <2>1. c.pid \in Pids /\ c.msgId \in Nat \ {0}
      BY <1>1 DEF Chunk
    <2>2. Len(sent[c.pid]) \in Nat
      BY <2>1, FieldTypes DEF IInv
    <2>3. c.msgId <= Len(sent[c.pid]) /\ c.total = Size[pl]
      BY <1>1, Zenon DEF Faithful
    <2> HIDE DEF pl
    <2>4. QED
      BY <2>1, <2>2, <2>3
  <1>3. /\ Accepts(m, c) /\ Len(m.data) + Len(c.data) = m.total
        /\ delivered' = Append(delivered, [pid |-> c.pid, msgId |-> c.msgId,
                                           data |-> m.data \o c.data])
    BY DEF CompleteMessage, AddNextChunk
  <1>4. m.data \o c.data = Encode(pl)
    BY <1>1, <1>2, <1>3 DEF Encode
  <1>5. ASSUME NEW i \in 1 .. Len(delivered), delivered[i].pid = c.pid
        PROVE  delivered[i].msgId < c.msgId
    <2>1. c = queue[1] /\ 1 \in 1 .. Len(queue)
      BY DEF IInv, TypeOK
    <2>2. QED
      BY <1>5, <2>1 DEF IInv, DeliveredInv
  <1>6. QED
    BY <1>2, <1>3, <1>4, <1>5 DEF Channel!HandOver

\* What the coordinator's dispatcher receives through the chunked messages is
\* what MessageChannel allows: whole payloads, at most once, in sender order,
\* for every number of processes, queue size, chunk size and payload sizes.
THEOREM Refinement == Spec => ChannelSpec
  <1>1. Init => Channel!Init
    BY DEF Init, Channel!Init
  <1>2. ASSUME IInv, [Next]_vars PROVE [Channel!Next]_(Channel!vars)
    <2>1. ASSUME NEW p \in Pids, NEW pl \in Payloads, SendPayload(p, pl)
          PROVE  Channel!Next
      BY <2>1 DEF SendPayload, receiverVars, Channel!Next, Channel!Submit
    <2>2. ASSUME NEW p \in Pids, EnqueueChunk(p) \/ EnqueueFails(p) \/ Die(p)
          PROVE  UNCHANGED <<sent, delivered>>
      BY <2>2 DEF EnqueueChunk, EnqueueFails, Die, receiverVars
    <2>3. CASE Receive
      <3> PICK c : c = Head(queue)
        OBVIOUS
      <3>1. queue # << >> /\ sent' = sent
        BY <2>3 DEF Receive, senderVars
      <3>2. CASE RejectChunk(c) \/ KeepChunk(c)
        BY <3>1, <3>2 DEF RejectChunk, KeepChunk, Channel!vars
      <3>3. CASE CompleteMessage(c)
        BY <1>2, <3>1, <3>3, CompleteIsHandOver DEF Channel!Next
      <3>4. QED
        BY <2>3, <3>2, <3>3 DEF Receive
    <2>4. CASE Tick \/ Cleanup \/ UNCHANGED vars
      BY <2>4 DEF Tick, Cleanup, vars, senderVars, Channel!vars
    <2>5. QED
      BY <1>2, <2>1, <2>2, <2>3, <2>4 DEF Next, SenderStep, Channel!vars
  <1>3. QED
    BY <1>1, <1>2, Invariance, PTL DEF Spec, ChannelSpec, Channel!Spec
-----------------------------------------------------------------------------
(* Nothing is lost in silence *)

\* The chunk is one of message id of process p.
IsOf(c, p, id) == c.pid = p /\ c.msgId = id

\* How many bytes of the message the coordinator has, and how many its sender
\* has passed to the queue.
Got(p, id) == IF <<p, id>> \in DOMAIN recieved THEN Len(recieved[<<p, id>>].data) ELSE 0
Passed(p, id) == IF id = Len(sent[p]) /\ pc[p] = "sending" THEN payloadOffset[p]
                 ELSE Size[sent[p][id]]

\* The queue q holds bytes from + 1 .. upto of the message, and none before them.
Holds(q, p, id, from, upto) ==
    /\ from <= upto
    /\ \A i \in 1 .. Len(q) : IsOf(q[i], p, id) => from <= q[i].offset
    /\ \A b \in from .. upto - 1 : \E i \in 1 .. Len(q) :
           IsOf(q[i], p, id) /\ q[i].offset <= b /\ b < q[i].offset + Len(q[i].data)

\* Of a message that is neither lost nor delivered, the bytes that the sender
\* passed on and the coordinator does not have yet are in the queue.
QueueHoldsRest ==
    \A p \in Pids : \A id \in 1 .. Len(sent[p]) :
        <<p, id>> \notin Lost /\ ~Delivered(<<p, id>>) =>
            Holds(queue, p, id, Got(p, id), Passed(p, id))

\* A chunk of the message that goes to the end of the queue moves the end.
LEMMA HoldsAppended ==
    ASSUME NEW q \in Seq(Chunk), NEW p, NEW id, NEW from \in Nat, NEW upto \in Nat,
           Holds(q, p, id, from, upto), NEW c \in Chunk,
           IsOf(c, p, id), c.offset = upto
    PROVE  Holds(Append(q, c), p, id, from, upto + Len(c.data))
  <1> DEFINE new == Append(q, c)
             n == Len(c.data)
  <1>1. /\ Len(q) \in Nat /\ Len(new) = Len(q) + 1 /\ new[Len(q) + 1] = c
        /\ \A i \in 1 .. Len(q) : new[i] = q[i]
    BY AppendProperties
  <1>2. n \in Nat
    BY DEF Chunk
  <1> HIDE DEF new, n
  <1>3. ASSUME NEW i \in 1 .. Len(new), IsOf(new[i], p, id) PROVE from <= new[i].offset
    <2>1. CASE i = Len(q) + 1
      BY <1>1, <2>1 DEF Holds
    <2>2. CASE i # Len(q) + 1
      <3>1. i \in 1 .. Len(q)
        BY <1>1, <2>2
      <3>2. QED
        BY <1>1, <1>3, <3>1 DEF Holds
    <2>3. QED
      BY <2>1, <2>2
  <1>4. ASSUME NEW b \in from .. (upto + n) - 1
        PROVE  \E i \in 1 .. Len(new) :
                   IsOf(new[i], p, id) /\ new[i].offset <= b /\ b < new[i].offset + Len(new[i].data)
    <2>1. CASE b < upto
      <3>1. b \in from .. upto - 1
        BY <2>1
      <3>2. PICK i \in 1 .. Len(q) :
                IsOf(q[i], p, id) /\ q[i].offset <= b /\ b < q[i].offset + Len(q[i].data)
        BY <3>1 DEF Holds
      <3>3. i \in 1 .. Len(new) /\ new[i] = q[i]
        BY <1>1
      <3>4. QED
        BY <3>2, <3>3
    <2>2. CASE b >= upto
      <3>1. Len(q) + 1 \in 1 .. Len(new)
        BY <1>1
      <3>2. b < upto + n
        BY <1>2
      <3>3. QED
        BY <1>1, <2>2, <3>1, <3>2 DEF n
    <2>3. QED
      BY <2>1, <2>2, <1>2
  <1>5. from <= upto + n
    BY <1>2 DEF Holds
  <1>6. Holds(new, p, id, from, upto + n)
    BY <1>3, <1>4, <1>5 DEF Holds
  <1>7. QED
    BY <1>6 DEF new, n

\* A chunk of another message changes nothing.
LEMMA HoldsOtherAppended ==
    ASSUME NEW q \in Seq(Chunk), NEW p, NEW id, NEW from \in Nat, NEW upto \in Nat,
           Holds(q, p, id, from, upto), NEW c \in Chunk, ~IsOf(c, p, id)
    PROVE  Holds(Append(q, c), p, id, from, upto)
  <1> DEFINE new == Append(q, c)
  <1>1. /\ Len(q) \in Nat /\ Len(new) = Len(q) + 1 /\ new[Len(q) + 1] = c
        /\ \A i \in 1 .. Len(q) : new[i] = q[i]
    BY AppendProperties
  <1> HIDE DEF new
  <1>2. \A i \in 1 .. Len(new) : IsOf(new[i], p, id) => i \in 1 .. Len(q)
    BY <1>1
  <1>3. \A i \in 1 .. Len(q) : i \in 1 .. Len(new)
    BY <1>1
  <1>4. Holds(new, p, id, from, upto)
    BY <1>1, <1>2, <1>3 DEF Holds
  <1>5. QED
    BY <1>4 DEF new

\* The same holds when it leaves the head of the queue.
LEMMA HoldsOtherTaken ==
    ASSUME NEW q \in Seq(Chunk), q # << >>, NEW p, NEW id, NEW from \in Nat, NEW upto \in Nat,
           Holds(q, p, id, from, upto), ~IsOf(Head(q), p, id)
    PROVE  Holds(Tail(q), p, id, from, upto)
  <1> DEFINE new == Tail(q)
  <1>1. /\ Len(q) \in Nat \ {0} /\ Len(new) = Len(q) - 1 /\ Head(q) = q[1]
        /\ \A i \in 1 .. Len(new) : new[i] = q[i + 1]
    BY HeadTailProperties
  <1> HIDE DEF new
  <1>2. ASSUME NEW i \in 1 .. Len(q), IsOf(q[i], p, id)
        PROVE  i - 1 \in 1 .. Len(new) /\ new[i - 1] = q[i]
    <2>1. i # 1
      BY <1>1, <1>2
    <2>2. i - 1 \in 1 .. Len(new) /\ (i - 1) + 1 = i
      BY <1>1, <2>1
    <2>3. QED
      BY <1>1, <2>2
  <1>3. \A i \in 1 .. Len(new) : i + 1 \in 1 .. Len(q)
    BY <1>1
  <1>4. \A i \in 1 .. Len(new) : IsOf(new[i], p, id) => from <= new[i].offset
    BY <1>1, <1>3 DEF Holds
  <1>5. ASSUME NEW b \in from .. upto - 1
        PROVE  \E i \in 1 .. Len(new) :
                   IsOf(new[i], p, id) /\ new[i].offset <= b /\ b < new[i].offset + Len(new[i].data)
    <2>1. PICK i \in 1 .. Len(q) :
              IsOf(q[i], p, id) /\ q[i].offset <= b /\ b < q[i].offset + Len(q[i].data)
      BY DEF Holds
    <2>2. i - 1 \in 1 .. Len(new) /\ new[i - 1] = q[i]
      BY <1>2, <2>1
    <2>3. QED
      BY <2>1, <2>2
  <1>6. Holds(new, p, id, from, upto)
    BY <1>4, <1>5 DEF Holds
  <1>7. QED
    BY <1>6 DEF new

\* The first chunk of the message that the queue holds is the one the
\* coordinator waits for, and behind it is the rest.
LEMMA HoldsTaken ==
    ASSUME NEW p, NEW id, NEW from \in Nat, NEW upto \in Nat,
           IInv, queue # << >>, IsOf(Head(queue), p, id),
           Holds(queue, p, id, from, upto),
           Head(queue).offset + Len(Head(queue).data) <= upto
    PROVE  /\ Head(queue).offset = from
           /\ Holds(Tail(queue), p, id, from + Len(Head(queue).data), upto)
  <1> DEFINE q == queue
             new == Tail(q)
  <1> PICK c : c = Head(queue)
    OBVIOUS
  <1>1. /\ Len(q) \in Nat \ {0} /\ Len(new) = Len(q) - 1 /\ c = q[1] /\ 1 \in 1 .. Len(q)
        /\ \A i \in 1 .. Len(new) : new[i] = q[i + 1]
    BY HeadTailProperties DEF IInv, TypeOK
  <1>2. \A i \in 1 .. Len(q) : /\ q[i].offset \in Nat /\ Len(q[i].data) \in Nat \ {0}
                               /\ q[i].msgId \in Nat
    BY FieldTypes DEF IInv, QueueInv, Faithful, Chunk
  <1>3. ASSUME NEW i \in 1 .. Len(q), i # 1, IsOf(q[i], p, id)
        PROVE  c.offset + Len(c.data) <= q[i].offset
    <2>1. 1 < i
      BY <1>3
    <2>2. Before(q[1], q[i])
      BY <1>1, <1>3, <2>1 DEF IInv, QueueInv, IsOf
    <2>3. QED
      BY <1>1, <1>2, <1>3, <2>2 DEF Before, IsOf
  <1>4. c.offset \in Nat /\ Len(c.data) \in Nat \ {0}
    BY <1>1, <1>2
  <1>5. from <= c.offset
    BY <1>1 DEF Holds
  <1>6. c.offset = from
    <2>1. from \in from .. upto - 1
      BY <1>4, <1>5
    <2>2. PICK i \in 1 .. Len(q) :
              IsOf(q[i], p, id) /\ q[i].offset <= from /\ from < q[i].offset + Len(q[i].data)
      BY <2>1 DEF Holds
    <2>3. i # 1 => c.offset + Len(c.data) <= q[i].offset
      BY <1>3, <2>2
    <2>4. q[i].offset \in Nat
      BY <1>2
    <2>5. i = 1
      <3>1. ASSUME NEW o \in Nat, NEW n \in Nat \ {0}, NEW x \in Nat,
                   from <= o, x <= from, o + n <= x
            PROVE  FALSE
        BY <3>1
      <3>2. QED
        BY <1>4, <1>5, <2>2, <2>3, <2>4, <3>1
    <2>6. QED
      BY <1>1, <1>4, <1>5, <2>2, <2>5
  <1>7. ASSUME NEW i \in 1 .. Len(new), IsOf(new[i], p, id)
        PROVE  from + Len(c.data) <= new[i].offset
    <2>1. i + 1 \in 1 .. Len(q) /\ i + 1 # 1
      BY <1>1
    <2>2. QED
      BY <1>1, <1>3, <1>6, <1>7, <2>1
  <1>8. ASSUME NEW b \in from + Len(c.data) .. upto - 1
        PROVE  \E i \in 1 .. Len(new) :
                   IsOf(new[i], p, id) /\ new[i].offset <= b /\ b < new[i].offset + Len(new[i].data)
    <2>1. b \in from .. upto - 1
      BY <1>4
    <2>2. PICK i \in 1 .. Len(q) :
              IsOf(q[i], p, id) /\ q[i].offset <= b /\ b < q[i].offset + Len(q[i].data)
      BY <2>1 DEF Holds
    <2>3. i # 1
      BY <1>1, <1>4, <1>6, <2>2
    <2>4. i - 1 \in 1 .. Len(new) /\ (i - 1) + 1 = i
      BY <1>1, <2>3
    <2>5. new[i - 1] = q[i]
      BY <1>1, <2>4
    <2>6. QED
      BY <2>2, <2>4, <2>5
  <1>9. from + Len(c.data) <= upto
    BY <1>6
  <1> HIDE DEF new
  <1>10. Holds(new, p, id, from + Len(c.data), upto)
    BY <1>7, <1>8, <1>9 DEF Holds
  <1>11. QED
    BY <1>6, <1>10 DEF new

\* What is received and passed on of a message are numbers of bytes, and the
\* coordinator keeps no message that is complete.
LEMMA ByteCounts ==
    ASSUME IInv, NEW p \in Pids, NEW id \in 1 .. Len(sent[p])
    PROVE  /\ Got(p, id) \in Nat /\ Passed(p, id) \in Nat
           /\ Got(p, id) < Size[sent[p][id]] /\ Size[sent[p][id]] \in Nat \ {0}
  <1>1. sent[p] \in Seq(Payloads) /\ sent[p][id] \in Payloads /\ Size[sent[p][id]] \in Nat \ {0}
    BY FieldTypes, SizeAssumption DEF IInv
  <1>2. Passed(p, id) \in Nat
    BY <1>1 DEF IInv, TypeOK, Passed
  <1>3. CASE <<p, id>> \in DOMAIN recieved
    <2> DEFINE m == recieved[<<p, id>>]
    <2>1. m \in PartialMessage /\ m.total = Size[sent[p][id]] /\ Len(m.data) < m.total
      BY <1>3 DEF IInv, TypeOK, PartialInv
    <2>2. Len(m.data) \in Nat
      BY <2>1 DEF PartialMessage
    <2>3. QED
      BY <1>1, <1>2, <1>3, <2>1, <2>2 DEF Got
  <1>4. CASE <<p, id>> \notin DOMAIN recieved
    BY <1>1, <1>2, <1>4 DEF Got
  <1>5. QED
    BY <1>3, <1>4

\* A chunk that is queued has been passed on by its sender.
LEMMA QueuedWasPassed ==
    ASSUME IInv, NEW p \in Pids, NEW id \in 1 .. Len(sent[p]),
           NEW i \in 1 .. Len(queue), IsOf(queue[i], p, id)
    PROVE  queue[i].offset + Len(queue[i].data) <= Passed(p, id)
  BY DEF IInv, QueueInv, IsOf, Faithful, Behind, Passed

\* The part of QueueHoldsRest that is about one message.
RestHeld(p, id) ==
    <<p, id>> \notin Lost /\ ~Delivered(<<p, id>>) =>
        Holds(queue, p, id, Got(p, id), Passed(p, id))

\* sendPayload starts with no byte passed on; earlier messages are as before.
LEMMA SendPayloadRest ==
    ASSUME IInv, QueueHoldsRest, NEW p \in Pids, NEW pl \in Payloads, SendPayload(p, pl)
    PROVE  QueueHoldsRest'
  <1>1. /\ pc[p] = "idle" /\ sent' = [sent EXCEPT ![p] = Append(@, pl)]
        /\ pc' = [pc EXCEPT ![p] = "sending"]
        /\ payloadOffset' = [payloadOffset EXCEPT ![p] = 0]
        /\ UNCHANGED <<queue, recieved, delivered, dropped, aborted, expired>>
    BY DEF SendPayload, receiverVars
  <1>2. /\ \A q \in Pids : Len(sent[q]) \in Nat
        /\ \A q \in Pids : q # p => sent'[q] = sent[q]
        /\ \A id \in 1 .. Len(sent[p]) : sent'[p][id] = sent[p][id]
        /\ Len(sent'[p]) = Len(sent[p]) + 1
        /\ pc'[p] = "sending" /\ payloadOffset'[p] = 0
        /\ \A q \in Pids : q # p => pc'[q] = pc[q] /\ payloadOffset'[q] = payloadOffset[q]
    BY <1>1 DEF IInv, TypeOK
  <1>3. ASSUME NEW q \in Pids, NEW id \in 1 .. Len(sent'[q]) PROVE RestHeld(q, id)'
    <2>1. CASE q = p /\ id = Len(sent'[p])
      <3>1. <<q, id>> \notin DOMAIN recieved
        <4>1. ASSUME <<q, id>> \in DOMAIN recieved PROVE FALSE
          <5>1. <<q, id>>[2] <= Len(sent[<<q, id>>[1]])
            BY <4>1 DEF IInv, PartialInv
          <5>2. QED
            BY <1>2, <2>1, <5>1
        <4>2. QED
          BY <4>1
      <3>2. Got(q, id)' = 0 /\ Passed(q, id)' = 0
        BY <1>1, <1>2, <2>1, <3>1 DEF Got, Passed
      <3>3. \A i \in 1 .. Len(queue) : ~IsOf(queue[i], q, id)
        BY <1>2, <2>1, FieldTypes DEF IInv, QueueInv, Faithful, IsOf
      <3>4. Holds(queue, q, id, 0, 0)
        BY <3>3 DEF Holds
      <3>5. QED
        BY <1>1, <3>2, <3>4 DEF RestHeld
    <2>2. CASE ~(q = p /\ id = Len(sent'[p]))
      <3>1. id \in 1 .. Len(sent[q])
        BY <1>2, <2>2
      <3>2. Passed(q, id)' = Passed(q, id)
        BY <1>1, <1>2, <2>2, <3>1 DEF Passed
      <3>3. Got(q, id)' = Got(q, id)
        BY <1>1 DEF Got
      <3>4. RestHeld(q, id)
        BY <3>1 DEF QueueHoldsRest, RestHeld
      <3>5. Lost' = Lost /\ Delivered(<<q, id>>)' = Delivered(<<q, id>>)
        BY <1>1 DEF Lost, Delivered
      <3>6. QED
        BY <1>1, <3>2, <3>3, <3>4, <3>5 DEF RestHeld
    <2>3. QED
      BY <2>1, <2>2
  <1>4. QED
    BY <1>3 DEF QueueHoldsRest, RestHeld

\* A chunk is queued where the last one ended, or its message counts as lost.
LEMMA EnqueueChunkRest ==
    ASSUME IInv, QueueHoldsRest, NEW p \in Pids, EnqueueChunk(p)
    PROVE  QueueHoldsRest'
  <1> PICK c : c = NextChunk(p)
    OBVIOUS
  <1> DEFINE next == payloadOffset[p] + Len(c.data)
  <1>1. /\ c \in Chunk /\ Faithful(c) /\ c.pid = p /\ c.msgId = Len(sent[p])
        /\ c.offset = payloadOffset[p] /\ c.total = Size[CurrentPayload(p)]
        /\ pc[p] = "sending"
    BY NextChunkFaithful DEF IInv, EnqueueChunk
  <1>2. /\ \/ queue' = Append(queue, c) /\ dropped' = dropped
           \/ queue' = queue /\ dropped' = dropped \cup {CurrentKey(p)}
        /\ payloadOffset' = [payloadOffset EXCEPT ![p] = next]
        /\ pc' = [pc EXCEPT ![p] = IF next < c.total THEN "sending" ELSE "idle"]
        /\ UNCHANGED <<sent, recieved, delivered, aborted, expired>>
    BY DEF EnqueueChunk, receiverVars
  <1>3. /\ c.offset \in Nat /\ c.total \in Nat /\ Len(c.data) \in Nat
        /\ next \in Nat /\ next <= c.total
    BY <1>1 DEF Chunk, Faithful
  <1>4. /\ payloadOffset'[p] = next
        /\ pc'[p] = IF next < c.total THEN "sending" ELSE "idle"
        /\ \A q \in Pids : q # p => pc'[q] = pc[q] /\ payloadOffset'[q] = payloadOffset[q]
    BY <1>2 DEF IInv, TypeOK
  <1>5. ASSUME NEW q \in Pids, NEW id \in 1 .. Len(sent[q]) PROVE RestHeld(q, id)'
    <2>1. /\ Got(q, id)' = Got(q, id) /\ Delivered(<<q, id>>)' = Delivered(<<q, id>>)
          /\ Lost \subseteq Lost'
      BY <1>2 DEF Got, Delivered, Lost
    <2>2. RestHeld(q, id)
      BY DEF QueueHoldsRest, RestHeld
    <2>3. Got(q, id) \in Nat /\ Passed(q, id) \in Nat
      BY ByteCounts
    <2>4. CASE q = p /\ id = Len(sent[p])
      <3>1. Passed(q, id) = payloadOffset[p]
        BY <1>1, <2>4 DEF Passed
      <3>2. Passed(q, id)' = next
        <4>1. sent[p][id] = CurrentPayload(p)
          BY <2>4 DEF CurrentPayload
        <4>2. QED
          BY <1>1, <1>2, <1>3, <1>4, <2>4, <4>1 DEF Passed
      <3>3. CASE queue' = Append(queue, c)
        <4>1. queue \in Seq(Chunk) /\ IsOf(c, q, id)
          BY <1>1, <2>4 DEF IInv, TypeOK, IsOf
        <4>2. ASSUME Holds(queue, q, id, Got(q, id), Passed(q, id))
              PROVE  Holds(queue', q, id, Got(q, id), next)
          BY <1>1, <2>3, <3>1, <3>3, <4>1, <4>2, HoldsAppended
        <4>3. QED
          BY <2>1, <2>2, <3>2, <4>2 DEF RestHeld
      <3>4. CASE dropped' = dropped \cup {CurrentKey(p)}
        BY <2>4, <3>4 DEF RestHeld, Lost, CurrentKey
      <3>5. QED
        BY <1>2, <3>3, <3>4
    <2>5. CASE ~(q = p /\ id = Len(sent[p]))
      <3>1. Passed(q, id)' = Passed(q, id)
        BY <1>2, <1>4, <2>5 DEF Passed
      <3>2. ~IsOf(c, q, id) /\ queue \in Seq(Chunk)
        BY <1>1, <2>5 DEF IsOf, IInv, TypeOK
      <3>3. ASSUME Holds(queue, q, id, Got(q, id), Passed(q, id))
            PROVE  Holds(queue', q, id, Got(q, id), Passed(q, id))
        BY <1>1, <1>2, <2>3, <3>2, <3>3, HoldsOtherAppended
      <3>4. QED
        BY <2>1, <2>2, <3>1, <3>3 DEF RestHeld
    <2>6. QED
      BY <2>4, <2>5
  <1>6. QED
    BY <1>2, <1>5 DEF QueueHoldsRest, RestHeld

\* A sendPayload that stops early makes its message one of the lost.
LEMMA SenderStopsRest ==
    ASSUME IInv, QueueHoldsRest, NEW p \in Pids, EnqueueFails(p) \/ Die(p)
    PROVE  QueueHoldsRest'
  <1>1. /\ \E st \in {"idle", "dead"} : pc' = [pc EXCEPT ![p] = st]
        /\ aborted \subseteq aborted'
        /\ pc[p] = "sending" => CurrentKey(p) \in aborted'
        /\ UNCHANGED <<sent, payloadOffset, queue, recieved, delivered, dropped, expired>>
    BY DEF EnqueueFails, Die, receiverVars
  <1>2. /\ \A q \in Pids : q # p => pc'[q] = pc[q]
        /\ pc'[p] # "sending"
    BY <1>1 DEF IInv, TypeOK
  <1>3. ASSUME NEW q \in Pids, NEW id \in 1 .. Len(sent[q]) PROVE RestHeld(q, id)'
    <2>1. /\ Got(q, id)' = Got(q, id) /\ Delivered(<<q, id>>)' = Delivered(<<q, id>>)
          /\ Lost \subseteq Lost'
      BY <1>1 DEF Got, Delivered, Lost
    <2>2. RestHeld(q, id)
      BY DEF QueueHoldsRest, RestHeld
    <2>3. CASE q = p /\ id = Len(sent[p]) /\ pc[p] = "sending"
      BY <1>1, <2>3 DEF RestHeld, Lost, CurrentKey
    <2>4. CASE ~(q = p /\ id = Len(sent[p]) /\ pc[p] = "sending")
      <3>1. Passed(q, id)' = Passed(q, id)
        BY <1>1, <1>2, <2>4 DEF Passed
      <3>2. QED
        BY <1>1, <2>1, <2>2, <3>1 DEF RestHeld
    <2>5. QED
      BY <2>3, <2>4
  <1>4. QED
    BY <1>1, <1>3 DEF QueueHoldsRest, RestHeld

\* processReceivedChunk: the head of the queue is the chunk its message waits
\* for, unless a chunk of the message is lost.
LEMMA ReceiveRest ==
    ASSUME IInv, IInv', QueueHoldsRest, Receive
    PROVE  QueueHoldsRest'
  <1> PICK c : c = Head(queue)
    OBVIOUS
  <1> PICK m : m = MessageFor(c)
    OBVIOUS
  <1> DEFINE k == Key(c)
  <1>1. /\ queue # << >> /\ queue' = Tail(queue)
        /\ RejectChunk(c) \/ KeepChunk(c) \/ CompleteMessage(c)
        /\ UNCHANGED <<sent, pc, payloadOffset, dropped, aborted, expired>>
    BY DEF Receive, senderVars
  <1>2. /\ c \in Chunk /\ Faithful(c) /\ m \in PartialMessage /\ m.total = c.total
        /\ Len(m.data) < m.total
    BY <1>1, HeadOfQueue
  <1>3. /\ c.pid \in Pids /\ c.msgId \in Nat \ {0} /\ c.offset \in Nat
        /\ Len(c.data) \in Nat /\ c.data \in Seq(Bytes)
        /\ m.data \in Seq(Bytes) /\ Len(m.data) \in Nat /\ m.total \in Nat
    BY <1>2 DEF Chunk, PartialMessage
  <1>4. queue \in Seq(Chunk) /\ c = queue[1] /\ 1 \in 1 .. Len(queue)
    BY <1>1 DEF IInv, TypeOK
  <1>5. ASSUME NEW q \in Pids, NEW id \in 1 .. Len(sent[q]),
               <<q, id>> \notin Lost', ~Delivered(<<q, id>>)'
        PROVE  Holds(queue, q, id, Got(q, id), Passed(q, id))'
    <2>1. Lost' = Lost /\ Passed(q, id)' = Passed(q, id)
      BY <1>1 DEF Lost, Passed
    <2>2. Got(q, id) \in Nat /\ Passed(q, id) \in Nat
      BY ByteCounts
    <2>3. \/ delivered' = delivered
          \/ \E d : d.pid = c.pid /\ d.msgId = c.msgId /\ delivered' = Append(delivered, d)
      <3>1. CASE CompleteMessage(c)
        <4> DEFINE d == [pid |-> c.pid, msgId |-> c.msgId, data |-> AddNextChunk(MessageFor(c), c).data]
        <4>1. d.pid = c.pid /\ d.msgId = c.msgId /\ delivered' = Append(delivered, d)
          BY <3>1 DEF CompleteMessage
        <4>2. QED
          BY <4>1
      <3>2. QED
        BY <1>1, <3>1 DEF RejectChunk, KeepChunk
    <2>4. ~Delivered(<<q, id>>)
      <3>1. delivered \in Seq(Handover)
        BY DEF IInv, TypeOK
      <3>2. Len(delivered) \in Nat
        BY <3>1
      <3>3. \A d : /\ Len(Append(delivered, d)) = Len(delivered) + 1
                   /\ \A i \in 1 .. Len(delivered) : Append(delivered, d)[i] = delivered[i]
        BY <3>1
      <3>4. \A i \in 1 .. Len(delivered) :
                i \in 1 .. Len(delivered') /\ delivered'[i] = delivered[i]
        BY <2>3, <3>2, <3>3
      <3>5. QED
        BY <1>5, <3>4 DEF Delivered
    <2>5. Holds(queue, q, id, Got(q, id), Passed(q, id))
      BY <1>5, <2>1, <2>4 DEF QueueHoldsRest
    <2>6. CASE IsOf(c, q, id)
      <3>1. k = <<q, id>> /\ c.pid = q /\ c.msgId = id
        BY <2>6 DEF IsOf, Key
      <3>2. c.offset + Len(c.data) <= Passed(q, id)
        BY <1>4, <2>6, QueuedWasPassed
      <3>3. /\ c.offset = Got(q, id)
            /\ Holds(Tail(queue), q, id, Got(q, id) + Len(c.data), Passed(q, id))
        BY <1>1, <2>2, <2>5, <2>6, <3>2, HoldsTaken
      <3>4. Len(m.data) = Got(q, id)
        BY <3>1 DEF MessageFor, NewMessage, Got
      <3>5. Accepts(m, c)
        BY <1>2, <1>3, <3>3, <3>4 DEF Accepts, Faithful
      <3>6. CASE KeepChunk(c)
        <4>1. recieved' = Store(k, AddNextChunk(m, c))
          BY <3>6 DEF KeepChunk
        <4>2. k \in DOMAIN recieved' /\ recieved'[k] = AddNextChunk(m, c)
          BY <4>1 DEF Store
        <4>3. Len(AddNextChunk(m, c).data) = Len(m.data) + Len(c.data)
          BY <1>3, ConcatProperties DEF AddNextChunk
        <4>4. Got(q, id)' = Got(q, id) + Len(c.data)
          BY <3>1, <3>4, <4>2, <4>3 DEF Got
        <4>5. QED
          BY <1>1, <2>1, <3>3, <4>4
      <3>7. CASE CompleteMessage(c)
        <4> DEFINE d == [pid |-> c.pid, msgId |-> c.msgId, data |-> AddNextChunk(MessageFor(c), c).data]
        <4>1. delivered' = Append(delivered, d)
          BY <3>7 DEF CompleteMessage
        <4>2. Key(d) = <<q, id>>
          BY <3>1 DEF Key
        <4> HIDE DEF d
        <4>3. delivered \in Seq(Handover)
          BY DEF IInv, TypeOK
        <4>4. /\ Len(delivered) \in Nat /\ Len(delivered') = Len(delivered) + 1
              /\ delivered'[Len(delivered) + 1] = d
          BY <4>1, <4>3
        <4>5. Len(delivered) + 1 \in 1 .. Len(delivered')
          BY <4>4
        <4>6. Delivered(<<q, id>>)'
          BY <4>2, <4>4, <4>5 DEF Delivered, Key
        <4>7. QED
          BY <1>5, <4>6
      <3>8. QED
        BY <1>1, <3>5, <3>6, <3>7 DEF RejectChunk
    <2>7. CASE ~IsOf(c, q, id)
      <3>1. k # <<q, id>>
        BY <2>7 DEF IsOf, Key
      <3>2. /\ (<<q, id>> \in DOMAIN recieved') <=> (<<q, id>> \in DOMAIN recieved)
            /\ <<q, id>> \in DOMAIN recieved => recieved'[<<q, id>>] = recieved[<<q, id>>]
        BY <1>1, <3>1 DEF RejectChunk, KeepChunk, CompleteMessage, Store, Erase
      <3>3. Got(q, id)' = Got(q, id)
        BY <3>2 DEF Got
      <3>4. Holds(Tail(queue), q, id, Got(q, id), Passed(q, id))
        BY <1>1, <1>4, <2>2, <2>5, <2>7, HoldsOtherTaken
      <3>5. QED
        BY <1>1, <2>1, <3>3, <3>4
    <2>8. QED
      BY <2>6, <2>7
  <1>6. QED
    BY <1>1, <1>5 DEF QueueHoldsRest

\* Time moves no byte, and what cleanupAbandonedMessages erases counts as lost.
LEMMA TickCleanupRest ==
    ASSUME IInv, QueueHoldsRest, Tick \/ Cleanup
    PROVE  QueueHoldsRest'
  <1>1. UNCHANGED <<sent, pc, payloadOffset, queue, delivered, dropped, aborted>>
    BY DEF Tick, Cleanup, senderVars
  <1>2. expired \subseteq expired'
    BY DEF Tick, Cleanup
  <1>3. ASSUME NEW q \in Pids, NEW id \in 1 .. Len(sent[q]), <<q, id>> \notin expired'
        PROVE  Got(q, id)' = Got(q, id)
    <2> PICK k : k = <<q, id>>
      OBVIOUS
    <2>1. CASE Tick
      <3>1. /\ DOMAIN recieved' = DOMAIN recieved
            /\ \A j \in DOMAIN recieved :
                   recieved'[j] = [recieved[j] EXCEPT !.age = Minimum(@ + 1, MaxAge + 1)]
        BY <2>1 DEF Tick
      <3>2. \A j \in DOMAIN recieved : recieved[j] \in PartialMessage
        BY DEF IInv, TypeOK
      <3>3. \A j \in DOMAIN recieved : recieved'[j].data = recieved[j].data
        BY <3>1, <3>2 DEF PartialMessage
      <3>4. QED
        BY <3>1, <3>3 DEF Got
    <2>2. CASE Cleanup
      <3>1. /\ DOMAIN recieved' = DOMAIN recieved \ Abandoned
            /\ \A j \in DOMAIN recieved' : recieved'[j] = recieved[j]
            /\ Abandoned \subseteq expired'
        BY <2>2 DEF Cleanup, Erase
      <3>2. k \notin Abandoned
        BY <1>3, <3>1
      <3>3. QED
        BY <3>1, <3>2 DEF Got
    <2>3. QED
      BY <2>1, <2>2
  <1>4. ASSUME NEW q \in Pids, NEW id \in 1 .. Len(sent[q]) PROVE RestHeld(q, id)'
    <2>1. RestHeld(q, id)
      BY DEF QueueHoldsRest, RestHeld
    <2>2. /\ Lost \subseteq Lost' /\ Delivered(<<q, id>>)' = Delivered(<<q, id>>)
          /\ Passed(q, id)' = Passed(q, id)
      BY <1>1, <1>2 DEF Lost, Delivered, Passed
    <2>3. <<q, id>> \notin Lost' => Got(q, id)' = Got(q, id)
      BY <1>3 DEF Lost
    <2>4. QED
      BY <1>1, <2>1, <2>2, <2>3 DEF RestHeld
  <1>5. QED
    BY <1>1, <1>4 DEF QueueHoldsRest, RestHeld

\* Every step keeps the rest of the open messages in the queue.
LEMMA NextRest == IInv /\ IInv' /\ QueueHoldsRest /\ [Next]_vars => QueueHoldsRest'
  <1> SUFFICES ASSUME IInv, IInv', QueueHoldsRest, [Next]_vars PROVE QueueHoldsRest'
    OBVIOUS
  <1>1. ASSUME NEW p \in Pids, SenderStep(p) PROVE QueueHoldsRest'
    BY <1>1, SendPayloadRest, EnqueueChunkRest, SenderStopsRest DEF SenderStep
  <1>2. CASE Receive
    BY <1>2, ReceiveRest
  <1>3. CASE Tick \/ Cleanup
    BY <1>3, TickCleanupRest
  <1>4. CASE UNCHANGED vars
    BY <1>4 DEF vars, QueueHoldsRest, Holds, Got, Passed, Lost, Delivered
  <1>5. QED
    BY <1>1, <1>2, <1>3, <1>4 DEF Next

\* A payload passed to sendPayload is delivered unless it met one of the three
\* places that may lose it: the full queue, a sendPayload that did not finish,
\* or the cleanup of abandoned messages.
THEOREM OnlyKnownLosses == Spec => []NoOtherLoss
  <1>1. Init => QueueHoldsRest
    BY DEF Init, QueueHoldsRest
  <1>2. ASSUME IInv, QueueHoldsRest PROVE NoOtherLoss
    <2>1. ASSUME NEW p \in Pids, NEW id \in 1 .. Len(sent[p]),
                 SendOver(<<p, id>>), ~InQueue(<<p, id>>), <<p, id>> \notin Lost,
                 ~Delivered(<<p, id>>)
          PROVE  FALSE
      <3>1. Holds(queue, p, id, Got(p, id), Passed(p, id))
        BY <1>2, <2>1 DEF QueueHoldsRest
      <3>2. Passed(p, id) = Size[sent[p][id]]
        BY <2>1 DEF SendOver, CurrentKey, Passed
      <3>3. /\ Got(p, id) \in Nat /\ Got(p, id) < Size[sent[p][id]]
            /\ Size[sent[p][id]] \in Nat
        BY <1>2, ByteCounts
      <3>4. Got(p, id) \in Got(p, id) .. Passed(p, id) - 1
        BY <3>2, <3>3
      <3>5. PICK i \in 1 .. Len(queue) : IsOf(queue[i], p, id)
        BY <3>1, <3>4 DEF Holds
      <3>6. Key(queue[i]) = <<p, id>>
        BY <3>5 DEF IsOf, Key
      <3>7. QED
        BY <2>1, <3>6 DEF InQueue
    <2>2. QED
      BY <2>1 DEF NoOtherLoss
  <1>3. QED
    BY <1>1, <1>2, NextRest, Invariance, PTL DEF Spec
=============================================================================
