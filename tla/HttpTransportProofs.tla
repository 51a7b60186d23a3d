------------------------ MODULE HttpTransportProofs ------------------------
(***************************************************************************)
(* Theorems about HttpTransport.  What QueueBytes adds up is proved by     *)
(* induction over the length of the queue, from the least element every    *)
(* nonempty set of naturals has; the accounting of payloads and of bytes   *)
(* is then an invariant with where the owner and the thread can be.        *)
(*                                                                         *)
(* The second half is about Text, in which the headers of the transport    *)
(* are configured: what its loops compute for every string of bytes, each  *)
(* by induction over its rounds.                                           *)
(***************************************************************************)
EXTENDS HttpTransport, Text, SequenceTheorems, NaturalsInduction, WellFoundedInduction, TLAPS

(* Induction *)

Less == {p \in Nat \X Nat : p[1] < p[2]}

\* A nonempty set of naturals has a least element.
LEMMA LeastElement ==
    ASSUME NEW T, T \subseteq Nat, T # {}
    PROVE  \E x \in T : \A y \in T : x <= y
<1>1. IsWellFoundedOn(Less, Nat)
  BY NatLessThanWellFounded, Zenon DEF OpToRel, Less
<1>2. \E x \in T : \A y \in T : <<y, x>> \notin Less
  BY <1>1, WFMin
<1>3. \A x, y \in Nat : <<y, x>> \in Less <=> y < x
  BY DEF Less
<1>4. PICK x \in T : \A y \in T : <<y, x>> \notin Less
  BY <1>2
<1>5. ASSUME NEW y \in T PROVE x <= y
  <2>1. x \in Nat /\ y \in Nat /\ ~ (y < x)
    BY <1>3, <1>4
  <2> QED
    BY <2>1
<1> QED
  BY <1>4, <1>5

\* Induction, for the set of the naturals that have a property.
LEMMA Induct ==
    ASSUME NEW S, 0 \in S, \A n \in Nat : n \in S => n + 1 \in S
    PROVE  Nat \subseteq S
<1>1. SUFFICES ASSUME Nat \ S # {} PROVE FALSE
  OBVIOUS
<1>2. PICK x \in Nat \ S : \A y \in Nat \ S : x <= y
  <2> DEFINE T == Nat \ S
  <2>1. T # {} /\ T \subseteq Nat
    BY <1>1
  <2> HIDE DEF T
  <2>2. \E x \in T : \A y \in T : x <= y
    BY <2>1, LeastElement
  <2> QED
    BY <2>2 DEF T
<1>3. x # 0 /\ x - 1 \in Nat /\ ~(x <= x - 1)
  BY <1>2
<1>4. x - 1 \in S
  BY <1>2, <1>3
<1>5. (x - 1) + 1 = x
  BY <1>2
<1> QED
  BY <1>2, <1>3, <1>4, <1>5

\* The same, from all smaller numbers.
LEMMA StrongInduct ==
    ASSUME NEW S, \A n \in Nat : (\A m \in Nat : m < n => m \in S) => n \in S
    PROVE  Nat \subseteq S
<1>1. SUFFICES ASSUME Nat \ S # {} PROVE FALSE
  OBVIOUS
<1> DEFINE T == Nat \ S
<1>2. T # {} /\ T \subseteq Nat
  BY <1>1
<1> HIDE DEF T
<1>3. PICK x \in T : \A y \in T : x <= y
  BY <1>2, LeastElement
<1>4. x \in Nat /\ x \notin S
  BY <1>3 DEF T
<1>5. \A m \in Nat : m < x => m \in S
  BY <1>3, <1>4, SMT DEF T
<1>6. QED
  BY <1>4, <1>5

-----------------------------------------------------------------------------
(* What QueueBytes computes *)

\* f holds the sums of the sizes of the first payloads of q, up to n of them.
Sums(q, n, f) == f = [i \in 0 .. n |-> IF i = 0 THEN 0 ELSE f[i - 1] + q[i].size]

\* Sums, element by element.
LEMMA SumsStep ==
    ASSUME NEW q, NEW n \in Nat, NEW f
    PROVE  Sums(q, n, f) <=>
             /\ f = [i \in 0 .. n |-> f[i]]
             /\ f[0] = 0
             /\ \A i \in 1 .. n : f[i] = f[i - 1] + q[i].size
  BY DEF Sums

\* The function that QueueBytes defines exists.
LEMMA SumsExist ==
    ASSUME NEW q
    PROVE  \A n \in Nat : \E f : Sums(q, n, f)
<1> DEFINE S == {n \in Nat : \E f : Sums(q, n, f)}
<1>1. 0 \in S
  <2> DEFINE f == [i \in 0 .. 0 |-> 0]
  <2>1. f = [i \in 0 .. 0 |-> f[i]] /\ f[0] = 0 /\ 1 .. 0 = {}
    OBVIOUS
  <2> HIDE DEF f
  <2>2. Sums(q, 0, f)
    BY <2>1, SumsStep
  <2> QED
    BY <2>2
<1>2. ASSUME NEW n \in Nat, n \in S PROVE n + 1 \in S
  <2>1. PICK f : Sums(q, n, f)
    BY <1>2
  <2> DEFINE g == [i \in 0 .. n + 1 |-> IF i <= n THEN f[i] ELSE f[n] + q[n + 1].size]
  <2>2. Sums(q, n + 1, g)
    <3>1. g = [i \in 0 .. n + 1 |-> g[i]]
      OBVIOUS
    <3>2. g[0] = 0
      BY <2>1, SumsStep
    <3>3. ASSUME NEW i \in 1 .. n + 1 PROVE g[i] = g[i - 1] + q[i].size
      BY <2>1, SumsStep
    <3>4. n + 1 \in Nat
      OBVIOUS
    <3> HIDE DEF g
    <3> QED
      BY <3>1, <3>2, <3>3, <3>4, SumsStep
  <2> HIDE DEF g
  <2> QED
    BY <2>2
<1> HIDE DEF S
<1>3. Nat \subseteq S
  BY <1>1, <1>2, Induct
<1> QED
  BY <1>3 DEF S

\* QueueBytes is the last of the sums.
LEMMA QueueBytesSums ==
    ASSUME NEW q \in Seq(Payload)
    PROVE  \E f : Sums(q, Len(q), f) /\ QueueBytes(q) = f[Len(q)]
<1> DEFINE B == CHOOSE f : Sums(q, Len(q), f)
<1>1. Sums(q, Len(q), B)
  BY SumsExist
<1>2. QueueBytes(q) = B[Len(q)]
  BY DEF QueueBytes, Sums
<1> QED
  BY <1>1, <1>2

\* The sums are naturals.
LEMMA SumsAreNat ==
    ASSUME NEW q \in Seq(Payload), NEW n \in Nat, n <= Len(q), NEW f, Sums(q, n, f)
    PROVE  \A i \in 0 .. n : f[i] \in Nat
<1> DEFINE S == {i \in Nat : i <= n => f[i] \in Nat}
<1>1. 0 \in S
  BY SumsStep
<1>2. ASSUME NEW i \in Nat, i \in S PROVE i + 1 \in S
  <2>1. SUFFICES ASSUME i + 1 <= n PROVE f[i + 1] \in Nat
    OBVIOUS
  <2>2. f[i] \in Nat /\ i + 1 \in 1 .. n /\ (i + 1) - 1 = i
    BY <1>2, <2>1
  <2>3. f[i + 1] = f[i] + q[i + 1].size
    BY <2>2, SumsStep
  <2>4. q[i + 1] \in Payload
    BY <2>2
  <2>5. q[i + 1].size \in Nat
    BY <2>4, SizesAssumption DEF Payload
  <2> QED
    BY <2>2, <2>3, <2>5
<1> HIDE DEF S
<1>3. Nat \subseteq S
  BY <1>1, <1>2, Induct
<1> QED
  BY <1>3 DEF S

\* The bytes of a queue are a natural number ...
LEMMA QueueBytesNat ==
    ASSUME NEW q \in Seq(Payload)
    PROVE  QueueBytes(q) \in Nat
<1>1. PICK f : Sums(q, Len(q), f) /\ QueueBytes(q) = f[Len(q)]
  BY QueueBytesSums
<1>2. Len(q) \in Nat /\ Len(q) <= Len(q) /\ Len(q) \in 0 .. Len(q)
  OBVIOUS
<1> QED
  BY <1>1, <1>2, SumsAreNat

\* ... zero for the queue a forked child starts with ...
LEMMA QueueBytesEmpty == QueueBytes(<< >>) = 0
<1> DEFINE e == << >>
<1>1. e \in Seq(Payload) /\ Len(e) = 0
  OBVIOUS
<1> HIDE DEF e
<1>2. PICK f : Sums(e, Len(e), f) /\ QueueBytes(e) = f[Len(e)]
  BY <1>1, QueueBytesSums
<1>3. f[0] = 0
  BY <1>1, <1>2, SumsStep
<1> QED
  BY <1>1, <1>2, <1>3 DEF e

\* ... more by the payload that enqueue appends ...
LEMMA QueueBytesAppend ==
    ASSUME NEW q \in Seq(Payload), NEW p \in Payload
    PROVE  QueueBytes(Append(q, p)) = QueueBytes(q) + p.size
<1> DEFINE r == Append(q, p)
           n == Len(q)
<1>1. r \in Seq(Payload) /\ n \in Nat /\ Len(r) = n + 1 /\ r[n + 1] = p
  OBVIOUS
<1>2. \A i \in 1 .. n : r[i] = q[i]
  OBVIOUS
<1>3. PICK f : Sums(q, n, f) /\ QueueBytes(q) = f[n]
  BY QueueBytesSums
<1> HIDE DEF r
<1>4. PICK g : Sums(r, Len(r), g) /\ QueueBytes(r) = g[Len(r)]
  BY <1>1, QueueBytesSums
<1> HIDE DEF n
<1> DEFINE S == {i \in Nat : i <= n => g[i] = f[i]}
<1>5. f[0] = 0 /\ \A i \in 1 .. n : f[i] = f[i - 1] + q[i].size
  BY <1>1, <1>3, SumsStep
<1>6. g[0] = 0 /\ \A i \in 1 .. n + 1 : g[i] = g[i - 1] + r[i].size
  <2>1. n + 1 \in Nat /\ Sums(r, n + 1, g)
    BY <1>1, <1>4
  <2> QED
    BY <2>1, SumsStep
<1>7. 0 \in S
  BY <1>5, <1>6
<1>8. ASSUME NEW i \in Nat, i \in S PROVE i + 1 \in S
  <2>1. SUFFICES ASSUME i + 1 <= n PROVE g[i + 1] = f[i + 1]
    OBVIOUS
  <2>2. g[i] = f[i] /\ i + 1 \in 1 .. n /\ i + 1 \in 1 .. n + 1 /\ (i + 1) - 1 = i
    BY <1>1, <1>8, <2>1
  <2> QED
    BY <1>2, <1>5, <1>6, <2>2
<1> HIDE DEF S
<1>9. n \in S
  BY <1>1, <1>7, <1>8, Induct
<1>10. g[n] = f[n]
  BY <1>1, <1>9 DEF S
<1>11. g[n + 1] = g[n] + p.size
  <2>1. n + 1 \in 1 .. n + 1 /\ (n + 1) - 1 = n
    BY <1>1
  <2> QED
    BY <1>1, <1>6, <2>1
<1> QED
  BY <1>1, <1>3, <1>4, <1>10, <1>11 DEF r

\* ... and less by the one that send takes.
LEMMA QueueBytesTail ==
    ASSUME NEW q \in Seq(Payload), q # << >>
    PROVE  QueueBytes(q) = Head(q).size + QueueBytes(Tail(q))
<1> DEFINE r == Tail(q)
           n == Len(r)
<1>1. r \in Seq(Payload) /\ n \in Nat /\ Len(q) = n + 1 /\ q[1] = Head(q)
  OBVIOUS
<1>2. \A i \in 1 .. n : r[i] = q[i + 1]
  OBVIOUS
<1>3. PICK f : Sums(q, Len(q), f) /\ QueueBytes(q) = f[Len(q)]
  BY QueueBytesSums
<1> HIDE DEF r
<1>4. PICK g : Sums(r, n, g) /\ QueueBytes(r) = g[n]
  BY <1>1, QueueBytesSums
<1> HIDE DEF n
<1> DEFINE s == Head(q).size
           S == {i \in Nat : i <= n => f[i + 1] = s + g[i] /\ g[i] \in Nat}
<1>5. f[0] = 0 /\ \A i \in 1 .. n + 1 : f[i] = f[i - 1] + q[i].size
  BY <1>1, <1>3, SumsStep
<1>6. g[0] = 0 /\ \A i \in 1 .. n : g[i] = g[i - 1] + r[i].size
  BY <1>1, <1>4, SumsStep
<1>7. s \in Nat /\ \A i \in 1 .. n : r[i].size \in Nat
  <2>1. Head(q) \in Payload /\ \A i \in 1 .. n : r[i] \in Payload
    BY <1>1 DEF n
  <2> QED
    BY <2>1, SizesAssumption DEF Payload
<1>8. 0 \in S
  <2>1. f[0 + 1] = f[0] + q[1].size
    BY <1>1, <1>5
  <2> QED
    BY <1>1, <1>5, <1>6, <1>7, <2>1
<1> HIDE DEF s
<1>9. ASSUME NEW i \in Nat, i \in S PROVE i + 1 \in S
  <2>1. SUFFICES ASSUME i + 1 <= n
                 PROVE  f[(i + 1) + 1] = s + g[i + 1] /\ g[i + 1] \in Nat
    OBVIOUS
  <2>2. f[i + 1] = s + g[i] /\ g[i] \in Nat
    BY <1>1, <1>9, <2>1
  <2>3. i + 1 \in 1 .. n /\ (i + 1) + 1 \in 1 .. n + 1
        /\ (i + 1) - 1 = i /\ ((i + 1) + 1) - 1 = i + 1
    BY <1>1, <2>1
  <2>4. g[i + 1] = g[i] + r[i + 1].size /\ f[(i + 1) + 1] = f[i + 1] + r[i + 1].size
    BY <1>2, <1>5, <1>6, <2>3
  <2> QED
    BY <1>7, <2>2, <2>3, <2>4
<1> HIDE DEF S
<1>10. n \in S
  BY <1>1, <1>8, <1>9, Induct
<1>11. f[n + 1] = s + g[n]
  BY <1>1, <1>10 DEF S
<1> QED
  BY <1>1, <1>3, <1>4, <1>11 DEF r, s

-----------------------------------------------------------------------------
(* The inductive invariant *)

\* Where the owner and the sending thread can be together.
ControlInv ==
    /\ thread <=> spc # "none"
    /\ opc \in {"ready", "destroying"} => working
    /\ opc \in {"joining", "forking", "closing", "destroyed"} => ~working
    /\ opc \in {"forking", "destroyed"} => ~thread
    /\ forceFlush <=> opc \in {"destroying", "closing", "destroyed"}
    /\ spc = "done" => ~working
    /\ spc = "sending" => current \in Payload
    /\ opc \in {"joining", "forking"} => forks < MaxForks

\* A thread that reached its loop ends, under the destructor, with nothing left.
FlushInv ==
    /\ spc \in {"none", "starting"} /\ opc \notin {"forking", "destroyed"} => ~entered
    /\ spc = "done" /\ forceFlush /\ entered => payloadsToSend = << >> \/ elapsed

IInv == TypeOK /\ ControlInv /\ FlushInv /\ UsageAccounted /\ EachPayloadOnce

-----------------------------------------------------------------------------
(* Identifiers and their order *)

Ascending(s) == \A i, j \in 1 .. Len(s) : i < j => s[i].id < s[j].id

\* Ids Q queued, C with the thread, H handled and D discarded, of the n accepted.
Placed(Q, C, H, D, n) ==
    /\ Q \cup C \cup H \cup D = 1 .. n
    /\ \A h \in H : \A c \in C \cup Q : h < c
    /\ \A c \in C : \A q \in Q : c < q
    /\ D \cap (H \cup C \cup Q) = {}

Outcome == [id : Nat \ {0}, outcome : Outcomes]

\* EachPayloadOnce in these terms.
LEMMA InTerms ==
    EachPayloadOnce <=>
        /\ Placed(Ids(payloadsToSend), CurrentIds, Ids(handled), discarded, accepted)
        /\ Ascending(payloadsToSend)
        /\ Ascending(handled)
        /\ opc = "destroyed" /\ entered => payloadsToSend = << >> \/ elapsed
  BY DEF EachPayloadOnce, Placed, Ascending, HandledIds, Ids

\* The same of the next state.
LEMMA InTermsNext ==
    EachPayloadOnce' <=>
        /\ Placed(Ids(payloadsToSend'), CurrentIds', Ids(handled'), discarded', accepted')
        /\ Ascending(payloadsToSend')
        /\ Ascending(handled')
        /\ (opc = "destroyed" /\ entered => payloadsToSend = << >> \/ elapsed)'
  BY DEF EachPayloadOnce, Placed, Ascending, HandledIds, Ids

\* An empty list has no identifiers.
LEMMA IdsEmpty == Ids(<< >>) = {} /\ Ascending(<< >>)
  BY DEF Ids, Ascending

\* What enqueue and send append has the identifiers of the list and its own.
LEMMA IdsAppend ==
    ASSUME NEW S, NEW s \in Seq(S), NEW x \in S
    PROVE  Ids(Append(s, x)) = Ids(s) \cup {x.id}
<1> DEFINE r == Append(s, x)
<1>1. Len(r) = Len(s) + 1 /\ r[Len(s) + 1] = x /\ Len(s) \in Nat
  OBVIOUS
<1>2. \A i \in 1 .. Len(s) : r[i] = s[i]
  OBVIOUS
<1> HIDE DEF r
<1>3. Ids(r) \subseteq Ids(s) \cup {x.id}
  <2>1. SUFFICES ASSUME NEW i \in 1 .. Len(r) PROVE r[i].id \in Ids(s) \cup {x.id}
    BY DEF Ids
  <2>2. i \in 1 .. Len(s) \/ i = Len(s) + 1
    BY <1>1
  <2> QED
    BY <1>1, <1>2, <2>2 DEF Ids
<1>4. Ids(s) \subseteq Ids(r)
  <2>1. SUFFICES ASSUME NEW i \in 1 .. Len(s) PROVE s[i].id \in Ids(r)
    BY DEF Ids
  <2>2. i \in 1 .. Len(r) /\ r[i] = s[i]
    BY <1>1, <1>2
  <2> QED
    BY <2>2 DEF Ids
<1>5. x.id \in Ids(r)
  <2>1. Len(s) + 1 \in 1 .. Len(r)
    BY <1>1
  <2> QED
    BY <1>1, <2>1 DEF Ids
<1> QED
  BY <1>3, <1>4, <1>5 DEF r

\* The list stays in order when the new identifier is above the others.
LEMMA AscendingAppend ==
    ASSUME NEW S, NEW s \in Seq(S), NEW x \in S, Ascending(s),
           \A y \in Ids(s) : y < x.id
    PROVE  Ascending(Append(s, x))
<1> DEFINE r == Append(s, x)
<1>1. Len(r) = Len(s) + 1 /\ r[Len(s) + 1] = x /\ Len(s) \in Nat
  OBVIOUS
<1>2. \A i \in 1 .. Len(s) : r[i] = s[i] /\ s[i].id \in Ids(s)
  BY DEF Ids
<1> HIDE DEF r
<1>3. SUFFICES ASSUME NEW i \in 1 .. Len(r), NEW j \in 1 .. Len(r), i < j
               PROVE  r[i].id < r[j].id
  BY DEF Ascending, r
<1>4. i \in 1 .. Len(s) /\ (j \in 1 .. Len(s) \/ j = Len(s) + 1)
  BY <1>1, <1>3
<1>5. CASE j \in 1 .. Len(s)
  BY <1>2, <1>3, <1>4, <1>5 DEF Ascending
<1>6. CASE j = Len(s) + 1
  BY <1>1, <1>2, <1>4, <1>6
<1> QED
  BY <1>4, <1>5, <1>6

\* send takes the lowest identifier of the queue and leaves the others in order.
LEMMA AscendingTail ==
    ASSUME NEW S, NEW s \in Seq(S), s # << >>, Ascending(s)
    PROVE  /\ Ids(s) = {Head(s).id} \cup Ids(Tail(s))
           /\ \A y \in Ids(Tail(s)) : Head(s).id < y
           /\ Ascending(Tail(s))
<1> DEFINE r == Tail(s)
           n == Len(r)
<1>1. Len(s) = n + 1 /\ n \in Nat /\ s[1] = Head(s)
  OBVIOUS
<1>2. \A i \in 1 .. n : r[i] = s[i + 1] /\ i + 1 \in 1 .. Len(s)
  OBVIOUS
<1> HIDE DEF r
<1>3. Ids(r) = {s[i + 1].id : i \in 1 .. n}
  BY <1>2 DEF Ids
<1>4. Ids(s) \subseteq {Head(s).id} \cup Ids(r)
  <2>1. SUFFICES ASSUME NEW i \in 1 .. Len(s) PROVE s[i].id \in {s[1].id} \cup Ids(r)
    BY <1>1 DEF Ids
  <2>2. CASE i = 1
    BY <2>2
  <2>3. CASE i # 1
    <3>1. i - 1 \in 1 .. n /\ (i - 1) + 1 = i
      BY <1>1, <2>3
    <3>2. r[i - 1].id = s[i].id
      BY <1>2, <3>1
    <3> QED
      BY <3>1, <3>2 DEF Ids
  <2> QED
    BY <2>2, <2>3
<1>5. {Head(s).id} \cup Ids(r) \subseteq Ids(s)
  <2>1. 1 \in 1 .. Len(s)
    BY <1>1
  <2>2. Head(s).id \in Ids(s)
    BY <1>1, <2>1 DEF Ids
  <2> QED
    BY <1>2, <2>2 DEF Ids
<1>6. ASSUME NEW i \in 1 .. n PROVE Head(s).id < r[i].id
  <2>1. 1 \in 1 .. Len(s) /\ i + 1 \in 1 .. Len(s) /\ 1 < i + 1
    BY <1>1
  <2> QED
    BY <1>1, <1>2, <2>1 DEF Ascending
<1>7. Ascending(r)
  <2>1. SUFFICES ASSUME NEW i \in 1 .. n, NEW j \in 1 .. n, i < j
                 PROVE  r[i].id < r[j].id
    BY DEF Ascending
  <2>2. i + 1 \in 1 .. Len(s) /\ j + 1 \in 1 .. Len(s) /\ i + 1 < j + 1
    BY <1>1, <2>1
  <2> QED
    BY <1>2, <2>2 DEF Ascending
<1> QED
  BY <1>4, <1>5, <1>6, <1>7 DEF r, Ids

-----------------------------------------------------------------------------
(* The invariant holds at first and is kept by every step *)

\* The constructor's state.
LEMMA InitInv == Init => IInv
<1> SUFFICES ASSUME Init PROVE IInv
  OBVIOUS
<1>1. TypeOK
  <2>1. DOMAIN endpoints = {}
    BY DEF Init
  <2>2. accepted \in 0 .. MaxPayloads /\ forks \in 0 .. MaxForks
    BY BoundsAssumption DEF Init
  <2>3. /\ payloadsToSend \in Seq(Payload) /\ payloadsByteUsage \in Nat
        /\ handled \in Seq([id : Nat \ {0}, outcome : Outcomes])
        /\ leaked \in Nat /\ retry \in Nat /\ discarded \subseteq 1 .. accepted
    BY DEF Init
  <2> QED
    BY <2>1, <2>2, <2>3 DEF Init, TypeOK
<1>2. ControlInv /\ FlushInv
  BY DEF Init, ControlInv, FlushInv
<1>3. UsageAccounted
  BY QueueBytesEmpty, LimitAssumption DEF Init, UsageAccounted
<1>4. EachPayloadOnce
  <2>1. Placed({}, {}, {}, {}, 0)
    BY DEF Placed
  <2>2. CurrentIds = {}
    BY DEF Init, CurrentIds
  <2> QED
    BY <2>1, <2>2, IdsEmpty, InTerms DEF Init
<1> QED
  BY <1>1, <1>2, <1>3, <1>4 DEF IInv

\* initializeConnection, the flags of prefork and of the destructor, the joins and
\* the timeout leave the payloads where they are.
LEMMA QuietStep ==
    ASSUME IInv,
           UNCHANGED <<queueVars, accepted, handled, discarded, leaked>>,
           CurrentIds' = CurrentIds,
           (opc = "destroyed" /\ entered => payloadsToSend = << >> \/ elapsed)'
    PROVE  UsageAccounted' /\ EachPayloadOnce'
<1>1. UsageAccounted'
  BY DEF IInv, UsageAccounted, queueVars
<1>2. EachPayloadOnce'
  BY DEF IInv, EachPayloadOnce, HandledIds, queueVars
<1> QED
  BY <1>1, <1>2

\* initializeConnection, with the start of the thread.
LEMMA InitializeConnectionInv ==
    ASSUME IInv, NEW e \in Endpoints, NEW n \in Retries, InitializeConnection(e, n)
    PROVE  IInv'
<1> USE DEF IInv, queueVars
<1>1. TypeOK'
  BY DEF InitializeConnection, TypeOK
<1>2. ControlInv' /\ FlushInv'
  BY DEF InitializeConnection, ControlInv, FlushInv
<1>3. CurrentIds' = CurrentIds
  BY DEF InitializeConnection, ControlInv, CurrentIds
<1>4. (opc = "destroyed" /\ entered => payloadsToSend = << >> \/ elapsed)'
  BY DEF InitializeConnection
<1>5. UsageAccounted' /\ EachPayloadOnce'
  BY <1>3, <1>4, QuietStep DEF InitializeConnection
<1> QED
  BY <1>1, <1>2, <1>5

\* enqueue: the new identifier is above all others, and the payload fits.
LEMMA EnqueueInv ==
    ASSUME IInv, NEW e \in Endpoints, NEW size \in Sizes, Enqueue(e, size)
    PROVE  IInv'
<1> DEFINE p == [id |-> accepted', endpoint |-> e, size |-> size]
<1>1. /\ opc = "ready" /\ accepted \in Nat /\ accepted' = accepted + 1
      /\ accepted < MaxPayloads
      /\ payloadsToSend' = Append(payloadsToSend, p)
      /\ payloadsByteUsage' = payloadsByteUsage + size
      /\ payloadsToSend \in Seq(Payload)
      /\ UNCHANGED <<endpoints, working, forceFlush, thread, spc, opc, current, retry,
                     elapsed, handled, discarded, leaked, entered, forks>>
  BY BoundsAssumption DEF Enqueue, IInv, TypeOK
<1>2. p \in Payload /\ p.id = accepted + 1 /\ p.size = size /\ size \in Nat
  BY <1>1, SizesAssumption DEF Payload
<1> HIDE DEF p
<1>3. TypeOK'
  <2>1. payloadsToSend' \in Seq(Payload)
    BY <1>1, <1>2
  <2>2. payloadsByteUsage' \in Nat
    BY <1>1, <1>2 DEF IInv, TypeOK
  <2>3. accepted' \in 0 .. MaxPayloads /\ discarded' \subseteq 1 .. accepted'
    BY <1>1, BoundsAssumption DEF IInv, TypeOK
  <2> QED
    BY <1>1, <2>1, <2>2, <2>3 DEF IInv, TypeOK
<1>4. ControlInv' /\ FlushInv'
  BY <1>1 DEF IInv, ControlInv, FlushInv
<1>5. UsageAccounted'
  <2>1. QueueBytes(payloadsToSend') = QueueBytes(payloadsToSend) + size
    BY <1>1, <1>2, QueueBytesAppend
  <2>2. QueueBytes(payloadsToSend) \in Nat /\ leaked \in Nat
    BY <1>1, QueueBytesNat DEF IInv, TypeOK
  <2>3. payloadsByteUsage' <= MaxSendQueueSize
    BY <1>1 DEF Enqueue, Fits
  <2> QED
    BY <1>1, <1>2, <2>1, <2>2, <2>3 DEF IInv, UsageAccounted
<1>6. EachPayloadOnce'
  <2> DEFINE Q == Ids(payloadsToSend)
             C == CurrentIds
             H == Ids(handled)
  <2>1. Placed(Q, C, H, discarded, accepted) /\ Ascending(payloadsToSend) /\ Ascending(handled)
    BY InTerms DEF IInv
  <2>2. Ids(payloadsToSend') = Q \cup {accepted + 1}
    BY <1>1, <1>2, IdsAppend
  <2>3. CurrentIds' = C /\ Ids(handled') = H /\ discarded' = discarded
    BY <1>1 DEF CurrentIds
  <2> HIDE DEF Q, C, H
  <2>4. Placed(Q \cup {accepted + 1}, C, H, discarded, accepted + 1)
    BY <1>1, <2>1 DEF Placed
  <2>5. \A y \in Q : y < accepted + 1
    BY <1>1, <2>1 DEF Placed
  <2>6. Ascending(payloadsToSend')
    BY <1>1, <1>2, <2>1, <2>5, AscendingAppend DEF Q
  <2> QED
    BY <1>1, <2>1, <2>2, <2>3, <2>4, <2>6, InTermsNext
<1> QED
  BY <1>3, <1>4, <1>5, <1>6 DEF IInv

\* The locked sections that stop the thread, and the passing of time.
LEMMA StopInv ==
    ASSUME IInv, Prefork \/ Destroy \/ DestroyStop \/ TimeoutElapses
    PROVE  IInv'
<1> USE DEF IInv, queueVars, Prefork, Destroy, DestroyStop, TimeoutElapses
<1>1. TypeOK'
  BY DEF TypeOK
<1>2. ControlInv'
  BY DEF ControlInv
<1>3. FlushInv'
  BY DEF FlushInv, ControlInv
<1>4. CurrentIds' = CurrentIds
  BY DEF CurrentIds
<1>5. (opc = "destroyed" /\ entered => payloadsToSend = << >> \/ elapsed)'
  OBVIOUS
<1>6. UsageAccounted' /\ EachPayloadOnce'
  BY <1>4, <1>5, QuietStep
<1> QED
  BY <1>1, <1>2, <1>3, <1>6

\* The joins: a thread that is over has nothing left under the destructor.
LEMMA JoinInv ==
    ASSUME IInv, PreforkJoin \/ DestroyJoin
    PROVE  IInv'
<1> USE DEF IInv, queueVars, PreforkJoin, DestroyJoin, ThreadOver
<1>1. TypeOK'
  BY DEF TypeOK
<1>2. ControlInv'
  BY DEF ControlInv, TypeOK
<1>3. FlushInv'
  BY DEF FlushInv, ControlInv
<1>4. CurrentIds' = CurrentIds
  BY DEF CurrentIds
<1>5. (opc = "destroyed" /\ entered => payloadsToSend = << >> \/ elapsed)'
  BY DEF FlushInv, ControlInv
<1>6. UsageAccounted' /\ EachPayloadOnce'
  BY <1>4, <1>5, QuietStep
<1> QED
  BY <1>1, <1>2, <1>3, <1>6

\* postfork: the parent keeps its queue; the child discards it.
LEMMA PostforkInv ==
    ASSUME IInv, NEW child \in BOOLEAN, Postfork(child)
    PROVE  IInv'
<1>1. /\ opc = "forking" /\ spc = "none" /\ ~forceFlush
      /\ payloadsToSend \in Seq(Payload) /\ leaked \in Nat
  BY DEF Postfork, IInv, ControlInv, TypeOK
<1>2. /\ working' = TRUE /\ thread' = TRUE /\ spc' = "starting"
      /\ entered' = FALSE /\ opc' = "ready"
      /\ forks' = forks + 1
      /\ UNCHANGED <<endpoints, current, retry, forceFlush, elapsed, accepted, handled>>
  BY DEF Postfork
<1>3. ControlInv' /\ FlushInv'
  BY <1>1, <1>2 DEF ControlInv, FlushInv
<1>4. CurrentIds = {} /\ CurrentIds' = {}
  BY <1>1, <1>2 DEF CurrentIds
<1>5. forks' \in 0 .. MaxForks
  BY <1>1, <1>2, BoundsAssumption DEF IInv, ControlInv, TypeOK
<1> DEFINE Q == Ids(payloadsToSend)
           H == Ids(handled)
<1>6. Placed(Q, {}, H, discarded, accepted) /\ Ascending(payloadsToSend) /\ Ascending(handled)
  BY <1>4, InTerms DEF IInv
<1> HIDE DEF Q, H
<1>7. CASE child
  <2>1. /\ payloadsToSend' = << >> /\ payloadsByteUsage' = payloadsByteUsage
        /\ discarded' = discarded \cup Q
        /\ leaked' = leaked + QueueBytes(payloadsToSend)
    BY <1>7 DEF Postfork, EmptyChildQueue, Q
  <2>2. QueueBytes(payloadsToSend) \in Nat
    BY <1>1, QueueBytesNat
  <2>3. Placed({}, {}, H, discarded \cup Q, accepted)
    BY <1>6 DEF Placed
  <2>4. EachPayloadOnce'
    BY <1>2, <1>4, <1>6, <2>1, <2>3, IdsEmpty, InTermsNext DEF H
  <2>5. UsageAccounted'
    BY <1>1, <2>1, <2>2, QueueBytesEmpty DEF IInv, UsageAccounted
  <2>6. TypeOK'
    <3>1. payloadsToSend' \in Seq(Payload) /\ leaked' \in Nat
      BY <1>1, <2>1, <2>2
    <3>2. discarded' \subseteq 1 .. accepted
      BY <2>1, <1>6 DEF Placed
    <3> QED
      BY <1>2, <1>5, <2>1, <3>1, <3>2 DEF IInv, TypeOK
  <2> QED
    BY <1>3, <2>4, <2>5, <2>6 DEF IInv
<1>8. CASE ~child
  <2>1. UNCHANGED <<payloadsToSend, payloadsByteUsage, discarded, leaked>>
    BY <1>8 DEF Postfork
  <2>2. TypeOK'
    BY <1>2, <1>5, <2>1 DEF IInv, TypeOK
  <2>3. UsageAccounted' /\ EachPayloadOnce'
    BY <1>2, <1>4, <2>1, QuietStep DEF queueVars
  <2> QED
    BY <1>3, <2>2, <2>3 DEF IInv
<1> QED
  BY <1>7, <1>8

\* What ends a step of the sending thread: it takes a payload, or leaves its loop
\* or waits with none.
Moves ==
    \/ Pop
    \/ Leave("waiting")
    \/ Leave("done") /\ ~working /\ (forceFlush /\ entered' => payloadsToSend = << >> \/ elapsed)

\* A step of the thread that takes up the work: nothing is finished by it.
Begins == spc \in {"starting", "waiting"} /\ handled' = handled
                /\ (entered' = entered \/ spc = "starting")

\* A step of the thread that finishes the payload it has.
Ends == /\ spc = "sending"
        /\ \E o \in Outcomes : handled' = Append(handled, [id |-> current.id, outcome |-> o])
        /\ entered' = entered

\* Another attempt with the same payload.
Repeats == /\ spc = "sending" /\ retry' = retry + 1
           /\ UNCHANGED <<payloadsToSend, payloadsByteUsage, current, spc, handled, entered>>

\* The steps of the sending thread are of these three kinds.
LEMMA ThreadKinds ==
    ASSUME IInv, ThreadStep
    PROVE  /\ UNCHANGED ownerVars
           /\ entered' \in BOOLEAN
           /\ ((Begins \/ Ends) /\ Moves) \/ Repeats
<1>1. working \in BOOLEAN /\ entered \in BOOLEAN /\ (elapsed \in BOOLEAN)
  BY DEF IInv, TypeOK
<1>2. CASE ThreadStarts
  <2>1. UNCHANGED ownerVars /\ Begins /\ entered' \in BOOLEAN
    BY <1>1, <1>2 DEF ThreadStarts, Begins
  <2>2. Moves
    BY <1>1, <1>2 DEF ThreadStarts, LoopHead, Moves
  <2> QED
    BY <2>1, <2>2
<1>3. CASE ThreadWakes
  <2>1. UNCHANGED ownerVars /\ Begins /\ entered' \in BOOLEAN
    BY <1>1, <1>3 DEF ThreadWakes, Begins
  <2>2. Moves
    BY <1>1, <1>3 DEF ThreadWakes, Moves
  <2> QED
    BY <2>1, <2>2
<1>4. ASSUME NEW o \in Outcomes, spc = "sending", Finish(o)
      PROVE  UNCHANGED ownerVars /\ Ends /\ entered' \in BOOLEAN /\ Moves
  <2>1. UNCHANGED ownerVars /\ Ends /\ entered' \in BOOLEAN
    BY <1>1, <1>4 DEF Finish, Ends
  <2>2. Moves
    BY <1>4 DEF Finish, LoopHead, Moves, TimedOut
  <2> QED
    BY <2>1, <2>2
<1>5. CASE UnknownEndpoint
  BY <1>4, <1>5 DEF UnknownEndpoint, Outcomes
<1>6. CASE \E o \in FinalOutcomes : FinalAnswer(o)
  BY <1>4, <1>6 DEF FinalAnswer, Outcomes
<1>7. CASE RetryableAnswer
  <2>1. "exhausted" \in Outcomes
    BY DEF Outcomes
  <2>2. CASE Finish("exhausted")
    BY <1>4, <1>7, <2>1, <2>2 DEF RetryableAnswer
  <2>3. CASE ~Finish("exhausted")
    BY <1>1, <1>7, <2>3 DEF RetryableAnswer, Repeats
  <2> QED
    BY <2>2, <2>3
<1> QED
  BY <1>2, <1>3, <1>5, <1>6, <1>7 DEF ThreadStep

\* Where the identifiers are after a thread's move.
LEMMA MovesPlaces ==
    ASSUME TypeOK, Moves, Ascending(payloadsToSend),
           NEW H, NEW D, Placed(Ids(payloadsToSend), {}, H, D, accepted)
    PROVE  /\ Placed(Ids(payloadsToSend'), CurrentIds', H, D, accepted)
           /\ Ascending(payloadsToSend')
           /\ payloadsToSend' \in Seq(Payload)
           /\ spc' = "sending" => current' \in Payload
<1>1. CASE Pop
  <2>1. /\ payloadsToSend # << >> /\ payloadsToSend \in Seq(Payload)
        /\ payloadsToSend' = Tail(payloadsToSend)
        /\ current' = Head(payloadsToSend) /\ spc' = "sending"
    BY <1>1 DEF Pop, TypeOK
  <2>2. /\ Ids(payloadsToSend) = {current'.id} \cup Ids(payloadsToSend')
        /\ \A y \in Ids(payloadsToSend') : current'.id < y
        /\ Ascending(payloadsToSend')
    BY <2>1, AscendingTail
  <2>3. CurrentIds' = {current'.id}
    BY <2>1 DEF CurrentIds
  <2>4. Placed(Ids(payloadsToSend'), {current'.id}, H, D, accepted)
    BY <2>2 DEF Placed
  <2> QED
    BY <2>1, <2>2, <2>3, <2>4
<1>2. CASE Leave("waiting") \/ Leave("done")
  BY <1>2 DEF Leave, TypeOK, CurrentIds
<1> QED
  BY <1>1, <1>2 DEF Moves

\* The byte count follows a thread's move, and never goes below zero.
LEMMA MovesBytes ==
    ASSUME TypeOK, UsageAccounted, Moves, leaked' = leaked
    PROVE  UsageAccounted' /\ payloadsByteUsage' \in Nat
<1>1. CASE Pop
  <2> DEFINE s == Head(payloadsToSend).size
             b == QueueBytes(Tail(payloadsToSend))
  <2>1. payloadsToSend # << >> /\ payloadsToSend \in Seq(Payload)
        /\ payloadsToSend' = Tail(payloadsToSend)
        /\ payloadsByteUsage' = payloadsByteUsage - s
    BY <1>1 DEF Pop, TypeOK
  <2>2. QueueBytes(payloadsToSend) = s + b
    BY <2>1, QueueBytesTail
  <2>3. b \in Nat
    <3>1. Tail(payloadsToSend) \in Seq(Payload)
      BY <2>1
    <3> QED
      BY <3>1, QueueBytesNat
  <2>4. s \in Nat
    <3>1. Head(payloadsToSend) \in Payload
      BY <2>1
    <3> QED
      BY <3>1, SizesAssumption DEF Payload
  <2>5. QueueBytes(payloadsToSend') = b
    BY <2>1
  <2> HIDE DEF s, b
  <2> QED
    BY <2>1, <2>2, <2>3, <2>4, <2>5, LimitAssumption DEF UsageAccounted, TypeOK
<1>2. CASE Leave("waiting") \/ Leave("done")
  BY <1>2 DEF Leave, TypeOK, UsageAccounted
<1> QED
  BY <1>1, <1>2 DEF Moves

\* A step of the sending thread.
LEMMA ThreadInv ==
    ASSUME IInv, ThreadStep
    PROVE  IInv'
<1> DEFINE Q == Ids(payloadsToSend)
           H == Ids(handled)
<1>1. /\ UNCHANGED <<endpoints, working, forceFlush, thread, opc, elapsed, accepted,
                     discarded, leaked, forks>>
      /\ entered' \in BOOLEAN
      /\ ((Begins \/ Ends) /\ Moves) \/ Repeats
  BY ThreadKinds DEF ownerVars
<1>2. spc \in {"starting", "waiting", "sending"} /\ thread
  BY <1>1 DEF Begins, Ends, Repeats, IInv, ControlInv
<1>3. opc \notin {"forking", "destroyed"}
  BY <1>2 DEF IInv, ControlInv
<1>4. /\ Placed(Q, CurrentIds, H, discarded, accepted)
      /\ Ascending(payloadsToSend) /\ Ascending(handled)
  BY InTerms DEF IInv
<1> HIDE DEF Q, H
<1>5. CASE Repeats
  <2>1. TypeOK'
    BY <1>1, <1>5 DEF Repeats, IInv, TypeOK
  <2>2. ControlInv' /\ FlushInv'
    BY <1>1, <1>5 DEF Repeats, IInv, ControlInv, FlushInv
  <2>3. UsageAccounted'
    BY <1>1, <1>5 DEF Repeats, IInv, UsageAccounted
  <2>4. EachPayloadOnce'
    BY <1>1, <1>5 DEF Repeats, IInv, EachPayloadOnce, HandledIds, CurrentIds
  <2> QED
    BY <2>1, <2>2, <2>3, <2>4 DEF IInv
<1>6. CASE (Begins \/ Ends) /\ Moves
  <2>1. /\ Placed(Q, {}, Ids(handled'), discarded, accepted)
        /\ Ascending(handled')
        /\ handled' \in Seq(Outcome)
    <3>1. CASE Begins
      <4>1. CurrentIds = {} /\ handled' = handled
        BY <3>1 DEF Begins, CurrentIds
      <4> QED
        BY <1>4, <4>1 DEF H, IInv, TypeOK, Outcome
    <3>2. CASE Ends
      <4>1. PICK o \in Outcomes : handled' = Append(handled, [id |-> current.id, outcome |-> o])
        BY <3>2 DEF Ends
      <4> DEFINE x == [id |-> current.id, outcome |-> o]
      <4>2. x \in Outcome /\ x.id = current.id /\ handled \in Seq(Outcome)
        BY <3>2 DEF Ends, IInv, ControlInv, TypeOK, Outcome, Payload
      <4>3. CurrentIds = {current.id}
        BY <3>2 DEF Ends, CurrentIds
      <4> HIDE DEF x
      <4>4. Ids(handled') = H \cup {current.id}
        BY <4>1, <4>2, IdsAppend DEF x, H
      <4>5. \A y \in H : y < x.id
        BY <1>4, <4>2, <4>3 DEF Placed
      <4>6. Ascending(handled')
        BY <1>4, <4>1, <4>2, <4>5, AscendingAppend DEF x, H
      <4>7. Placed(Q, {}, H \cup {current.id}, discarded, accepted)
        BY <1>4, <4>3 DEF Placed
      <4>8. handled' \in Seq(Outcome)
        BY <4>1, <4>2 DEF x
      <4> QED
        BY <4>4, <4>6, <4>7, <4>8
    <3> QED
      BY <1>6, <3>1, <3>2
  <2>2. /\ Placed(Ids(payloadsToSend'), CurrentIds', Ids(handled'), discarded, accepted)
        /\ Ascending(payloadsToSend')
        /\ payloadsToSend' \in Seq(Payload)
        /\ spc' = "sending" => current' \in Payload
    BY <1>4, <1>6, <2>1, MovesPlaces DEF IInv, Q
  <2>3. EachPayloadOnce'
    BY <1>1, <1>3, <2>1, <2>2, InTermsNext
  <2>4. UsageAccounted' /\ payloadsByteUsage' \in Nat
    BY <1>1, <1>6, MovesBytes DEF IInv
  <2>5. /\ spc' \in {"waiting", "sending", "done"} /\ retry' = 0
        /\ current' \in Payload \cup {NoPayload}
        /\ spc' = "done" => ~working /\ (forceFlush /\ entered' => payloadsToSend' = << >> \/ elapsed)
    BY <1>6, <2>2 DEF Moves, Pop, Leave
  <2>6. TypeOK'
    <3>1. handled' \in Seq([id : Nat \ {0}, outcome : Outcomes])
      BY <2>1 DEF Outcome
    <3> QED
      BY <1>1, <2>2, <2>4, <2>5, <3>1 DEF IInv, TypeOK
  <2>7. ControlInv'
    BY <1>1, <1>2, <2>2, <2>5 DEF IInv, ControlInv
  <2>8. FlushInv'
    BY <1>1, <2>5 DEF FlushInv
  <2> QED
    BY <2>3, <2>4, <2>6, <2>7, <2>8 DEF IInv
<1> QED
  BY <1>1, <1>5, <1>6

\* Every step keeps the invariant.
LEMMA Step ==
    ASSUME IInv, [Next]_vars
    PROVE  IInv'
<1>1. CASE \E e \in Endpoints, n \in Retries : InitializeConnection(e, n)
  BY <1>1, InitializeConnectionInv
<1>2. CASE \E e \in Endpoints, s \in Sizes : Enqueue(e, s)
  BY <1>2, EnqueueInv
<1>3. CASE Prefork \/ Destroy \/ DestroyStop \/ TimeoutElapses
  BY <1>3, StopInv
<1>4. CASE PreforkJoin \/ DestroyJoin
  BY <1>4, JoinInv
<1>5. CASE \E child \in BOOLEAN : Postfork(child)
  BY <1>5, PostforkInv
<1>6. CASE ThreadStep
  BY <1>6, ThreadInv
<1>7. CASE Gone \/ UNCHANGED vars
  <2>1. UNCHANGED vars
    BY <1>7 DEF Gone
  <2> USE <2>1 DEF vars, IInv
  <2>5. TypeOK'
    BY DEF TypeOK
  <2>2. ControlInv' /\ FlushInv'
    BY DEF ControlInv, FlushInv
  <2>3. UsageAccounted'
    BY DEF UsageAccounted
  <2>4. EachPayloadOnce'
    BY DEF EachPayloadOnce, HandledIds, CurrentIds
  <2> QED
    BY <2>2, <2>3, <2>4, <2>5
<1> QED
  BY <1>1, <1>2, <1>3, <1>4, <1>5, <1>6, <1>7 DEF Next, OwnerStep

-----------------------------------------------------------------------------
(* Theorems *)

\* The invariant holds in every state of every behaviour.
THEOREM Invariance == Spec => []IInv
  BY InitInv, Step, PTL DEF Spec

\* The fields keep their types; payloadsByteUsage_, unsigned in the code, is never
\* taken below zero by the subtraction in send.
THEOREM TypeCorrect == Spec => []TypeOK
  BY Invariance, PTL DEF IInv

\* The byte count of enqueue and send is the size of what is queued and of what
\* forked children dropped, and stays within the limit, whatever the sizes, the
\* limit and the number of forks.
THEOREM BytesAccounted == Spec => []UsageAccounted
  BY Invariance, PTL DEF IInv

\* No accepted payload is lost, duplicated or overtaken between the queue, the
\* sending thread and its outcome, whatever stops, restarts and forks happen; and
\* the destructor leaves nothing behind unless its timeout was reached.
THEOREM PayloadsOnce == Spec => []EachPayloadOnce
  BY Invariance, PTL DEF IInv
-----------------------------------------------------------------------------
(* One character of UTF-8 *)

Strings == Seq(Byte)

\* What MultibyteAt asks of the bytes, in ranges.
Two(s, i) == s[i] \in 194 .. 223 /\ i + 1 <= Len(s) /\ s[i + 1] \in Trail
Lead3(c, d) == c \in 224 .. 239 /\ d \in Trail /\ (c = 224 => d >= 160) /\ (c = 237 => d < 160)
Three(s, i) == i + 2 <= Len(s) /\ Lead3(s[i], s[i + 1]) /\ s[i + 2] \in Trail
Lead4(c, d) == c \in 240 .. 244 /\ d \in Trail /\ (c = 240 => d >= 144) /\ (c = 244 => d < 144)
Four(s, i) == i + 3 <= Len(s) /\ Lead4(s[i], s[i + 1]) /\ s[i + 2] \in Trail /\ s[i + 3] \in Trail

\* The bits of a byte.
LEMMA ContinuesTrail == \A c \in Byte : Continues(c) <=> c \in Trail
  BY SMT DEF Byte, Continues, Trail

\* The lead byte of a character tells how many bytes follow.
LEMMA FollowingLead ==
  ASSUME NEW c \in Byte, c >= 192, c < 245
  PROVE  /\ c < 224 => Following(c) = 1 /\ ((c % 64) \div 2 # 0 <=> c >= 194)
         /\ 224 <= c /\ c < 240 => Following(c) = 2
         /\ 240 <= c => Following(c) = 3
<1>1. CASE c < 224
  <2>1. c % 64 < 32 /\ c % 64 = c - 192
    BY <1>1, SMT DEF Byte
  <2>2. Following(c) = 1
    BY <2>1, SMT DEF Following
  <2>3. (c % 64) \div 2 # 0 <=> c >= 194
    BY <1>1, <2>1, SMT DEF Byte
  <2>4. QED
    BY <1>1, <2>2, <2>3, SMT DEF Byte
<1>2. CASE 224 <= c /\ c < 240
  <2>1. c % 64 \in 32 .. 47 /\ ~(c % 64 < 32)
    BY <1>2, SMT DEF Byte
  <2>2. Following(c) = 2
    BY <2>1, SMT DEF Following
  <2>3. QED
    BY <1>2, <2>2, SMT DEF Byte
<1>3. CASE 240 <= c
  <2>1. c % 64 \in 48 .. 55 /\ ~(c % 64 < 32) /\ ~(c % 64 \in 32 .. 47)
    BY <1>3, SMT DEF Byte
  <2>2. Following(c) = 3
    BY <2>1, SMT DEF Following
  <2>3. QED
    BY <1>3, <2>2, SMT DEF Byte
<1>4. QED
  BY <1>1, <1>2, <1>3, SMT DEF Byte

\* The bits that the code tests in the byte after the lead.
LEMMA SecondByte ==
  \A d \in Trail : /\ (d \div 32) % 2 = 0 <=> d < 160
                   /\ (d \div 16) % 4 = 0 <=> d < 144
  BY SMT DEF Trail

\* The kinds of lead bytes.
LEMMA LeadRanges ==
  \A c \in Byte :
    /\ \/ ~(c >= 192 /\ c < 245)
       \/ c >= 192 /\ c < 245 /\ c < 224
       \/ c >= 192 /\ c < 245 /\ 224 <= c /\ c < 240
       \/ c >= 192 /\ c < 245 /\ 240 <= c
    /\ ~(c >= 192 /\ c < 245) => c \notin 194 .. 223 /\ c \notin 224 .. 239 /\ c \notin 240 .. 244
    /\ c >= 192 /\ c < 224 => (c \in 194 .. 223 <=> c >= 194) /\ c \notin 224 .. 239 /\ c \notin 240 .. 244
    /\ 224 <= c /\ c < 240 => c \in 224 .. 239 /\ c \notin 194 .. 223 /\ c \notin 240 .. 244
    /\ 240 <= c /\ c < 245 => c \in 240 .. 244 /\ c \notin 194 .. 223 /\ c \notin 224 .. 239
  BY SMT DEF Byte

\* FollowingLead, for all lead bytes at once.
LEMMA LeadFollowing ==
  \A c \in Byte : c >= 192 /\ c < 245 =>
      /\ c < 224 => Following(c) = 1 /\ ((c % 64) \div 2 # 0 <=> c >= 194)
      /\ 224 <= c /\ c < 240 => Following(c) = 2
      /\ 240 <= c => Following(c) = 3
  BY FollowingLead

\* MultibyteAt in ranges of bytes.
LEMMA MultibyteBytes ==
  ASSUME NEW s, NEW n \in Nat, NEW i \in 1 .. n, n = Len(s),
         \A j \in 1 .. n : s[j] \in Byte
  PROVE  /\ MultibyteAt(s, i) <=> Two(s, i) \/ Three(s, i) \/ Four(s, i)
         /\ Two(s, i) => Following(s[i]) = 1
         /\ Three(s, i) => Following(s[i]) = 2
         /\ Four(s, i) => Following(s[i]) = 3
<1>1. s[i] \in Byte /\ 2 # 1 /\ 3 # 1 /\ 3 # 2
  OBVIOUS
<1>2. CASE ~(s[i] >= 192 /\ s[i] < 245)
  <2>1. s[i] \notin 194 .. 223 /\ s[i] \notin 224 .. 239 /\ s[i] \notin 240 .. 244
    BY <1>1, <1>2, LeadRanges, SMT
  <2>2. ~MultibyteAt(s, i)
    BY <1>2, Zenon DEF MultibyteAt
  <2>3. QED
    BY <2>1, <2>2, Zenon DEF Two, Three, Four, Lead3, Lead4
<1>3. CASE s[i] >= 192 /\ s[i] < 245 /\ s[i] < 224
  <2>1. Following(s[i]) = 1 /\ ((s[i] % 64) \div 2 # 0 <=> s[i] >= 194)
    BY <1>1, <1>3, LeadFollowing, SMT
  <2>2. MultibyteAt(s, i) <=>
          n - i >= 1 /\ (\A j \in 1 .. 1 : Continues(s[i + j])) /\ (s[i] % 64) \div 2 # 0
    BY <1>1, <1>3, <2>1, SMT DEF MultibyteAt
  <2>3. MultibyteAt(s, i) <=> i + 1 <= n /\ s[i + 1] \in Trail /\ s[i] >= 194
    <3>1. (\A j \in 1 .. 1 : Continues(s[i + j])) <=> Continues(s[i + 1])
      BY SMT
    <3>2. n - i >= 1 <=> i + 1 <= n
      BY SMT
    <3>3. i + 1 <= n => s[i + 1] \in Byte
      BY SMT
    <3>4. QED
      BY <2>1, <2>2, <3>1, <3>2, <3>3, ContinuesTrail, Zenon
  <2>4. /\ s[i] \in 194 .. 223 <=> s[i] >= 194
        /\ s[i] \notin 224 .. 239 /\ s[i] \notin 240 .. 244
    BY <1>1, <1>3, LeadRanges, SMT
  <2>6. QED
    BY <2>1, <2>3, <2>4, Zenon DEF Two, Three, Four, Lead3, Lead4
<1>4. CASE s[i] >= 192 /\ s[i] < 245 /\ 224 <= s[i] /\ s[i] < 240
  <2>0. s[i] \in 224 .. 239 /\ s[i] \notin 194 .. 223 /\ s[i] \notin 240 .. 244
    BY <1>1, <1>4, LeadRanges, SMT
  <2>1. Following(s[i]) = 2
    BY <1>1, <1>4, LeadFollowing, SMT
  <2>2. MultibyteAt(s, i) <=>
          /\ n - i >= 2 /\ (\A j \in 1 .. 2 : Continues(s[i + j]))
          /\ ~(s[i] = 224 /\ (s[i + 1] \div 32) % 2 = 0) /\ ~(s[i] = 237 /\ s[i + 1] >= 160)
    BY <1>1, <1>4, <2>1, SMT DEF MultibyteAt
  <2>3. (\A j \in 1 .. 2 : Continues(s[i + j])) <=> Continues(s[i + 1]) /\ Continues(s[i + 2])
    BY SMT
  <2>4. n - i >= 2 <=> i + 2 <= n
    BY SMT
  <2>5. i + 2 <= n => s[i + 1] \in Byte /\ s[i + 2] \in Byte
    BY SMT
  <2>6. \A d \in Trail : ((d \div 32) % 2 = 0 <=> ~(d >= 160)) /\ (d >= 160 <=> ~(d < 160))
    BY SecondByte, SMT DEF Trail
  <2>7. MultibyteAt(s, i) <=> Three(s, i)
    <3>1. i + 2 <= n => \A j \in 1 .. 2 : Continues(s[i + j]) <=> s[i + j] \in Trail
      <4>1. i + 2 <= n => \A j \in 1 .. 2 : s[i + j] \in Byte
        BY SMT
      <4>2. QED
        BY <4>1, ContinuesTrail, Zenon
    <3>2. i + 2 <= n => (Continues(s[i + 1]) <=> s[i + 1] \in Trail) /\ (Continues(s[i + 2]) <=> s[i + 2] \in Trail)
      BY <3>1, SMT
    <3>3. s[i + 1] \in Trail =>
            ((s[i + 1] \div 32) % 2 = 0 <=> ~(s[i + 1] >= 160)) /\ (s[i + 1] >= 160 <=> ~(s[i + 1] < 160))
      BY <2>6, SMT
    <3>4. MultibyteAt(s, i) <=>
            /\ i + 2 <= n /\ s[i + 1] \in Trail /\ s[i + 2] \in Trail
            /\ s[i] = 224 => s[i + 1] >= 160
            /\ s[i] = 237 => s[i + 1] < 160
      <4> HIDE DEF MultibyteAt, Trail
      <4>1. QED
        BY <2>2, <2>3, <2>4, <3>2, <3>3
    <3>5. Lead3(s[i], s[i + 1]) <=> /\ s[i + 1] \in Trail
                                    /\ s[i] = 224 => s[i + 1] >= 160
                                    /\ s[i] = 237 => s[i + 1] < 160
      <4> HIDE DEF Trail
      <4>1. QED
        BY <2>0 DEF Lead3
    <3>6. QED
      BY <3>4, <3>5 DEF Three
  <2>8. QED
    BY <2>0, <2>1, <2>7, Zenon DEF Two, Four, Lead4
<1>5. CASE s[i] >= 192 /\ s[i] < 245 /\ 240 <= s[i]
  <2>0. s[i] \in 240 .. 244 /\ s[i] \notin 194 .. 223 /\ s[i] \notin 224 .. 239
    BY <1>1, <1>5, LeadRanges, SMT
  <2>1. Following(s[i]) = 3
    BY <1>1, <1>5, LeadFollowing, SMT
  <2>2. MultibyteAt(s, i) <=>
          /\ n - i >= 3 /\ (\A j \in 1 .. 3 : Continues(s[i + j]))
          /\ ~(s[i] = 240 /\ (s[i + 1] \div 16) % 4 = 0) /\ ~(s[i] = 244 /\ s[i + 1] > 143)
    BY <1>1, <1>5, <2>1, SMT DEF MultibyteAt
  <2>3. (\A j \in 1 .. 3 : Continues(s[i + j])) <=> Continues(s[i + 1]) /\ Continues(s[i + 2]) /\ Continues(s[i + 3])
    BY SMT
  <2>4. n - i >= 3 <=> i + 3 <= n
    BY SMT
  <2>5. i + 3 <= n => s[i + 1] \in Byte /\ s[i + 2] \in Byte /\ s[i + 3] \in Byte
    BY SMT
  <2>6. \A d \in Trail : ((d \div 16) % 4 = 0 <=> ~(d >= 144)) /\ (d > 143 <=> ~(d < 144))
    BY SecondByte, SMT DEF Trail
  <2>7. MultibyteAt(s, i) <=> Four(s, i)
    <3>1. i + 3 <= n => \A j \in 1 .. 3 : Continues(s[i + j]) <=> s[i + j] \in Trail
      <4>1. i + 3 <= n => \A j \in 1 .. 3 : s[i + j] \in Byte
        BY SMT
      <4>2. QED
        BY <4>1, ContinuesTrail, Zenon
    <3>2. i + 3 <= n => (Continues(s[i + 1]) <=> s[i + 1] \in Trail) /\ (Continues(s[i + 2]) <=> s[i + 2] \in Trail) /\ (Continues(s[i + 3]) <=> s[i + 3] \in Trail)
      BY <3>1, SMT
    <3>3. s[i + 1] \in Trail =>
            ((s[i + 1] \div 16) % 4 = 0 <=> ~(s[i + 1] >= 144)) /\ (s[i + 1] > 143 <=> ~(s[i + 1] < 144))
      BY <2>6, SMT
    <3>4. MultibyteAt(s, i) <=>
            /\ i + 3 <= n /\ s[i + 1] \in Trail /\ s[i + 2] \in Trail /\ s[i + 3] \in Trail
            /\ s[i] = 240 => s[i + 1] >= 144
            /\ s[i] = 244 => s[i + 1] < 144
      <4> HIDE DEF MultibyteAt, Trail
      <4>1. QED
        BY <2>2, <2>3, <2>4, <3>2, <3>3
    <3>5. Lead4(s[i], s[i + 1]) <=> /\ s[i + 1] \in Trail
                                    /\ s[i] = 240 => s[i + 1] >= 144
                                    /\ s[i] = 244 => s[i + 1] < 144
      <4> HIDE DEF Trail
      <4>1. QED
        BY <2>0 DEF Lead4
    <3>6. QED
      BY <3>4, <3>5 DEF Four
  <2>8. QED
    BY <2>0, <2>1, <2>7, Zenon DEF Two, Three, Lead3
<1>7. QED
  BY <1>1, <1>2, <1>3, <1>4, <1>5, LeadRanges, SMT

\* The same for a string of bytes.
LEMMA MultibyteForms ==
  ASSUME NEW s \in Strings, NEW i \in 1 .. Len(s)
  PROVE  /\ MultibyteAt(s, i) <=> Two(s, i) \/ Three(s, i) \/ Four(s, i)
         /\ Two(s, i) => Following(s[i]) = 1
         /\ Three(s, i) => Following(s[i]) = 2
         /\ Four(s, i) => Following(s[i]) = 3
<1>1. s[i] \in Byte /\ Len(s) \in Nat
  BY SMT DEF Strings
<1>2. \A j \in 1 .. Len(s) : s[j] \in Byte
  BY SMT DEF Strings
<1>3. QED
  BY <1>1, <1>2, MultibyteBytes, Zenon

\* A row of the table describes the bytes from s[i] on.
RowAt(row, s, i) == i + Len(row) - 1 <= Len(s) /\ \A j \in 1 .. Len(row) : s[i + j - 1] \in row[j]

\* A row of one, two, three or four sets of bytes, position by position.
LEMMA RowBytes ==
  ASSUME NEW s, NEW i \in Nat, Len(s) \in Nat, NEW A, NEW B, NEW C, NEW D
  PROVE  /\ Len(<<A>>) = 1 /\ (RowAt(<<A>>, s, i) <=> i <= Len(s) /\ s[i] \in A)
         /\ Len(<<A, B>>) = 2 /\ (RowAt(<<A, B>>, s, i) <=> i + 1 <= Len(s) /\ s[i] \in A /\ s[i + 1] \in B)
         /\ Len(<<A, B, C>>) = 3
         /\ RowAt(<<A, B, C>>, s, i) <=> i + 2 <= Len(s) /\ s[i] \in A /\ s[i + 1] \in B /\ s[i + 2] \in C
         /\ Len(<<A, B, C, D>>) = 4
         /\ RowAt(<<A, B, C, D>>, s, i) <=>
                i + 3 <= Len(s) /\ s[i] \in A /\ s[i + 1] \in B /\ s[i + 2] \in C /\ s[i + 3] \in D
<1>0. i + 1 - 1 = i /\ i + 2 - 1 = i + 1 /\ i + 3 - 1 = i + 2 /\ i + 4 - 1 = i + 3
  BY SMT
<1>1. Len(<<A>>) = 1 /\ (RowAt(<<A>>, s, i) <=> i <= Len(s) /\ s[i] \in A)
  <2>1. Len(<<A>>) = 1 /\ <<A>>[1] = A
    BY SMT
  <2>2. 1 .. 1 = {1}
    BY SMT
  <2>3. QED
    BY <1>0, <2>1, <2>2, Zenon DEF RowAt
<1>2. Len(<<A, B>>) = 2 /\ (RowAt(<<A, B>>, s, i) <=> i + 1 <= Len(s) /\ s[i] \in A /\ s[i + 1] \in B)
  <2>1. Len(<<A, B>>) = 2 /\ <<A, B>>[1] = A /\ <<A, B>>[2] = B
    BY SMT
  <2>2. 1 .. 2 = {1, 2}
    BY SMT
  <2>3. QED
    BY <1>0, <2>1, <2>2, Zenon DEF RowAt
<1>3. /\ Len(<<A, B, C>>) = 3
      /\ RowAt(<<A, B, C>>, s, i) <=> i + 2 <= Len(s) /\ s[i] \in A /\ s[i + 1] \in B /\ s[i + 2] \in C
  <2>1. Len(<<A, B, C>>) = 3 /\ <<A, B, C>>[1] = A /\ <<A, B, C>>[2] = B /\ <<A, B, C>>[3] = C
    BY SMT
  <2>2. 1 .. 3 = {1, 2, 3}
    BY SMT
  <2>3. QED
    BY <1>0, <2>1, <2>2, Zenon DEF RowAt
<1>4. /\ Len(<<A, B, C, D>>) = 4
      /\ RowAt(<<A, B, C, D>>, s, i) <=>
             i + 3 <= Len(s) /\ s[i] \in A /\ s[i + 1] \in B /\ s[i + 2] \in C /\ s[i + 3] \in D
  <2>1. /\ Len(<<A, B, C, D>>) = 4
        /\ <<A, B, C, D>>[1] = A /\ <<A, B, C, D>>[2] = B /\ <<A, B, C, D>>[3] = C /\ <<A, B, C, D>>[4] = D
    BY SMT
  <2>2. 1 .. 4 = {1, 2, 3, 4}
    BY SMT
  <2>3. QED
    BY <1>0, <2>1, <2>2, Zenon DEF RowAt
<1>5. QED
  BY <1>1, <1>2, <1>3, <1>4, Zenon

\* The rows by their number of bytes.
Rows2 == {<<194 .. 223, Trail>>}
Rows3 == {<<{224}, 160 .. 191, Trail>>, <<225 .. 236, Trail, Trail>>, <<{237}, 128 .. 159, Trail>>, <<238 .. 239, Trail, Trail>>}
Rows4 == {<<{240}, 144 .. 191, Trail, Trail>>, <<241 .. 243, Trail, Trail, Trail>>, <<{244}, 128 .. 143, Trail, Trail>>}

\* The rows of three bytes differ in their first two.
LEMMA LeadThree ==
  \A c, d \in Byte : Lead3(c, d) <=>
      \/ (c \in {224} /\ d \in 160 .. 191) \/ (c \in 225 .. 236 /\ d \in Trail)
      \/ (c \in {237} /\ d \in 128 .. 159) \/ (c \in 238 .. 239 /\ d \in Trail)
  BY SMT DEF Byte, Trail, Lead3

\* So do those of four.
LEMMA LeadFour ==
  \A c, d \in Byte : Lead4(c, d) <=>
      \/ (c \in {240} /\ d \in 144 .. 191) \/ (c \in 241 .. 243 /\ d \in Trail)
      \/ (c \in {244} /\ d \in 128 .. 143)
  BY SMT DEF Byte, Trail, Lead4

\* The table, by the length of its rows.
LEMMA RowsOfTable == WellFormed = {<<0 .. 127>>} \cup Rows2 \cup Rows3 \cup Rows4
<1> DEFINE r1 == <<0 .. 127>>
           r2 == <<194 .. 223, Trail>>
           r3 == <<{224}, 160 .. 191, Trail>>
           r4 == <<225 .. 236, Trail, Trail>>
           r5 == <<{237}, 128 .. 159, Trail>>
           r6 == <<238 .. 239, Trail, Trail>>
           r7 == <<{240}, 144 .. 191, Trail, Trail>>
           r8 == <<241 .. 243, Trail, Trail, Trail>>
           r9 == <<{244}, 128 .. 143, Trail, Trail>>
<1>1. /\ WellFormed = {r1, r2, r3, r4, r5, r6, r7, r8, r9}
      /\ Rows2 = {r2} /\ Rows3 = {r3, r4, r5, r6} /\ Rows4 = {r7, r8, r9}
  BY DEF WellFormed, Rows2, Rows3, Rows4
<1> HIDE DEF r1, r2, r3, r4, r5, r6, r7, r8, r9
<1>2. WellFormed = {r1} \cup Rows2 \cup Rows3 \cup Rows4
  BY <1>1
<1>3. QED
  BY <1>2 DEF r1

\* What the rows of two, three and four bytes describe.
LEMMA RowForms ==
  ASSUME NEW s \in Strings, NEW i \in 1 .. Len(s)
  PROVE  /\ RowAt(<<0 .. 127>>, s, i) <=> s[i] < 128
         /\ (\E row \in Rows2 : RowAt(row, s, i)) <=> Two(s, i)
         /\ (\E row \in Rows3 : RowAt(row, s, i)) <=> Three(s, i)
         /\ (\E row \in Rows4 : RowAt(row, s, i)) <=> Four(s, i)
<1>1. s[i] \in Byte /\ Len(s) \in Nat /\ i \in Nat /\ i <= Len(s)
  BY SMT DEF Strings
<1>2. \A j \in 1 .. Len(s) : s[j] \in Byte
  BY SMT DEF Strings
<1>3. \A A : RowAt(<<A>>, s, i) <=> i <= Len(s) /\ s[i] \in A
  BY <1>1, RowBytes, Zenon
<1>4. \A A, B : RowAt(<<A, B>>, s, i) <=> i + 1 <= Len(s) /\ s[i] \in A /\ s[i + 1] \in B
  BY <1>1, RowBytes, Zenon
<1>5. \A A, B, C : RowAt(<<A, B, C>>, s, i) <=> i + 2 <= Len(s) /\ s[i] \in A /\ s[i + 1] \in B /\ s[i + 2] \in C
  BY <1>1, RowBytes, Zenon
<1>6. \A A, B, C, D : RowAt(<<A, B, C, D>>, s, i) <=>
          i + 3 <= Len(s) /\ s[i] \in A /\ s[i + 1] \in B /\ s[i + 2] \in C /\ s[i + 3] \in D
  BY <1>1, RowBytes, Zenon
<1>7. RowAt(<<0 .. 127>>, s, i) <=> s[i] < 128
  <2>1. \A c \in Byte : c \in 0 .. 127 <=> c < 128
    BY SMT DEF Byte
  <2>2. QED
    BY <1>1, <1>3, <2>1, SMT
<1>8. (\E row \in Rows2 : RowAt(row, s, i)) <=> Two(s, i)
  <2>1. RowAt(<<194 .. 223, Trail>>, s, i) <=> Two(s, i)
    BY <1>1, <1>4, SMT DEF Two
  <2>2. QED
    BY <2>1, SMT DEF Rows2
<1>9. (\E row \in Rows3 : RowAt(row, s, i)) <=> Three(s, i)
  <2> DEFINE A1 == {224}
             A2 == 160 .. 191
             B1 == 225 .. 236
             C1 == {237}
             C2 == 128 .. 159
             D1 == 238 .. 239
  <2>1. Rows3 = {<<A1, A2, Trail>>, <<B1, Trail, Trail>>, <<C1, C2, Trail>>, <<D1, Trail, Trail>>}
    BY DEF Rows3
  <2>2. \A c, d \in Byte : Lead3(c, d) <=>
          (c \in A1 /\ d \in A2) \/ (c \in B1 /\ d \in Trail) \/ (c \in C1 /\ d \in C2) \/ (c \in D1 /\ d \in Trail)
    BY LeadThree
  <2> HIDE DEF A1, A2, B1, C1, C2, D1
  <2>3. (\E row \in Rows3 : RowAt(row, s, i)) <=>
          \/ RowAt(<<A1, A2, Trail>>, s, i) \/ RowAt(<<B1, Trail, Trail>>, s, i)
          \/ RowAt(<<C1, C2, Trail>>, s, i) \/ RowAt(<<D1, Trail, Trail>>, s, i)
    BY <2>1, Zenon
  <2>4. i + 2 <= Len(s) => s[i] \in Byte /\ s[i + 1] \in Byte
    BY <1>1, <1>2, SMT
  <2>5. /\ RowAt(<<A1, A2, Trail>>, s, i) <=> i + 2 <= Len(s) /\ s[i] \in A1 /\ s[i + 1] \in A2 /\ s[i + 2] \in Trail
        /\ RowAt(<<B1, Trail, Trail>>, s, i) <=> i + 2 <= Len(s) /\ s[i] \in B1 /\ s[i + 1] \in Trail /\ s[i + 2] \in Trail
        /\ RowAt(<<C1, C2, Trail>>, s, i) <=> i + 2 <= Len(s) /\ s[i] \in C1 /\ s[i + 1] \in C2 /\ s[i + 2] \in Trail
        /\ RowAt(<<D1, Trail, Trail>>, s, i) <=> i + 2 <= Len(s) /\ s[i] \in D1 /\ s[i + 1] \in Trail /\ s[i + 2] \in Trail
    BY <1>5, Zenon
  <2>6. i + 2 <= Len(s) =>
          (Lead3(s[i], s[i + 1]) <=>
             \/ (s[i] \in A1 /\ s[i + 1] \in A2) \/ (s[i] \in B1 /\ s[i + 1] \in Trail)
             \/ (s[i] \in C1 /\ s[i + 1] \in C2) \/ (s[i] \in D1 /\ s[i + 1] \in Trail))
    BY <2>2, <2>4, Zenon
  <2>7. QED
    BY <2>3, <2>5, <2>6 DEF Three
<1>10. (\E row \in Rows4 : RowAt(row, s, i)) <=> Four(s, i)
  <2> DEFINE A1 == {240}
             A2 == 144 .. 191
             B1 == 241 .. 243
             C1 == {244}
             C2 == 128 .. 143
  <2>1. Rows4 = {<<A1, A2, Trail, Trail>>, <<B1, Trail, Trail, Trail>>, <<C1, C2, Trail, Trail>>}
    BY DEF Rows4
  <2>2. \A c, d \in Byte : Lead4(c, d) <=>
          (c \in A1 /\ d \in A2) \/ (c \in B1 /\ d \in Trail) \/ (c \in C1 /\ d \in C2)
    BY LeadFour
  <2> HIDE DEF A1, A2, B1, C1, C2
  <2>3. (\E row \in Rows4 : RowAt(row, s, i)) <=>
          \/ RowAt(<<A1, A2, Trail, Trail>>, s, i) \/ RowAt(<<B1, Trail, Trail, Trail>>, s, i)
          \/ RowAt(<<C1, C2, Trail, Trail>>, s, i)
    BY <2>1, Zenon
  <2>4. i + 3 <= Len(s) => s[i] \in Byte /\ s[i + 1] \in Byte
    BY <1>1, <1>2, SMT
  <2>5. /\ RowAt(<<A1, A2, Trail, Trail>>, s, i) <=>
             i + 3 <= Len(s) /\ s[i] \in A1 /\ s[i + 1] \in A2 /\ s[i + 2] \in Trail /\ s[i + 3] \in Trail
        /\ RowAt(<<B1, Trail, Trail, Trail>>, s, i) <=>
             i + 3 <= Len(s) /\ s[i] \in B1 /\ s[i + 1] \in Trail /\ s[i + 2] \in Trail /\ s[i + 3] \in Trail
        /\ RowAt(<<C1, C2, Trail, Trail>>, s, i) <=>
             i + 3 <= Len(s) /\ s[i] \in C1 /\ s[i + 1] \in C2 /\ s[i + 2] \in Trail /\ s[i + 3] \in Trail
    BY <1>6, Zenon
  <2>6. i + 3 <= Len(s) =>
          (Lead4(s[i], s[i + 1]) <=>
             \/ (s[i] \in A1 /\ s[i + 1] \in A2) \/ (s[i] \in B1 /\ s[i + 1] \in Trail)
             \/ (s[i] \in C1 /\ s[i + 1] \in C2))
    BY <2>2, <2>4, Zenon
  <2>7. QED
    BY <2>3, <2>5, <2>6 DEF Four
<1>11. QED
  BY <1>7, <1>8, <1>9, <1>10

\* A character begins at s[i]: its length, and the row that describes it.
Width(s, i) == IF s[i] < 128 THEN 1 ELSE 1 + Following(s[i])
CharAt(s, i) == s[i] < 128 \/ MultibyteAt(s, i)

\* The code reads a character at s[i] exactly where some row describes the bytes,
\* and both agree on its length.
LEMMA CharRow ==
  ASSUME NEW s \in Strings, NEW i \in 1 .. Len(s)
  PROVE  /\ \A row \in WellFormed : RowAt(row, s, i) => CharAt(s, i) /\ Len(row) = Width(s, i)
         /\ CharAt(s, i) => \E row \in WellFormed : RowAt(row, s, i)
         /\ \A row \in WellFormed : Len(row) \in 1 .. 4
<1>1. WellFormed = {<<0 .. 127>>} \cup Rows2 \cup Rows3 \cup Rows4
  BY RowsOfTable
<1>2. Len(<<0 .. 127>>) = 1 /\ (\A row \in Rows2 : Len(row) = 2) /\ (\A row \in Rows3 : Len(row) = 3) /\ (\A row \in Rows4 : Len(row) = 4)
  BY SMT DEF Rows2, Rows3, Rows4
<1>3. s[i] \in Byte
  BY SMT DEF Strings
<1>4. (Two(s, i) \/ Three(s, i) \/ Four(s, i)) => ~(s[i] < 128)
  <2>1. \A c \in Byte : c \in 194 .. 223 \/ c \in 224 .. 239 \/ c \in 240 .. 244 => ~(c < 128)
    BY SMT DEF Byte
  <2>2. QED
    BY <1>3, <2>1, SMT DEF Two, Three, Four, Lead3, Lead4
<1>5. /\ Two(s, i) => Width(s, i) = 2
      /\ Three(s, i) => Width(s, i) = 3
      /\ Four(s, i) => Width(s, i) = 4
      /\ s[i] < 128 => Width(s, i) = 1
  BY <1>4, MultibyteForms, SMT DEF Width
<1>6. CharAt(s, i) <=> s[i] < 128 \/ Two(s, i) \/ Three(s, i) \/ Four(s, i)
  BY MultibyteForms, Zenon DEF CharAt
<1>7. \A row \in WellFormed : Len(row) \in 1 .. 4
  BY <1>1, <1>2, SMT
<1> DEFINE R1 == <<0 .. 127>>
           Ascii == s[i] < 128
<1>8. /\ RowAt(R1, s, i) <=> Ascii
      /\ (\E row \in Rows2 : RowAt(row, s, i)) <=> Two(s, i)
      /\ (\E row \in Rows3 : RowAt(row, s, i)) <=> Three(s, i)
      /\ (\E row \in Rows4 : RowAt(row, s, i)) <=> Four(s, i)
  BY RowForms
<1>9. /\ Len(R1) = 1 /\ (Ascii => Width(s, i) = 1)
      /\ CharAt(s, i) <=> Ascii \/ Two(s, i) \/ Three(s, i) \/ Four(s, i)
      /\ WellFormed = {R1} \cup Rows2 \cup Rows3 \cup Rows4
  BY <1>1, <1>2, <1>5, <1>6
<1> HIDE DEF R1, Ascii
<1>10. ASSUME NEW row \in WellFormed, RowAt(row, s, i) PROVE CharAt(s, i) /\ Len(row) = Width(s, i)
  <2>1. CASE row = R1
    BY <1>8, <1>9, <1>10, <2>1, Zenon
  <2>2. CASE row \in Rows2
    BY <1>2, <1>5, <1>8, <1>9, <1>10, <2>2, Zenon
  <2>3. CASE row \in Rows3
    BY <1>2, <1>5, <1>8, <1>9, <1>10, <2>3, Zenon
  <2>4. CASE row \in Rows4
    BY <1>2, <1>5, <1>8, <1>9, <1>10, <2>4, Zenon
  <2>5. QED
    BY <1>9, <2>1, <2>2, <2>3, <2>4, Zenon
<1>11. CharAt(s, i) => \E row \in WellFormed : RowAt(row, s, i)
  BY <1>8, <1>9, Zenon
<1>12. QED
  BY <1>7, <1>10, <1>11, Zenon

-----------------------------------------------------------------------------
(* Strings of UTF-8 *)

\* The round of isUtf8 at s[i], and its rounds from b on.
ReadStep(s, f, i) == IF s[i] < 128 THEN f[i + 1] ELSE MultibyteAt(s, i) /\ f[i + 1 + Following(s[i])]
ReadRun(s, b, f) == f = [i \in b .. Len(s) + 1 |-> IF i = Len(s) + 1 THEN TRUE ELSE ReadStep(s, f, i)]
ReadTurns(s, b, f) ==
    /\ f = [i \in b .. Len(s) + 1 |-> f[i]]
    /\ f[Len(s) + 1] = TRUE
    /\ \A i \in b .. Len(s) : f[i] = ReadStep(s, f, i)

\* A run as a first value and one equation per round.
LEMMA ReadRunTurns ==
  ASSUME NEW s, NEW f, Len(s) \in Nat, NEW b \in 1 .. Len(s) + 1
  PROVE  ReadRun(s, b, f) <=> ReadTurns(s, b, f)
<1> DEFINE e == Len(s) + 1
<1>1. /\ e \in b .. e
      /\ \A i : i \in b .. Len(s) => i \in b .. e /\ i # e
      /\ \A i : i \in b .. e => i = e \/ i \in b .. Len(s)
  BY SMT
<1> HIDE DEF e
<1>2. ASSUME ReadRun(s, b, f) PROVE ReadTurns(s, b, f)
  <2>1. f = [i \in b .. e |-> IF i = e THEN TRUE ELSE ReadStep(s, f, i)]
    BY <1>2, Zenon DEF ReadRun, e
  <2>2. \A i \in b .. e : f[i] = IF i = e THEN TRUE ELSE ReadStep(s, f, i)
    BY <2>1, Zenon
  <2>3. f = [i \in b .. e |-> f[i]]
    BY <2>1, <2>2, Zenon
  <2>4. f[e] = TRUE /\ \A i \in b .. Len(s) : f[i] = ReadStep(s, f, i)
    BY <1>1, <2>2, Zenon
  <2>5. QED
    BY <2>3, <2>4, Zenon DEF ReadTurns, e
<1>3. ASSUME ReadTurns(s, b, f) PROVE ReadRun(s, b, f)
  <2>1. f = [i \in b .. e |-> f[i]] /\ f[e] = TRUE /\ \A i \in b .. Len(s) : f[i] = ReadStep(s, f, i)
    BY <1>3, Zenon DEF ReadTurns, e
  <2>2. \A i \in b .. e : f[i] = IF i = e THEN TRUE ELSE ReadStep(s, f, i)
    BY <1>1, <2>1, Zenon
  <2>3. f = [i \in b .. e |-> IF i = e THEN TRUE ELSE ReadStep(s, f, i)]
    BY <2>1, <2>2, Zenon
  <2>4. QED
    BY <2>3, Zenon DEF ReadRun, e
<1>4. QED
  BY <1>2, <1>3

\* A character ends within the string.
LEMMA CharEnds ==
  ASSUME NEW s \in Strings, NEW i \in 1 .. Len(s), CharAt(s, i)
  PROVE  Width(s, i) \in 1 .. 4 /\ i + Width(s, i) \in i + 1 .. Len(s) + 1
<1>1. PICK row \in WellFormed : RowAt(row, s, i)
  BY CharRow
<1>2. Len(row) = Width(s, i) /\ Len(row) \in 1 .. 4
  BY <1>1, CharRow
<1>3. i + Len(row) - 1 <= Len(s)
  BY <1>1, Zenon DEF RowAt
<1>4. Len(s) \in Nat
  BY SMT DEF Strings
<1>5. QED
  BY <1>2, <1>3, <1>4, SMT

\* There is a run: it is extended to the left, one position at a time.
LEMMA ReadRunExists ==
  ASSUME NEW s \in Strings
  PROVE  \E f : ReadRun(s, 1, f)
<1> DEFINE N == Len(s)
           S == {k \in Nat : k <= N => \E f : ReadTurns(s, N + 1 - k, f)}
<1>0. N \in Nat
  BY SMT DEF Strings
<1> HIDE DEF N
<1>1. 0 \in S
  <2> DEFINE f == [i \in N + 1 .. N + 1 |-> TRUE]
  <2>1. f = [i \in N + 1 .. N + 1 |-> f[i]] /\ f[N + 1] = TRUE
    BY <1>0, SMT
  <2>2. N + 1 .. N = {} /\ N + 1 - 0 = N + 1
    BY <1>0, SMT
  <2> HIDE DEF f
  <2>3. ReadTurns(s, N + 1, f)
    BY <2>1, <2>2, Zenon DEF ReadTurns, N
  <2>4. QED
    BY <2>2, <2>3, Zenon
<1>2. ASSUME NEW k \in Nat, k \in S PROVE k + 1 \in S
  <2> SUFFICES ASSUME k + 1 <= N PROVE \E f : ReadTurns(s, N + 1 - (k + 1), f)
    OBVIOUS
  <2> DEFINE b == N + 1 - k
             a == N - k
  <2>0. /\ N + 1 - (k + 1) = a /\ a \in 1 .. N /\ b \in 1 .. N + 1 /\ k <= N
        /\ a \in a .. N + 1 /\ N + 1 \in a .. N + 1 /\ a # N + 1 /\ a < b
        /\ \A i : i \in a .. N + 1 => i = a \/ i \in b .. N + 1
        /\ \A i : i \in b .. N + 1 => i \in a .. N + 1 /\ i # a
        /\ \A i : i \in a .. N => i = a \/ i \in b .. N
        /\ \A i : i \in b .. N => i \in b .. N + 1 /\ i \in 1 .. N
        /\ \A i : i \in a + 1 .. N + 1 => i \in b .. N + 1
    BY <1>0, SMT
  <2>1. PICK f : ReadTurns(s, b, f)
    BY <1>2, <2>0, Zenon
  <2> HIDE DEF a, b
  <2> DEFINE x == ReadStep(s, f, a)
             g == [i \in a .. N + 1 |-> IF i = a THEN x ELSE f[i]]
  <2>2. f[N + 1] = TRUE /\ \A i \in b .. N : f[i] = ReadStep(s, f, i)
    BY <2>1, Zenon DEF ReadTurns, N
  <2> HIDE DEF x
  <2>3. g = [i \in a .. N + 1 |-> g[i]] /\ g[a] = x /\ (\A i \in b .. N + 1 : g[i] = f[i]) /\ g[N + 1] = f[N + 1]
    <3>1. \A i \in a .. N + 1 : g[i] = IF i = a THEN x ELSE f[i]
      BY Zenon
    <3>2. QED
      BY <2>0, <3>1, Zenon
  <2> HIDE DEF g
  <2>4. \A i \in a .. N : ReadStep(s, g, i) = ReadStep(s, f, i)
    <3>1. SUFFICES ASSUME NEW i \in a .. N PROVE ReadStep(s, g, i) = ReadStep(s, f, i)
      OBVIOUS
    <3>2. i \in 1 .. N /\ i + 1 \in b .. N + 1 /\ \A j : j \in i + 1 .. N + 1 => j \in b .. N + 1
      <4>1. a + 1 = b
        BY <1>0, SMT DEF a, b
      <4>2. QED
        BY <1>0, <2>0, <4>1, SMT
    <3>3. CASE s[i] < 128
      BY <2>3, <3>2, <3>3, Zenon DEF ReadStep
    <3>4. CASE ~(s[i] < 128) /\ ~MultibyteAt(s, i)
      BY <3>4, Zenon DEF ReadStep
    <3>5. CASE ~(s[i] < 128) /\ MultibyteAt(s, i)
      <4> DEFINE w == Following(s[i])
      <4>1. Width(s, i) = 1 + w /\ CharAt(s, i)
        BY <3>5, Zenon DEF Width, CharAt
      <4>2. i + Width(s, i) \in i + 1 .. N + 1 /\ Width(s, i) \in 1 .. 4
        BY <4>1, <3>2, CharEnds DEF N
      <4>3. w \in Nat
        <5>1. Two(s, i) \/ Three(s, i) \/ Four(s, i)
          BY <3>5, <3>2, MultibyteForms DEF N
        <5>2. w = 1 \/ w = 2 \/ w = 3
          BY <5>1, <3>2, MultibyteForms DEF N
        <5>3. QED
          BY <5>2
      <4> HIDE DEF w
      <4>4. i + 1 + w = i + Width(s, i)
        BY <3>2, <4>1, <4>3, <1>0, SMT
      <4>5. i + 1 + w \in b .. N + 1
        BY <3>2, <4>2, <4>4, Zenon
      <4>6. g[i + 1 + w] = f[i + 1 + w]
        BY <2>3, <4>5, Zenon
      <4>7. QED
        BY <3>5, <4>6, Zenon DEF ReadStep, w
    <3>6. QED
      BY <3>3, <3>4, <3>5, Zenon
  <2>5. ReadTurns(s, a, g)
    <3>1. \A i \in a .. N : g[i] = ReadStep(s, g, i)
      BY <2>0, <2>2, <2>3, <2>4, Zenon DEF x
    <3>2. QED
      BY <3>1, <2>2, <2>3, Zenon DEF ReadTurns, N
  <2>6. QED
    BY <2>0, <2>5, Zenon
<1> HIDE DEF S
<1>3. N \in S
  BY <1>0, <1>1, <1>2, Induct
<1>4. N + 1 - N = 1 /\ N <= N /\ 1 \in 1 .. N + 1
  BY <1>0, SMT
<1>5. PICK f : ReadTurns(s, 1, f)
  BY <1>3, <1>4, Zenon DEF S
<1>6. QED
  BY <1>0, <1>4, <1>5, ReadRunTurns, Zenon DEF N

\* isUtf8 reads one character after the other, from left to right.
LEMMA IsUtf8Reads ==
  ASSUME NEW s \in Strings
  PROVE  \E f : /\ isUtf8(s) = f[1]
                /\ f[Len(s) + 1]
                /\ \A i \in 1 .. Len(s) : f[i] <=> CharAt(s, i) /\ f[i + Width(s, i)]
<1> DEFINE f == CHOOSE g : ReadRun(s, 1, g)
<1>0. Len(s) \in Nat
  BY SMT DEF Strings
<1>1. ReadRun(s, 1, f)
  BY ReadRunExists, Zenon
<1>2. isUtf8(s) = f[1]
  BY DEF isUtf8, ReadRun, ReadStep
<1> HIDE DEF f
<1>3. 1 \in 1 .. Len(s) + 1
  BY <1>0, SMT
<1>4. ReadTurns(s, 1, f)
  BY <1>0, <1>1, <1>3, ReadRunTurns, Zenon
<1>5. ASSUME NEW i \in 1 .. Len(s) PROVE f[i] <=> CharAt(s, i) /\ f[i + Width(s, i)]
  <2>1. f[i] = ReadStep(s, f, i)
    BY <1>4, <1>5, Zenon DEF ReadTurns
  <2>2. CASE s[i] < 128
    BY <2>1, <2>2, Zenon DEF ReadStep, CharAt, Width
  <2>3. CASE ~(s[i] < 128) /\ ~MultibyteAt(s, i)
    BY <2>1, <2>3, Zenon DEF ReadStep, CharAt
  <2>4. CASE ~(s[i] < 128) /\ MultibyteAt(s, i)
    <3>1. Following(s[i]) \in Nat
      <4>1. Two(s, i) \/ Three(s, i) \/ Four(s, i)
        BY <2>4, MultibyteForms
      <4>2. Following(s[i]) = 1 \/ Following(s[i]) = 2 \/ Following(s[i]) = 3
        BY <4>1, MultibyteForms
      <4>3. QED
        BY <4>2
    <3>2. Width(s, i) = 1 + Following(s[i]) /\ CharAt(s, i)
      BY <2>4, Zenon DEF Width, CharAt
    <3>3. i + 1 + Following(s[i]) = i + Width(s, i)
      BY <3>1, <3>2, <1>0, SMT
    <3>4. QED
      BY <2>1, <2>4, <3>2, <3>3, Zenon DEF ReadStep
  <2>5. QED
    BY <2>2, <2>3, <2>4, Zenon
<1>6. f[Len(s) + 1]
  BY <1>4, Zenon DEF ReadTurns
<1>7. QED
  BY <1>2, <1>5, <1>6, Zenon

\* The prefixes of s that are concatenations of rows, up to length k.
EndsRow(s, f, n) ==
    \E row \in WellFormed :
        /\ Len(row) <= n
        /\ \A i \in 1 .. Len(row) : s[n - Len(row) + i] \in row[i]
        /\ f[n - Len(row)]
WholeRun(s, k, f) == f = [n \in 0 .. k |-> n = 0 \/ EndsRow(s, f, n)]
WholeTurns(s, k, f) ==
    /\ f = [n \in 0 .. k |-> f[n]]
    /\ \A n \in 0 .. k : f[n] = (n = 0 \/ EndsRow(s, f, n))

\* A run as one equation per prefix.
LEMMA WholeRunTurns ==
  ASSUME NEW s, NEW k \in Nat, NEW f
  PROVE  WholeRun(s, k, f) <=> WholeTurns(s, k, f)
<1>1. ASSUME WholeRun(s, k, f) PROVE WholeTurns(s, k, f)
  <2>1. f = [n \in 0 .. k |-> n = 0 \/ EndsRow(s, f, n)]
    BY <1>1, Zenon DEF WholeRun
  <2>2. \A n \in 0 .. k : f[n] = (n = 0 \/ EndsRow(s, f, n))
    BY <2>1, Zenon
  <2>3. f = [n \in 0 .. k |-> f[n]]
    BY <2>1, <2>2, Zenon
  <2>4. QED
    BY <2>2, <2>3, Zenon DEF WholeTurns
<1>2. ASSUME WholeTurns(s, k, f) PROVE WholeRun(s, k, f)
  BY <1>2, Zenon DEF WholeRun, WholeTurns
<1>3. QED
  BY <1>1, <1>2

\* No row is longer than four bytes.
LEMMA RowLengths == \A row \in WellFormed : Len(row) \in 1 .. 4
<1>1. Len(<<0 .. 127>>) = 1 /\ (\A row \in Rows2 : Len(row) = 2) /\ (\A row \in Rows3 : Len(row) = 3) /\ (\A row \in Rows4 : Len(row) = 4)
  BY SMT DEF Rows2, Rows3, Rows4
<1>2. QED
  BY <1>1, RowsOfTable, SMT

\* There is a run of any length.
LEMMA WholeRunExists ==
  ASSUME NEW s
  PROVE  \A k \in Nat : \E f : WholeRun(s, k, f)
<1> DEFINE S == {k \in Nat : \E f : WholeTurns(s, k, f)}
<1>1. 0 \in S
  <2> DEFINE f == [n \in 0 .. 0 |-> TRUE]
  <2>1. f = [n \in 0 .. 0 |-> f[n]] /\ f[0] = TRUE /\ \A n \in 0 .. 0 : n = 0
    BY SMT
  <2> HIDE DEF f
  <2>2. WholeTurns(s, 0, f)
    BY <2>1, Zenon DEF WholeTurns
  <2>3. QED
    BY <2>2, Zenon
<1>2. ASSUME NEW k \in Nat, k \in S PROVE k + 1 \in S
  <2>1. PICK f : WholeTurns(s, k, f)
    BY <1>2, Zenon
  <2> DEFINE x == EndsRow(s, f, k + 1)
             g == [n \in 0 .. k + 1 |-> IF n = k + 1 THEN x ELSE f[n]]
  <2>2. /\ k + 1 \in 0 .. k + 1 /\ k + 1 # 0
        /\ \A n : n \in 0 .. k => n \in 0 .. k + 1 /\ n # k + 1
        /\ \A n : n \in 0 .. k + 1 => n = k + 1 \/ n \in 0 .. k
    BY SMT
  <2> HIDE DEF x
  <2>3. /\ g = [n \in 0 .. k + 1 |-> g[n]] /\ g[k + 1] = x
        /\ \A n \in 0 .. k : g[n] = f[n]
    <3>1. \A n \in 0 .. k + 1 : g[n] = IF n = k + 1 THEN x ELSE f[n]
      BY Zenon
    <3>2. QED
      BY <2>2, <3>1, Zenon
  <2> HIDE DEF g
  <2>4. \A n \in 0 .. k + 1 : EndsRow(s, g, n) = EndsRow(s, f, n)
    <3>1. \A n \in 0 .. k + 1 : \A row \in WellFormed : Len(row) <= n => n - Len(row) \in 0 .. k
      <4>1. \A n \in 0 .. k + 1 : \A l \in 1 .. 4 : l <= n => n - l \in 0 .. k
        BY SMT
      <4>2. QED
        BY <4>1, RowLengths, Zenon
    <3>2. \A n \in 0 .. k + 1 : \A row \in WellFormed : Len(row) <= n => g[n - Len(row)] = f[n - Len(row)]
      BY <2>3, <3>1, Zenon
    <3>3. ASSUME NEW n \in 0 .. k + 1 PROVE EndsRow(s, g, n) <=> EndsRow(s, f, n)
      BY <3>2, <3>3, Zenon DEF EndsRow
    <3>4. \A h, n : EndsRow(s, h, n) \in BOOLEAN
      BY Zenon DEF EndsRow
    <3>5. QED
      BY <3>3, <3>4, Zenon
  <2>5. \A n \in 0 .. k + 1 : g[n] = (n = 0 \/ EndsRow(s, g, n))
    <3>1. ASSUME NEW n \in 0 .. k PROVE g[n] = (n = 0 \/ EndsRow(s, g, n))
      <4>1. f[n] = (n = 0 \/ EndsRow(s, f, n))
        BY <2>1, Zenon DEF WholeTurns
      <4>2. QED
        BY <2>2, <2>3, <2>4, <4>1, <3>1, Zenon
    <3>2. g[k + 1] = (k + 1 = 0 \/ EndsRow(s, g, k + 1))
      <4>1. EndsRow(s, g, k + 1) = EndsRow(s, f, k + 1)
        BY <2>2, <2>4, Zenon
      <4>2. EndsRow(s, g, k + 1) \in BOOLEAN
        BY Zenon DEF EndsRow
      <4>3. QED
        BY <2>2, <2>3, <4>1, <4>2, Zenon DEF x
    <3>3. QED
      BY <2>2, <3>1, <3>2, Zenon
  <2>6. WholeTurns(s, k + 1, g)
    BY <2>3, <2>5, Zenon DEF WholeTurns
  <2>7. k + 1 \in Nat
    OBVIOUS
  <2>8. QED
    BY <2>6, <2>7, Zenon
<1> HIDE DEF S
<1>3. Nat \subseteq S
  BY <1>1, <1>2, Induct
<1>4. QED
  BY <1>3, WholeRunTurns, Zenon DEF S

\* A text is well-formed when its last character ends at its end, and what
\* precedes it is well-formed.
LEMMA WellFormedEnds ==
  ASSUME NEW s \in Strings
  PROVE  \E f : /\ IsWellFormed(s) = f[Len(s)]
                /\ f[0]
                /\ \A n \in 1 .. Len(s) : f[n] <=>
                     \E i \in 1 .. n : CharAt(s, i) /\ i + Width(s, i) = n + 1 /\ f[i - 1]
<1> DEFINE f == CHOOSE g : WholeRun(s, Len(s), g)
<1>0. Len(s) \in Nat
  BY SMT DEF Strings
<1>1. WholeRun(s, Len(s), f)
  BY <1>0, WholeRunExists, Zenon
<1>2. IsWellFormed(s) = f[Len(s)]
  BY DEF IsWellFormed, WholeRun, EndsRow
<1> HIDE DEF f
<1>3. \A n \in 0 .. Len(s) : f[n] = (n = 0 \/ EndsRow(s, f, n))
  BY <1>0, <1>1, WholeRunTurns, Zenon DEF WholeTurns
<1>4. f[0]
  <2>1. 0 \in 0 .. Len(s)
    BY <1>0, SMT
  <2>2. QED
    BY <1>3, <2>1, Zenon
<1>5. ASSUME NEW n \in 1 .. Len(s)
      PROVE  f[n] <=> \E i \in 1 .. n : CharAt(s, i) /\ i + Width(s, i) = n + 1 /\ f[i - 1]
  <2>1. f[n] <=> EndsRow(s, f, n)
    <3>1. n \in 0 .. Len(s) /\ n # 0
      BY <1>0, SMT
    <3>2. QED
      BY <1>3, <3>1, Zenon
  <2>2. \A row \in WellFormed : Len(row) <= n =>
          ((\A j \in 1 .. Len(row) : s[n - Len(row) + j] \in row[j]) <=> RowAt(row, s, n - Len(row) + 1))
    <3>1. SUFFICES ASSUME NEW row \in WellFormed, Len(row) <= n
                   PROVE  (\A j \in 1 .. Len(row) : s[n - Len(row) + j] \in row[j]) <=> RowAt(row, s, n - Len(row) + 1)
      OBVIOUS
    <3>2. Len(row) \in 1 .. 4
      BY RowLengths
    <3>3. n - Len(row) + 1 + Len(row) - 1 <= Len(s) /\ \A j \in 1 .. Len(row) : n - Len(row) + 1 + j - 1 = n - Len(row) + j
      BY <1>0, <3>2, SMT
    <3>4. QED
      BY <3>3, Zenon DEF RowAt
  <2>3. ASSUME EndsRow(s, f, n)
        PROVE  \E i \in 1 .. n : CharAt(s, i) /\ i + Width(s, i) = n + 1 /\ f[i - 1]
    <3>1. PICK row \in WellFormed : /\ Len(row) <= n
                                    /\ \A j \in 1 .. Len(row) : s[n - Len(row) + j] \in row[j]
                                    /\ f[n - Len(row)]
      BY <2>3, Zenon DEF EndsRow
    <3> DEFINE i == n - Len(row) + 1
    <3>2. i \in 1 .. n /\ i \in 1 .. Len(s) /\ i - 1 = n - Len(row) /\ i + Len(row) = n + 1
      <4>1. Len(row) \in 1 .. 4 /\ Len(row) <= n
        BY <3>1, RowLengths, Zenon
      <4>2. \A l \in 1 .. 4 : l <= n => /\ n - l + 1 \in 1 .. n /\ n - l + 1 \in 1 .. Len(s)
                                       /\ (n - l + 1) - 1 = n - l /\ n - l + 1 + l = n + 1
        BY <1>0, SMT
      <4>3. QED
        BY <4>1, <4>2, Zenon
    <3>3. RowAt(row, s, i)
      BY <2>2, <3>1, Zenon
    <3> HIDE DEF i
    <3>4. CharAt(s, i) /\ Len(row) = Width(s, i)
      BY <3>2, <3>3, CharRow
    <3>5. QED
      BY <3>1, <3>2, <3>4, Zenon
  <2>4. ASSUME NEW i \in 1 .. n, CharAt(s, i), i + Width(s, i) = n + 1, f[i - 1]
        PROVE  EndsRow(s, f, n)
    <3>1. i \in 1 .. Len(s)
      BY <1>0, SMT
    <3>2. PICK row \in WellFormed : RowAt(row, s, i)
      BY <2>4, <3>1, CharRow
    <3>3. Len(row) = Width(s, i) /\ Len(row) \in 1 .. 4
      BY <3>1, <3>2, CharRow
    <3>4. Len(row) <= n /\ n - Len(row) + 1 = i /\ n - Len(row) = i - 1
      BY <1>0, <2>4, <3>3, SMT
    <3>5. QED
      BY <2>2, <2>4, <3>2, <3>4, Zenon DEF EndsRow
  <2>5. QED
    BY <2>1, <2>3, <2>4, Zenon
<1>6. QED
  BY <1>2, <1>4, <1>5, Zenon

\* isUtf8 accepts exactly the well-formed texts.
LEMMA Utf8Reading ==
  ASSUME NEW s \in Strings
  PROVE  isUtf8(s) <=> IsWellFormed(s)
<1>0. Len(s) \in Nat
  BY SMT DEF Strings
<1> DEFINE N == Len(s)
<1>1. PICK f : /\ isUtf8(s) = f[1]
               /\ f[N + 1]
               /\ \A i \in 1 .. N : f[i] <=> CharAt(s, i) /\ f[i + Width(s, i)]
  BY IsUtf8Reads
<1>2. PICK g : /\ IsWellFormed(s) = g[N]
               /\ g[0]
               /\ \A n \in 1 .. N : g[n] <=>
                    \E i \in 1 .. n : CharAt(s, i) /\ i + Width(s, i) = n + 1 /\ g[i - 1]
  BY WellFormedEnds
<1> HIDE DEF N
<1>3. ASSUME NEW i \in 1 .. N, CharAt(s, i)
      PROVE  Width(s, i) \in 1 .. 4 /\ i + Width(s, i) \in i + 1 .. N + 1
  BY <1>3, CharEnds DEF N
<1>4. ASSUME f[1] PROVE g[N]
  <2> DEFINE S == {k \in Nat : k <= N /\ f[N + 1 - k] /\ g[N - k] => g[N]}
  <2>1. ASSUME NEW k \in Nat, \A m \in Nat : m < k => m \in S PROVE k \in S
    <3>1. SUFFICES ASSUME k <= N, f[N + 1 - k], g[N - k] PROVE g[N]
      BY <2>1
    <3>2. CASE k = 0
      <4>1. N - k = N
        BY <1>0, <3>2, SMT DEF N
      <4>2. QED
        BY <3>1, <4>1, Zenon
    <3>3. CASE k # 0
      <4> DEFINE i == N + 1 - k
      <4>1. i \in 1 .. N /\ i - 1 = N - k
        BY <1>0, <3>1, <3>3, SMT DEF N
      <4>2. CharAt(s, i) /\ f[i + Width(s, i)]
        BY <1>1, <3>1, <4>1, Zenon
      <4> DEFINE w == Width(s, i)
      <4>3. w \in 1 .. 4 /\ i + w \in i + 1 .. N + 1
        BY <1>3, <4>1, <4>2, Zenon
      <4> HIDE DEF w
      <4> DEFINE m == k - w
                 n == i + w - 1
      <4>4. m \in Nat /\ m < k /\ N + 1 - m = i + w /\ N - m = n /\ m <= N /\ n \in 1 .. N /\ i \in 1 .. n /\ i + w = n + 1
        BY <1>0, <3>1, <4>1, <4>3, SMT DEF N
      <4>5. g[n]
        <5> HIDE DEF n, i
        <5>1. g[i - 1]
          BY <3>1, <4>1, Zenon
        <5>2. QED
          BY <1>2, <4>2, <4>4, <5>1, Zenon DEF w
      <4>6. f[N + 1 - m] /\ g[N - m]
        <5>1. f[i + w]
          BY <4>2, Zenon DEF w
        <5> HIDE DEF n, i, m
        <5>2. QED
          BY <4>4, <4>5, <5>1, Zenon
      <4>7. m \in S
        BY <2>1, <4>4, Zenon
      <4>8. QED
        BY <4>4, <4>6, <4>7, Zenon
    <3>4. QED
      BY <3>2, <3>3
  <2> HIDE DEF S
  <2>2. N \in S
    BY <1>0, <2>1, StrongInduct DEF N
  <2>3. N + 1 - N = 1 /\ N - N = 0 /\ N <= N
    BY <1>0, SMT DEF N
  <2>4. QED
    BY <1>2, <1>4, <2>2, <2>3, Zenon DEF S
<1>5. ASSUME g[N] PROVE f[1]
  <2> DEFINE S == {n \in Nat : n <= N /\ g[n] /\ f[n + 1] => f[1]}
  <2>1. ASSUME NEW n \in Nat, \A m \in Nat : m < n => m \in S PROVE n \in S
    <3>1. SUFFICES ASSUME n <= N, g[n], f[n + 1] PROVE f[1]
      BY <2>1
    <3>2. CASE n = 0
      <4>1. n + 1 = 1
        BY <3>2, SMT
      <4>2. QED
        BY <3>1, <4>1, Zenon
    <3>3. CASE n # 0
      <4>1. n \in 1 .. N
        BY <1>0, <3>1, <3>3, SMT DEF N
      <4>2. PICK i \in 1 .. n : CharAt(s, i) /\ i + Width(s, i) = n + 1 /\ g[i - 1]
        BY <1>2, <3>1, <4>1, Zenon
      <4>3. i \in 1 .. N /\ i - 1 \in Nat /\ i - 1 < n /\ i - 1 <= N /\ i - 1 + 1 = i
        BY <1>0, <4>1, SMT DEF N
      <4>4. f[i]
        BY <1>1, <3>1, <4>2, <4>3, Zenon
      <4>5. QED
        BY <2>1, <4>2, <4>3, <4>4, Zenon
    <3>4. QED
      BY <3>2, <3>3
  <2> HIDE DEF S
  <2>2. N \in S
    BY <1>0, <2>1, StrongInduct DEF N
  <2>3. N <= N
    BY <1>0, SMT DEF N
  <2>4. QED
    BY <1>1, <1>5, <2>2, <2>3, Zenon DEF S
<1>6. QED
  BY <1>1, <1>2, <1>4, <1>5, Zenon

-----------------------------------------------------------------------------
(* The items of a list of pairs *)

\* Find returns the first position, or the one after the last.
LEMMA FindFirst ==
  ASSUME NEW s, NEW c, Len(s) \in Nat, NEW i \in 1 .. Len(s) + 1
  PROVE  /\ Find(s, c, i) \in i .. Len(s) + 1
         /\ \A k \in i .. Len(s) : k < Find(s, c, i) => s[k] # c
         /\ Find(s, c, i) <= Len(s) => s[Find(s, c, i)] = c
<1> DEFINE at == {j \in i .. Len(s) : s[j] = c}
<1>1. CASE at = {}
  <2>1. Find(s, c, i) = Len(s) + 1
    BY <1>1, Zenon DEF Find
  <2>2. \A k \in i .. Len(s) : s[k] # c
    BY <1>1, Zenon
  <2>3. QED
    BY <2>1, <2>2, SMT
<1>2. CASE at # {}
  <2>1. at \subseteq Nat
    BY SMT
  <2>2. \E j \in at : \A k \in at : j <= k
    BY <1>2, <2>1, LeastElement, Zenon
  <2>3. Find(s, c, i) = CHOOSE j \in at : \A k \in at : j <= k
    BY <1>2, Zenon DEF Find
  <2>4. Find(s, c, i) \in at /\ \A k \in at : Find(s, c, i) <= k
    BY <2>2, <2>3, Zenon
  <2> DEFINE m == Find(s, c, i)
  <2> HIDE DEF m
  <2>5. m \in i .. Len(s) /\ s[m] = c /\ \A k \in i .. Len(s) : s[k] = c => m <= k
    BY <2>4, Zenon DEF m
  <2>6. m \in i .. Len(s) + 1 /\ (\A k \in i .. Len(s) : k < m => s[k] # c) /\ (m <= Len(s) => s[m] = c)
    BY <2>5, SMT
  <2>7. QED
    BY <2>6, Zenon DEF m
<1>3. QED
  BY <1>1, <1>2

\* Where an item lies.
LEMMA ItemBounds ==
  ASSUME NEW s, Len(s) \in Nat, NEW x \in Items(s)
  PROVE  /\ x = <<x[1], x[2]>> /\ x[1] \in 0 .. Len(s) /\ x[2] \in 1 .. Len(s) + 1 /\ x[1] < x[2]
         /\ x[1] = 0 \/ x[1] \in Commas(s)
         /\ x[2] = Len(s) + 1 \/ x[2] \in Commas(s)
         /\ \A k \in Commas(s) : ~(x[1] < k /\ k < x[2])
<1>1. /\ x \in ({0} \cup Commas(s)) \X (Commas(s) \cup {Len(s) + 1}) /\ x[1] < x[2]
      /\ \A k \in Commas(s) : ~(x[1] < k /\ k < x[2])
  BY Zenon DEF Items
<1>2. x = <<x[1], x[2]>> /\ x[1] \in {0} \cup Commas(s) /\ x[2] \in Commas(s) \cup {Len(s) + 1}
  BY <1>1, SMT
<1>3. Commas(s) \subseteq 1 .. Len(s)
  BY Zenon DEF Commas
<1>4. x[1] \in 0 .. Len(s) /\ x[2] \in 1 .. Len(s) + 1
  BY <1>2, <1>3, SMT
<1>5. QED
  BY <1>1, <1>2, <1>4, Zenon

\* The item that begins at p, and those that begin before its end.
LEMMA ItemAt ==
  ASSUME NEW s, Len(s) \in Nat, NEW p \in 1 .. Len(s), p = 1 \/ s[p - 1] = Comma
  PROVE  /\ <<p - 1, Find(s, Comma, p)>> \in Items(s)
         /\ \A y \in Items(s) : y[1] < Find(s, Comma, p) <=> y[1] < p - 1 \/ y = <<p - 1, Find(s, Comma, p)>>
<1> DEFINE N == Len(s)
           c == Find(s, Comma, p)
           C == Commas(s)
<1>1. /\ c \in p .. N + 1
      /\ \A k \in p .. N : k < c => s[k] # Comma
      /\ c <= N => s[c] = Comma
  <2>1. p \in 1 .. N + 1
    BY SMT
  <2>2. QED
    BY <2>1, FindFirst, Zenon
<1>2. \A k : k \in C <=> k \in 1 .. N /\ s[k] = Comma
  BY Zenon DEF Commas
<1>n. N \in Nat
  OBVIOUS
<1> HIDE DEF N, c, C
<1>3. /\ c = N + 1 \/ c \in C
      /\ \A k \in C : ~(p - 1 < k /\ k < c)
      /\ p - 1 = 0 \/ p - 1 \in C
      /\ p - 1 < c
  <2>1. c = N + 1 \/ c \in C
    <3>1. c = N + 1 \/ (c \in 1 .. N /\ c <= N)
      BY <1>1, <1>n, SMT DEF N
    <3>2. QED
      BY <1>1, <1>2, <3>1, Zenon
  <2>2. ASSUME NEW k \in C, p - 1 < k, k < c PROVE FALSE
    <3>1. k \in 1 .. N /\ s[k] = Comma
      BY <1>2, Zenon
    <3>2. k \in p .. N
      BY <2>2, <3>1, <1>n, SMT DEF N
    <3>3. QED
      BY <1>1, <2>2, <3>1, <3>2, Zenon
  <2>3. p - 1 = 0 \/ p - 1 \in C
    <3>1. p - 1 = 0 \/ (p # 1 /\ p - 1 \in 1 .. N)
      BY <1>n, SMT DEF N
    <3>2. QED
      BY <1>2, <3>1, Zenon
  <2>4. p - 1 < c
    BY <1>1, <1>n, SMT DEF N
  <2>5. QED
    BY <2>1, <2>2, <2>3, <2>4, Zenon
<1>4. <<p - 1, c>> \in Items(s)
  <2> DEFINE x == <<p - 1, c>>
  <2>1. x[1] = p - 1 /\ x[2] = c /\ x \in ({0} \cup C) \X (C \cup {N + 1})
    BY <1>3, SMT
  <2> HIDE DEF x
  <2>2. x \in Items(s)
    BY <1>3, <2>1, Zenon DEF Items, C, N
  <2>3. QED
    BY <2>2 DEF x
<1>5. ASSUME NEW y \in Items(s) PROVE y[1] < c <=> y[1] < p - 1 \/ y = <<p - 1, c>>
  <2>1. /\ y = <<y[1], y[2]>> /\ y[1] \in 0 .. N /\ y[2] \in 1 .. N + 1 /\ y[1] < y[2]
        /\ y[1] = 0 \/ y[1] \in C
        /\ y[2] = N + 1 \/ y[2] \in C
        /\ \A k \in C : ~(y[1] < k /\ k < y[2])
    BY ItemBounds, Zenon DEF N, C
  <2>2. ASSUME y[1] < c, ~(y[1] < p - 1) PROVE y = <<p - 1, c>>
    <3>1. y[1] = p - 1
      <4>1. CASE y[1] \in C
        <5>1. ~(p - 1 < y[1] /\ y[1] < c)
          BY <1>3, <4>1, Zenon
        <5>2. QED
          BY <2>1, <2>2, <5>1, <1>n, SMT DEF N
      <4>2. CASE y[1] = 0
        BY <2>2, <4>2, <1>n, SMT DEF N
      <4>3. QED
        BY <2>1, <4>1, <4>2, Zenon
    <3>2. y[2] = c
      <4>1. y[2] < c => y[2] \in C
        BY <1>1, <1>n, <2>1, SMT DEF N
      <4>2. ~(y[2] < c)
        <5>1. p - 1 < y[2]
          BY <2>1, <3>1, Zenon
        <5>2. QED
          BY <1>3, <4>1, <5>1, Zenon
      <4>3. y[2] > c => c \in C
        BY <1>1, <1>3, <1>n, <2>1, SMT DEF N
      <4>4. ~(y[2] > c)
        <5>1. y[2] > c => c < y[2]
          BY <1>1, <1>n, <2>1, SMT DEF N
        <5>2. QED
          BY <2>1, <2>2, <4>3, <5>1, Zenon
      <4>5. QED
        BY <1>1, <1>n, <2>1, <4>2, <4>4, SMT DEF N
    <3>3. QED
      BY <2>1, <3>1, <3>2, Zenon
  <2>3. ASSUME y[1] < p - 1 PROVE y[1] < c
    BY <1>1, <1>n, <2>1, <2>3, SMT DEF N
  <2>4. ASSUME y = <<p - 1, c>> PROVE y[1] < c
    BY <1>3, <2>4, SMT
  <2>5. QED
    BY <2>2, <2>3, <2>4, Zenon
<1>6. QED
  BY <1>4, <1>5, Zenon DEF c

\* The equal sign the code looks for is the first one of the item.
LEMMA SignAt ==
  ASSUME NEW s, Len(s) \in Nat, NEW p \in 1 .. Len(s), NEW x,
         x[1] = p - 1, x[2] = Find(s, Comma, p)
  PROVE  /\ Sign(s, x) = {} <=> Find(s, Equals, p) >= Find(s, Comma, p)
         /\ Sign(s, x) # {} => FirstSign(s, x) = Find(s, Equals, p)
<1> DEFINE c == Find(s, Comma, p)
           e == Find(s, Equals, p)
           S == Sign(s, x)
<1>1. /\ c \in p .. Len(s) + 1 /\ e \in p .. Len(s) + 1
      /\ \A k \in p .. Len(s) : k < e => s[k] # Equals
      /\ e <= Len(s) => s[e] = Equals
  <2>1. p \in 1 .. Len(s) + 1
    BY SMT
  <2>2. QED
    BY <2>1, FindFirst, Zenon
<1>2. \A k : k \in S <=> k \in p - 1 + 1 .. c - 1 /\ s[k] = Equals
  BY Zenon DEF Sign
<1> HIDE DEF c, e, S
<1>3. p - 1 + 1 = p
  BY SMT
<1>4. \A k : k \in S <=> k \in p .. c - 1 /\ s[k] = Equals
  BY <1>2, <1>3, Zenon
<1>5. \A k \in S : e <= k /\ e < c
  <2>1. ASSUME NEW k \in S PROVE e <= k /\ e < c
    <3>1. k \in p .. c - 1 /\ s[k] = Equals
      BY <1>4, <2>1, Zenon
    <3>2. k \in p .. Len(s)
      BY <1>1, <3>1, SMT
    <3>3. ~(k < e)
      BY <1>1, <3>1, <3>2, Zenon
    <3>4. QED
      BY <1>1, <3>1, <3>3, SMT
  <2>2. QED
    BY <2>1
<1>6. e < c => e \in S
  <2>1. e < c => e <= Len(s) /\ e \in p .. c - 1
    BY <1>1, SMT
  <2>2. QED
    BY <1>1, <1>4, <2>1, Zenon
<1>7. S = {} <=> e >= c
  <2>1. e >= c <=> ~(e < c)
    BY <1>1, SMT
  <2>2. QED
    BY <1>5, <1>6, <2>1, Zenon
<1>8. S # {} => FirstSign(s, x) = e
  <2> SUFFICES ASSUME S # {} PROVE FirstSign(s, x) = e
    OBVIOUS
  <2>1. e \in S /\ \A l \in S : e <= l
    BY <1>5, <1>6, Zenon
  <2>2. FirstSign(s, x) \in S /\ \A l \in S : FirstSign(s, x) <= l
    <3>1. FirstSign(s, x) = CHOOSE k \in S : \A l \in S : k <= l
      BY DEF FirstSign, S
    <3>2. QED
      BY <2>1, <3>1, Zenon
  <2>3. FirstSign(s, x) <= e /\ e <= FirstSign(s, x) /\ FirstSign(s, x) \in Int
    <3>1. S \subseteq Int
      BY <1>4, SMT
    <3>2. QED
      BY <2>1, <2>2, <3>1, Zenon
  <2>4. QED
    BY <1>1, <2>3, SMT
<1>9. QED
  BY <1>7, <1>8, Zenon DEF c, e, S

\* Of the items with a key the first counts.
LEMMA FirstCounts ==
  ASSUME NEW s, Len(s) \in Nat, NEW y \in Items(s), Sign(s, y) # {}
  PROVE  \E x \in Counted(s) : x[1] <= y[1] /\ KeyOf(s, x) = KeyOf(s, y)
<1> DEFINE I == {z \in Items(s) : Sign(s, z) # {} /\ KeyOf(s, z) = KeyOf(s, y)}
           T == {z[1] : z \in I}
<1>1. T \subseteq Nat /\ T # {}
  <2>1. \A z \in I : z[1] \in Nat
    BY ItemBounds, SMT
  <2>2. QED
    BY <2>1, Zenon
<1>2. PICK m \in T : \A l \in T : m <= l
  BY <1>1, LeastElement, Zenon
<1>3. PICK x \in I : m = x[1]
  BY <1>2, Zenon
<1>4. \A z \in I : x[1] <= z[1]
  BY <1>2, <1>3, Zenon
<1>5. x \in Counted(s)
  <2>1. ASSUME NEW z \in Items(s), z[1] < x[1], Sign(s, z) # {} PROVE KeyOf(s, z) # KeyOf(s, x)
    <3>1. SUFFICES ASSUME KeyOf(s, z) = KeyOf(s, x) PROVE FALSE
      OBVIOUS
    <3>2. z \in I /\ x \in Items(s)
      BY <2>1, <3>1, Zenon
    <3>3. x[1] <= z[1] /\ x[1] \in Nat /\ z[1] \in Nat
      BY <1>1, <1>4, <3>2, Zenon
    <3>4. QED
      BY <2>1, <3>3, SMT
  <2>2. QED
    BY <2>1, Zenon DEF Counted
<1>6. QED
  BY <1>4, <1>5, Zenon

-----------------------------------------------------------------------------
(* The loop over a list of pairs *)

PairOf(s, x) == [key |-> KeyOf(s, x), value |-> SubSeq(s, FirstSign(s, x) + 1, x[2] - 1)]

\* The pairs of the items that begin before p.
Before(s, p) == {x \in Counted(s) : x[1] < p - 1}
PairsBefore(s, p) == {PairOf(s, x) : x \in Before(s, p)}

LoopStart == [next |-> 1, pairs |-> {}]
LoopStep(s, was) ==
    LET comma == Find(s, Comma, was.next)
        equal == Find(s, Equals, was.next)
    IN  IF was.next > Len(s) THEN was
        ELSE [next  |-> comma + 1,
              pairs |-> IF equal >= comma THEN was.pairs
                        ELSE Insert(was.pairs, SubSeq(s, was.next, equal - 1), SubSeq(s, equal + 1, comma - 1))]
LoopRun(s, k, f) == f = [n \in 0 .. k |-> IF n = 0 THEN LoopStart ELSE LoopStep(s, f[n - 1])]
LoopTurns(s, k, f) ==
    /\ f = [n \in 0 .. k |-> f[n]]
    /\ f[0] = LoopStart
    /\ \A n \in 1 .. k : f[n] = LoopStep(s, f[n - 1])

\* A run as a first state and one equation per round.
LEMMA LoopRunTurns ==
  ASSUME NEW s, NEW k \in Nat, NEW f
  PROVE  LoopRun(s, k, f) <=> LoopTurns(s, k, f)
<1>1. /\ 0 \in 0 .. k
      /\ \A n : n \in 1 .. k => n \in 0 .. k /\ n # 0
      /\ \A n : n \in 0 .. k => n = 0 \/ n \in 1 .. k
  BY SMT
<1>2. ASSUME LoopRun(s, k, f) PROVE LoopTurns(s, k, f)
  <2>1. f = [n \in 0 .. k |-> IF n = 0 THEN LoopStart ELSE LoopStep(s, f[n - 1])]
    BY <1>2, Zenon DEF LoopRun
  <2>2. \A n \in 0 .. k : f[n] = IF n = 0 THEN LoopStart ELSE LoopStep(s, f[n - 1])
    BY <2>1, Zenon
  <2>3. f = [n \in 0 .. k |-> f[n]]
    BY <2>1, <2>2, Zenon
  <2>4. QED
    BY <1>1, <2>2, <2>3, Zenon DEF LoopTurns
<1>3. ASSUME LoopTurns(s, k, f) PROVE LoopRun(s, k, f)
  <2>1. \A n \in 0 .. k : f[n] = IF n = 0 THEN LoopStart ELSE LoopStep(s, f[n - 1])
    BY <1>1, <1>3, Zenon DEF LoopTurns
  <2>2. f = [n \in 0 .. k |-> f[n]]
    BY <1>3, Zenon DEF LoopTurns
  <2>3. QED
    BY <2>1, <2>2, Zenon DEF LoopRun
<1>4. QED
  BY <1>2, <1>3

\* There is a run of any number of rounds.
LEMMA LoopRunExists ==
  ASSUME NEW s
  PROVE  \A k \in Nat : \E f : LoopRun(s, k, f)
<1> DEFINE S == {k \in Nat : \E f : LoopTurns(s, k, f)}
<1>1. 0 \in S
  <2> DEFINE f == [n \in 0 .. 0 |-> LoopStart]
  <2>1. f = [n \in 0 .. 0 |-> f[n]] /\ f[0] = LoopStart /\ 1 .. 0 = {}
    <3> HIDE DEF LoopStart
    <3>1. QED
      BY SMT
  <2> HIDE DEF f
  <2>2. LoopTurns(s, 0, f)
    BY <2>1, Zenon DEF LoopTurns
  <2>3. QED
    BY <2>2, Zenon
<1>2. ASSUME NEW k \in Nat, k \in S PROVE k + 1 \in S
  <2>1. PICK f : LoopTurns(s, k, f)
    BY <1>2, Zenon
  <2> DEFINE x == LoopStep(s, f[k])
             g == [n \in 0 .. k + 1 |-> IF n = k + 1 THEN x ELSE f[n]]
  <2>2. /\ k + 1 \in 0 .. k + 1 /\ (k + 1) - 1 = k /\ k \in 0 .. k /\ 0 \in 0 .. k
        /\ \A n : n \in 0 .. k => n \in 0 .. k + 1 /\ n # k + 1
        /\ \A n : n \in 1 .. k => n \in 0 .. k /\ n - 1 \in 0 .. k
        /\ \A n : n \in 1 .. k + 1 => n = k + 1 \/ n \in 1 .. k
    BY SMT
  <2> HIDE DEF x
  <2>3. /\ g = [n \in 0 .. k + 1 |-> g[n]] /\ g[k + 1] = x
        /\ \A n \in 0 .. k : g[n] = f[n]
    <3>1. \A n \in 0 .. k + 1 : g[n] = IF n = k + 1 THEN x ELSE f[n]
      BY Zenon
    <3>2. QED
      BY <2>2, <3>1, Zenon
  <2> HIDE DEF g
  <2>4. f[0] = LoopStart /\ \A n \in 1 .. k : f[n] = LoopStep(s, f[n - 1])
    BY <2>1, Zenon DEF LoopTurns
  <2>5. \A n \in 1 .. k + 1 : g[n] = LoopStep(s, g[n - 1])
    <3>1. ASSUME NEW n \in 1 .. k PROVE g[n] = LoopStep(s, g[n - 1])
      BY <2>2, <2>3, <2>4, Zenon
    <3>2. g[k + 1] = LoopStep(s, g[(k + 1) - 1])
      <4>1. g[k] = f[k]
        BY <2>2, <2>3, Zenon
      <4>2. QED
        BY <2>2, <2>3, <4>1, Zenon DEF x
    <3>3. QED
      BY <2>2, <3>1, <3>2, Zenon
  <2>6. LoopTurns(s, k + 1, g)
    BY <2>2, <2>3, <2>4, <2>5, Zenon DEF LoopTurns
  <2>7. k + 1 \in Nat
    OBVIOUS
  <2>8. QED
    BY <2>6, <2>7, Zenon
<1> HIDE DEF S
<1>3. Nat \subseteq S
  BY <1>1, <1>2, Induct
<1>4. QED
  BY <1>3, LoopRunTurns, Zenon DEF S

\* One round adds the item that begins at p, if it counts.
LEMMA RoundAddsItem ==
  ASSUME NEW s, Len(s) \in Nat, NEW p \in 1 .. Len(s), p = 1 \/ s[p - 1] = Comma
  PROVE  LET q == Find(s, Comma, p) + 1
         IN  LoopStep(s, [next |-> p, pairs |-> PairsBefore(s, p)]) = [next |-> q, pairs |-> PairsBefore(s, q)]
<1> DEFINE c == Find(s, Comma, p)
           e == Find(s, Equals, p)
           q == c + 1
           x == <<p - 1, c>>
           old == PairsBefore(s, p)
           was == [next |-> p, pairs |-> old]
           key == SubSeq(s, p, e - 1)
           val == SubSeq(s, e + 1, c - 1)
<1>1. c \in p .. Len(s) + 1 /\ e \in p .. Len(s) + 1
  <2>1. p \in 1 .. Len(s) + 1
    BY SMT
  <2>2. QED
    BY <2>1, FindFirst, Zenon
<1>2. x \in Items(s) /\ \A y \in Items(s) : y[1] < c <=> y[1] < p - 1 \/ y = x
  BY ItemAt, Zenon
<1>3. x[1] = p - 1 /\ x[2] = c
  BY SMT
<1>4. (Sign(s, x) = {} <=> e >= c) /\ (Sign(s, x) # {} => FirstSign(s, x) = e)
  BY <1>3, SignAt, Zenon
<1>5. LoopStep(s, was) = [next |-> q, pairs |-> IF e >= c THEN old ELSE Insert(old, key, val)]
  <2>1. was.next = p /\ was.pairs = old
    BY Zenon
  <2>2. ~(p > Len(s))
    BY SMT
  <2> HIDE DEF was, old
  <2>3. QED
    BY <2>1, <2>2, Zenon DEF LoopStep
<1>6. q - 1 = c /\ p - 1 + 1 = p
  BY <1>1, SMT
<1>7. \A y \in Items(s) : y[1] < q - 1 <=> y[1] < p - 1 \/ y = x
  BY <1>2, <1>6, Zenon
<1>c. \A y : y \in Counted(s) <=>
        /\ y \in Items(s) /\ Sign(s, y) # {}
        /\ \A z \in Items(s) : z[1] < y[1] /\ Sign(s, z) # {} => KeyOf(s, z) # KeyOf(s, y)
  BY Zenon DEF Counted
<1> HIDE DEF c, e, q, x, old, was
<1>8. CASE e >= c
  <2>1. x \notin Counted(s)
    BY <1>4, <1>8, <1>c, Zenon
  <2>2. Before(s, q) = Before(s, p)
    BY <1>7, <1>c, <2>1, Zenon DEF Before
  <2>3. QED
    BY <1>5, <1>8, <2>2, Zenon DEF PairsBefore, old, q, c, was
<1>9. CASE ~(e >= c)
  <2>1. Sign(s, x) # {} /\ FirstSign(s, x) = e
    BY <1>4, <1>9, Zenon
  <2>2. KeyOf(s, x) = key
    BY <1>3, <1>6, <2>1, Zenon DEF KeyOf
  <2>3. PairOf(s, x) = [key |-> key, value |-> val]
    BY <1>3, <2>1, <2>2, Zenon DEF PairOf
  <2> DEFINE new == [key |-> key, value |-> val]
  <2> HIDE DEF key, val
  <2>4. (\E r \in old : r.key = key) <=> x \notin Counted(s)
    <3>1. ASSUME NEW r \in old, r.key = key PROVE x \notin Counted(s)
      <4>1. PICK y \in Before(s, p) : r = PairOf(s, y)
        BY <3>1, Zenon DEF old, PairsBefore
      <4>2. y \in Counted(s) /\ y[1] < p - 1
        BY <4>1, Zenon DEF Before
      <4>3. KeyOf(s, y) = key
        BY <3>1, <4>1, Zenon DEF PairOf
      <4>4. y[1] < x[1] /\ y \in Items(s) /\ Sign(s, y) # {}
        BY <1>3, <1>c, <4>2, Zenon
      <4>5. QED
        BY <1>c, <2>2, <4>3, <4>4, Zenon
    <3>2. ASSUME x \notin Counted(s) PROVE \E r \in old : r.key = key
      <4>1. PICK z \in Items(s) : z[1] < x[1] /\ Sign(s, z) # {} /\ KeyOf(s, z) = KeyOf(s, x)
        BY <1>2, <1>c, <2>1, <3>2, Zenon
      <4>2. PICK y \in Counted(s) : y[1] <= z[1] /\ KeyOf(s, y) = KeyOf(s, z)
        BY <4>1, FirstCounts, Zenon
      <4>3. y[1] < p - 1
        <5>1. y \in Items(s)
          BY <1>c, <4>2, Zenon
        <5>2. y[1] \in 0 .. Len(s) /\ z[1] \in 0 .. Len(s)
          BY <5>1, ItemBounds, Zenon
        <5>3. z[1] < p - 1 /\ y[1] <= z[1]
          BY <1>3, <4>1, <4>2, Zenon
        <5>4. QED
          BY <5>2, <5>3, SMT
      <4>4. PairOf(s, y) \in old /\ PairOf(s, y).key = key
        BY <2>2, <4>1, <4>2, <4>3, Zenon DEF old, PairsBefore, Before, PairOf
      <4>5. QED
        BY <4>4, Zenon
    <3>3. QED
      BY <3>1, <3>2, Zenon
  <2>5. PairsBefore(s, q) = Insert(old, key, val)
    <3>1. CASE x \in Counted(s)
      <4>1. Before(s, q) = Before(s, p) \cup {x}
        BY <1>7, <1>c, <3>1, Zenon DEF Before
      <4>2. PairsBefore(s, q) = old \cup {new}
        <5>1. PairOf(s, x) = new
          BY <2>3, Zenon
        <5> HIDE DEF new
        <5>2. PairsBefore(s, q) = {PairOf(s, y) : y \in Before(s, p) \cup {x}}
          BY <4>1, Zenon DEF PairsBefore
        <5>3. old = {PairOf(s, y) : y \in Before(s, p)}
          BY Zenon DEF PairsBefore, old
        <5>4. \A r : r \in PairsBefore(s, q) <=> r \in old \/ r = new
          BY <5>1, <5>2, <5>3, Zenon
        <5>5. QED
          BY <5>4, Zenon
      <4>3. QED
        BY <2>4, <3>1, <4>2, Zenon DEF Insert
    <3>2. CASE x \notin Counted(s)
      <4>1. Before(s, q) = Before(s, p)
        BY <1>7, <1>c, <3>2, Zenon DEF Before
      <4>2. PairsBefore(s, q) = old
        BY <4>1, Zenon DEF PairsBefore, old
      <4>3. QED
        BY <2>4, <3>2, <4>2, Zenon DEF Insert
    <3>3. QED
      BY <3>1, <3>2
  <2>6. QED
    BY <1>5, <1>9, <2>5, Zenon DEF old, q, c, was
<1>10. QED
  BY <1>8, <1>9

\* PairsOf yields the items that count, in whatever number of rounds.
LEMMA PairsOfItems ==
  ASSUME NEW s, Len(s) \in Nat
  PROVE  PairsOf(s) = {PairOf(s, x) : x \in Counted(s)}
<1> DEFINE f == CHOOSE g : LoopRun(s, Len(s), g)
           N == Len(s)
<1>1. LoopRun(s, N, f)
  BY LoopRunExists, Zenon
<1>2. PairsOf(s) = f[N].pairs
  BY DEF PairsOf, LoopRun, LoopStep, LoopStart
<1> HIDE DEF f
<1>3. f[0] = LoopStart /\ \A n \in 1 .. N : f[n] = LoopStep(s, f[n - 1])
  <2>1. LoopTurns(s, N, f)
    BY <1>1, LoopRunTurns, Zenon
  <2>2. QED
    BY <2>1, Zenon DEF LoopTurns
<1>n. N \in Nat
  OBVIOUS
<1> DEFINE State(p) == [next |-> p, pairs |-> PairsBefore(s, p)]
           Inv(n) == \E p \in 1 .. N + 2 : /\ f[n] = State(p)
                                           /\ p = 1 \/ p = N + 2 \/ s[p - 1] = Comma
                                           /\ p > N \/ p >= n + 1
           S == {n \in Nat : n <= N => Inv(n)}
<1>4. 0 \in S
  <2>1. PairsBefore(s, 1) = {}
    <3>1. ASSUME NEW x \in Counted(s) PROVE ~(x[1] < 1 - 1)
      <4>1. x \in Items(s)
        BY Zenon DEF Counted
      <4>2. x[1] \in 0 .. N
        BY <4>1, ItemBounds, Zenon
      <4>3. QED
        BY <4>2, SMT
    <3>2. QED
      BY <3>1, Zenon DEF PairsBefore, Before
  <2>2. f[0] = State(1)
    BY <1>3, <2>1, Zenon DEF LoopStart
  <2>3. 1 \in 1 .. N + 2 /\ 1 >= 0 + 1
    BY <1>n, SMT
  <2>4. QED
    BY <2>2, <2>3, Zenon
<1>5. ASSUME NEW n \in Nat, n \in S PROVE n + 1 \in S
  <2> SUFFICES ASSUME n + 1 <= N PROVE Inv(n + 1)
    <3>1. n + 1 \in Nat
      OBVIOUS
    <3>2. QED
      BY <3>1, Zenon
  <2>1. n <= N /\ n + 1 \in 1 .. N /\ (n + 1) - 1 = n
    BY <1>n, SMT
  <2>2. PICK p \in 1 .. N + 2 : /\ f[n] = State(p)
                                /\ p = 1 \/ p = N + 2 \/ s[p - 1] = Comma
                                /\ p > N \/ p >= n + 1
    BY <1>5, <2>1, Zenon
  <2>3. f[n + 1] = LoopStep(s, State(p))
    BY <1>3, <2>1, <2>2, Zenon
  <2>4. CASE p > N
    <3>1. LoopStep(s, State(p)) = State(p)
      <4>1. State(p).next = p
        BY Zenon
      <4> HIDE DEF State
      <4>2. QED
        BY <2>4, <4>1, Zenon DEF LoopStep
    <3>2. QED
      BY <2>2, <2>3, <2>4, <3>1, Zenon
  <2>5. CASE ~(p > N)
    <3>1. p \in 1 .. N /\ p # N + 2
      BY <2>5, <1>n, SMT
    <3> DEFINE q == Find(s, Comma, p) + 1
    <3>2. LoopStep(s, State(p)) = State(q)
      BY <2>2, <3>1, RoundAddsItem, Zenon
    <3>3. /\ Find(s, Comma, p) \in p .. N + 1
          /\ Find(s, Comma, p) <= N => s[Find(s, Comma, p)] = Comma
      <4>1. p \in 1 .. N + 1
        BY <1>n, <3>1, SMT
      <4>2. QED
        BY <4>1, FindFirst, Zenon
    <3>4. q - 1 = Find(s, Comma, p) /\ q \in 1 .. N + 2 /\ (q = N + 2 \/ Find(s, Comma, p) <= N) /\ q >= p + 1
      BY <1>n, <3>1, <3>3, SMT
    <3>5. q = 1 \/ q = N + 2 \/ s[q - 1] = Comma
      BY <3>3, <3>4, Zenon
    <3>6. q > N \/ q >= (n + 1) + 1
      <4>1. p >= n + 1
        BY <2>2, <2>5, Zenon
      <4> HIDE DEF q
      <4>2. QED
        BY <1>n, <3>1, <3>4, <4>1, SMT
    <3> HIDE DEF q, State
    <3>7. f[n + 1] = State(q)
      BY <2>3, <3>2, Zenon
    <3>8. QED
      BY <3>4, <3>5, <3>6, <3>7, Zenon
  <2>6. QED
    BY <2>4, <2>5
<1> HIDE DEF S, Inv
<1>6. N \in S
  BY <1>n, <1>4, <1>5, Induct
<1>7. Inv(N)
  <2>1. N <= N
    BY <1>n, SMT
  <2>2. QED
    BY <1>6, <2>1, Zenon DEF S
<1>8. PICK p \in 1 .. N + 2 : f[N] = State(p) /\ (p > N \/ p >= N + 1)
  BY <1>7, Zenon DEF Inv
<1>9. f[N].pairs = PairsBefore(s, p)
  <2>1. f[N] = [next |-> p, pairs |-> PairsBefore(s, p)]
    BY <1>8, Zenon
  <2>2. QED
    BY <2>1, SMT
<1>10. Before(s, p) = Counted(s)
  <2>1. ASSUME NEW x \in Counted(s) PROVE x[1] < p - 1
    <3>1. x \in Items(s) /\ Sign(s, x) # {}
      BY Zenon DEF Counted
    <3>2. x[1] \in 0 .. N /\ x[2] \in 1 .. N + 1 /\ x[1] < x[2]
      BY <3>1, ItemBounds, Zenon
    <3>3. PICK k \in x[1] + 1 .. x[2] - 1 : s[k] = Equals
      BY <3>1, Zenon DEF Sign
    <3>4. QED
      BY <1>8, <1>n, <3>2, <3>3, SMT
  <2>2. QED
    BY <2>1, Zenon DEF Before
<1>11. QED
  BY <1>2, <1>9, <1>10, Zenon DEF PairsBefore

-----------------------------------------------------------------------------
(* Escapes *)

\* The round of percentDecode at t[i], and its rounds from b on.
DecodeStep(t, f, i) ==
    IF EscapeAt(t, i) THEN <<16 * HexValue(t[i + 1]) + HexValue(t[i + 2])>> \o f[i + 3] ELSE <<t[i]>> \o f[i + 1]
DecodeRun(t, b, f) == f = [i \in b .. Len(t) + 1 |-> IF i = Len(t) + 1 THEN <<>> ELSE DecodeStep(t, f, i)]
DecodeTurns(t, b, f) ==
    /\ f = [i \in b .. Len(t) + 1 |-> f[i]]
    /\ f[Len(t) + 1] = <<>>
    /\ \A i \in b .. Len(t) : f[i] = DecodeStep(t, f, i)

\* A run as a last value and one equation per round.
LEMMA DecodeRunTurns ==
  ASSUME NEW t, NEW f, Len(t) \in Nat, NEW b \in 1 .. Len(t) + 1
  PROVE  DecodeRun(t, b, f) <=> DecodeTurns(t, b, f)
<1> DEFINE e == Len(t) + 1
<1>1. /\ e \in b .. e
      /\ \A i : i \in b .. Len(t) => i \in b .. e /\ i # e
      /\ \A i : i \in b .. e => i = e \/ i \in b .. Len(t)
  BY SMT
<1> HIDE DEF e
<1>2. ASSUME DecodeRun(t, b, f) PROVE DecodeTurns(t, b, f)
  <2>1. f = [i \in b .. e |-> IF i = e THEN <<>> ELSE DecodeStep(t, f, i)]
    BY <1>2, Zenon DEF DecodeRun, e
  <2>2. \A i \in b .. e : f[i] = IF i = e THEN <<>> ELSE DecodeStep(t, f, i)
    BY <2>1, Zenon
  <2>3. f = [i \in b .. e |-> f[i]]
    BY <2>1, <2>2, Zenon
  <2>4. f[e] = <<>> /\ \A i \in b .. Len(t) : f[i] = DecodeStep(t, f, i)
    BY <1>1, <2>2, Zenon
  <2>5. QED
    BY <2>3, <2>4, Zenon DEF DecodeTurns, e
<1>3. ASSUME DecodeTurns(t, b, f) PROVE DecodeRun(t, b, f)
  <2>1. f = [i \in b .. e |-> f[i]] /\ f[e] = <<>> /\ \A i \in b .. Len(t) : f[i] = DecodeStep(t, f, i)
    BY <1>3, Zenon DEF DecodeTurns, e
  <2>2. \A i \in b .. e : f[i] = IF i = e THEN <<>> ELSE DecodeStep(t, f, i)
    BY <1>1, <2>1, Zenon
  <2>3. f = [i \in b .. e |-> IF i = e THEN <<>> ELSE DecodeStep(t, f, i)]
    BY <2>1, <2>2, Zenon
  <2>4. QED
    BY <2>3, Zenon DEF DecodeRun, e
<1>4. QED
  BY <1>2, <1>3

\* There is a run: it is extended to the left, one position at a time.
LEMMA DecodeRunExists ==
  ASSUME NEW t, Len(t) \in Nat
  PROVE  \E f : DecodeRun(t, 1, f)
<1> DEFINE N == Len(t)
           S == {k \in Nat : k <= N => \E f : DecodeTurns(t, N + 1 - k, f)}
<1>0. N \in Nat
  OBVIOUS
<1> HIDE DEF N
<1>1. 0 \in S
  <2> DEFINE f == [i \in N + 1 .. N + 1 |-> <<>>]
  <2>1. f = [i \in N + 1 .. N + 1 |-> f[i]] /\ f[N + 1] = <<>>
    BY <1>0, SMT
  <2>2. N + 1 .. N = {} /\ N + 1 - 0 = N + 1
    BY <1>0, SMT
  <2> HIDE DEF f
  <2>3. DecodeTurns(t, N + 1, f)
    BY <2>1, <2>2, Zenon DEF DecodeTurns, N
  <2>4. QED
    BY <2>2, <2>3, Zenon
<1>2. ASSUME NEW k \in Nat, k \in S PROVE k + 1 \in S
  <2> SUFFICES ASSUME k + 1 <= N PROVE \E f : DecodeTurns(t, N + 1 - (k + 1), f)
    OBVIOUS
  <2> DEFINE b == N + 1 - k
             a == N - k
  <2>0. /\ N + 1 - (k + 1) = a /\ a \in 1 .. N /\ b \in 1 .. N + 1 /\ k <= N
        /\ a \in a .. N + 1 /\ N + 1 \in a .. N + 1 /\ N + 1 \in b .. N + 1 /\ a # N + 1 /\ a + 1 = b
        /\ \A i : i \in a .. N + 1 => i = a \/ i \in b .. N + 1
        /\ \A i : i \in b .. N + 1 => i \in a .. N + 1 /\ i # a
        /\ \A i : i \in a .. N => i = a \/ i \in b .. N
        /\ \A i : i \in b .. N => i \in b .. N + 1 /\ i \in 1 .. N
    BY <1>0, SMT
  <2>1. PICK f : DecodeTurns(t, b, f)
    BY <1>2, <2>0, Zenon
  <2> HIDE DEF a, b
  <2> DEFINE x == DecodeStep(t, f, a)
             g == [i \in a .. N + 1 |-> IF i = a THEN x ELSE f[i]]
  <2>2. f[N + 1] = <<>> /\ \A i \in b .. N : f[i] = DecodeStep(t, f, i)
    BY <2>1, Zenon DEF DecodeTurns, N
  <2> HIDE DEF x
  <2>3. g = [i \in a .. N + 1 |-> g[i]] /\ g[a] = x /\ (\A i \in b .. N + 1 : g[i] = f[i]) /\ g[N + 1] = f[N + 1]
    <3>1. \A i \in a .. N + 1 : g[i] = IF i = a THEN x ELSE f[i]
      BY Zenon
    <3>2. QED
      BY <2>0, <3>1, Zenon
  <2> HIDE DEF g
  <2>4. \A i \in a .. N : DecodeStep(t, g, i) = DecodeStep(t, f, i)
    <3>1. SUFFICES ASSUME NEW i \in a .. N PROVE DecodeStep(t, g, i) = DecodeStep(t, f, i)
      OBVIOUS
    <3>2. i \in 1 .. N /\ i + 1 \in b .. N + 1 /\ (i + 2 <= N => i + 3 \in b .. N + 1)
      BY <1>0, <2>0, SMT
    <3>3. CASE EscapeAt(t, i)
      <4>1. i + 2 <= N
        BY <3>3, Zenon DEF EscapeAt, N
      <4>2. g[i + 3] = f[i + 3]
        BY <2>3, <3>2, <4>1, Zenon
      <4>3. QED
        BY <3>3, <4>2, Zenon DEF DecodeStep
    <3>4. CASE ~EscapeAt(t, i)
      BY <2>3, <3>2, <3>4, Zenon DEF DecodeStep
    <3>5. QED
      BY <3>3, <3>4, Zenon
  <2>5. DecodeTurns(t, a, g)
    <3>1. \A i \in a .. N : g[i] = DecodeStep(t, g, i)
      BY <2>0, <2>2, <2>3, <2>4, Zenon DEF x
    <3>2. QED
      BY <3>1, <2>2, <2>3, Zenon DEF DecodeTurns, N
  <2>6. QED
    BY <2>0, <2>5, Zenon
<1> HIDE DEF S
<1>3. N \in S
  BY <1>0, <1>1, <1>2, Induct
<1>4. N + 1 - N = 1 /\ N <= N /\ 1 \in 1 .. N + 1
  BY <1>0, SMT
<1>5. PICK f : DecodeTurns(t, 1, f)
  BY <1>3, <1>4, Zenon DEF S
<1>6. QED
  BY <1>0, <1>4, <1>5, DecodeRunTurns, Zenon DEF N

\* The value up to position e, looked at byte by byte.
ValueStep(s, first, last, w, k) == IF Kept(s, k, first, last) THEN Append(w, Decoded(s, k, last)) ELSE w
ValueRun(s, first, last, e, f) ==
    f = [k \in first .. e |-> IF k = first THEN <<>> ELSE ValueStep(s, first, last, f[k - 1], k)]
ValueTurns(s, first, last, e, f) ==
    /\ f = [k \in first .. e |-> f[k]]
    /\ f[first] = <<>>
    /\ \A k \in first + 1 .. e : f[k] = ValueStep(s, first, last, f[k - 1], k)

\* A run as a first value and one equation per byte.
LEMMA ValueRunTurns ==
  ASSUME NEW s, NEW first \in Nat, NEW last, NEW e \in Nat, first <= e, NEW f
  PROVE  ValueRun(s, first, last, e, f) <=> ValueTurns(s, first, last, e, f)
<1>1. /\ first \in first .. e
      /\ \A k : k \in first + 1 .. e => k \in first .. e /\ k # first
      /\ \A k : k \in first .. e => k = first \/ k \in first + 1 .. e
  BY SMT
<1>2. ASSUME ValueRun(s, first, last, e, f) PROVE ValueTurns(s, first, last, e, f)
  <2>1. f = [k \in first .. e |-> IF k = first THEN <<>> ELSE ValueStep(s, first, last, f[k - 1], k)]
    BY <1>2, Zenon DEF ValueRun
  <2>2. \A k \in first .. e : f[k] = IF k = first THEN <<>> ELSE ValueStep(s, first, last, f[k - 1], k)
    BY <2>1, Zenon
  <2>3. f = [k \in first .. e |-> f[k]]
    BY <2>1, <2>2, Zenon
  <2>4. f[first] = <<>> /\ \A k \in first + 1 .. e : f[k] = ValueStep(s, first, last, f[k - 1], k)
    BY <1>1, <2>2, Zenon
  <2>5. QED
    BY <2>3, <2>4, Zenon DEF ValueTurns
<1>3. ASSUME ValueTurns(s, first, last, e, f) PROVE ValueRun(s, first, last, e, f)
  <2>1. /\ f = [k \in first .. e |-> f[k]]
        /\ f[first] = <<>>
        /\ \A k \in first + 1 .. e : f[k] = ValueStep(s, first, last, f[k - 1], k)
    BY <1>3, Zenon DEF ValueTurns
  <2>2. \A k \in first .. e : f[k] = IF k = first THEN <<>> ELSE ValueStep(s, first, last, f[k - 1], k)
    BY <1>1, <2>1, Zenon
  <2>3. f = [k \in first .. e |-> IF k = first THEN <<>> ELSE ValueStep(s, first, last, f[k - 1], k)]
    BY <2>1, <2>2, Zenon
  <2>4. QED
    BY <2>3, Zenon DEF ValueRun
<1>4. QED
  BY <1>2, <1>3

\* There is a run of any length.
LEMMA ValueRunExists ==
  ASSUME NEW s, NEW first \in Nat, NEW last
  PROVE  \A n \in Nat : \E f : ValueRun(s, first, last, first + n, f)
<1> DEFINE S == {n \in Nat : \E f : ValueTurns(s, first, last, first + n, f)}
<1>1. 0 \in S
  <2> DEFINE f == [k \in first .. first |-> <<>>]
  <2>1. f = [k \in first .. first |-> f[k]] /\ f[first] = <<>>
    BY SMT
  <2>2. first + 1 .. first = {} /\ first + 0 = first
    BY SMT
  <2> HIDE DEF f
  <2>3. ValueTurns(s, first, last, first, f)
    BY <2>1, <2>2, Zenon DEF ValueTurns
  <2>4. QED
    BY <2>2, <2>3, Zenon
<1>2. ASSUME NEW n \in Nat, n \in S PROVE n + 1 \in S
  <2> DEFINE e == first + n
             d == first + (n + 1)
  <2>1. PICK f : ValueTurns(s, first, last, e, f)
    BY <1>2, Zenon
  <2> DEFINE x == ValueStep(s, first, last, f[e], d)
             g == [k \in first .. d |-> IF k = d THEN x ELSE f[k]]
  <2>2. /\ d \in first .. d /\ d - 1 = e /\ e \in first .. e /\ first \in first .. e
        /\ \A k : k \in first .. e => k \in first .. d /\ k # d
        /\ \A k : k \in first + 1 .. e => k \in first .. e /\ k - 1 \in first .. e
        /\ \A k : k \in first + 1 .. d => k = d \/ k \in first + 1 .. e
    BY SMT
  <2> HIDE DEF x, d, e
  <2>3. /\ g = [k \in first .. d |-> g[k]] /\ g[d] = x
        /\ \A k \in first .. e : g[k] = f[k]
    <3>1. \A k \in first .. d : g[k] = IF k = d THEN x ELSE f[k]
      BY Zenon
    <3>2. QED
      BY <2>2, <3>1, Zenon
  <2> HIDE DEF g
  <2>4. f[first] = <<>> /\ \A k \in first + 1 .. e : f[k] = ValueStep(s, first, last, f[k - 1], k)
    BY <2>1, Zenon DEF ValueTurns
  <2>5. \A k \in first + 1 .. d : g[k] = ValueStep(s, first, last, g[k - 1], k)
    <3>1. ASSUME NEW k \in first + 1 .. e PROVE g[k] = ValueStep(s, first, last, g[k - 1], k)
      BY <2>2, <2>3, <2>4, Zenon
    <3>2. g[d] = ValueStep(s, first, last, g[d - 1], d)
      <4>1. g[d - 1] = f[e]
        BY <2>2, <2>3, Zenon
      <4>2. QED
        BY <2>3, <4>1, Zenon DEF x
    <3>3. QED
      BY <2>2, <3>1, <3>2, Zenon
  <2>6. ValueTurns(s, first, last, d, g)
    BY <2>2, <2>3, <2>4, <2>5, Zenon DEF ValueTurns
  <2>7. n + 1 \in Nat
    OBVIOUS
  <2>8. QED
    BY <2>6, <2>7, Zenon DEF d
<1> HIDE DEF S
<1>3. Nat \subseteq S
  BY <1>1, <1>2, Induct
<1>4. ASSUME NEW n \in Nat PROVE \E f : ValueRun(s, first, last, first + n, f)
  <2>1. PICK f : ValueTurns(s, first, last, first + n, f)
    BY <1>3, Zenon DEF S
  <2>2. first + n \in Nat /\ first <= first + n
    BY SMT
  <2>3. QED
    BY <2>1, <2>2, ValueRunTurns, Zenon
<1>5. QED
  BY <1>4

\* A hexadecimal digit has a value and is no percent sign.
LEMMA Hex == \A c \in HexDigits : HexValue(c) \in Int /\ c # Percent
  BY SMT DEF HexDigits, HexValue, Percent

\* Concatenation is associative.
LEMMA ConcatThree ==
  ASSUME NEW x \in Seq(Int), NEW y \in Seq(Int), NEW z \in Seq(Int)
  PROVE  (x \o y) \o z = x \o (y \o z)
  BY SMT

\* Reading a value from left to right, escape by escape, is looking at each of its
\* bytes alone: what has been decoded, followed by what is still to come, does not
\* change from one kept position to the next.
LEMMA ValueDecoded ==
  ASSUME NEW s \in Strings, NEW a \in 1 .. Len(s), NEW b \in a + 1 .. Len(s) + 1
  PROVE  percentDecode(SubSeq(s, a + 1, b - 1)) = ValueBetween(s, a, b)
<1> DEFINE t == SubSeq(s, a + 1, b - 1)
           M == b - a - 1
<1>0. Len(s) \in Nat /\ \A j \in 1 .. Len(s) : s[j] \in Byte
  BY SMT DEF Strings
<1>1. M \in Nat /\ a \in Nat /\ b \in Nat /\ b - 1 = a + M
  BY <1>0, SMT
<1>2. Len(t) = M /\ \A i \in 1 .. M : t[i] = s[a + i]
  <2>1. a + 1 \in Int /\ b - 1 \in Int /\ \A i \in a + 1 .. b - 1 : s[i] \in Byte
    BY <1>0, SMT
  <2>2. /\ Len(t) = IF a + 1 <= b - 1 THEN b - 1 - (a + 1) + 1 ELSE 0
        /\ \A i \in 1 .. b - 1 - (a + 1) + 1 : t[i] = s[a + 1 + i - 1]
    BY <2>1, SubSeqProperties
  <2>3. b - 1 - (a + 1) + 1 = M /\ (IF a + 1 <= b - 1 THEN b - 1 - (a + 1) + 1 ELSE 0) = M
    BY <1>0, SMT
  <2>4. \A i \in 1 .. M : a + 1 + i - 1 = a + i
    BY <1>1, SMT
  <2>5. QED
    BY <2>2, <2>3, <2>4, Zenon
<1> DEFINE f == CHOOSE g : DecodeRun(t, 1, g)
           v == CHOOSE g : ValueRun(s, a, b, b - 1, g)
<1>3. percentDecode(t) = f[1]
  BY DEF percentDecode, DecodeRun, DecodeStep
<1>4. ValueBetween(s, a, b) = v[b - 1]
  BY DEF ValueBetween, ValueRun, ValueStep
<1> HIDE DEF t
<1>5. f[M + 1] = <<>> /\ \A i \in 1 .. M : f[i] = DecodeStep(t, f, i)
  <2>1. DecodeRun(t, 1, f)
    BY <1>1, <1>2, DecodeRunExists, Zenon
  <2>2. 1 \in 1 .. Len(t) + 1
    BY <1>1, <1>2, SMT
  <2>3. DecodeTurns(t, 1, f)
    BY <1>1, <1>2, <2>1, <2>2, DecodeRunTurns, Zenon
  <2>4. QED
    BY <1>2, <2>3, Zenon DEF DecodeTurns
<1>6. v[a] = <<>> /\ \A k \in a + 1 .. b - 1 : v[k] = ValueStep(s, a, b, v[k - 1], k)
  <2>1. ValueRun(s, a, b, b - 1, v)
    BY <1>1, ValueRunExists, Zenon
  <2>2. b - 1 \in Nat /\ a <= b - 1
    BY <1>1, SMT
  <2>3. ValueTurns(s, a, b, b - 1, v)
    BY <1>1, <2>1, <2>2, ValueRunTurns, Zenon
  <2>4. QED
    BY <2>3, Zenon DEF ValueTurns
<1> HIDE DEF f, v
<1> DEFINE E(i) == Escape(s, a + i, b)
           D(i) == Decoded(s, a + i, b)
           K(i) == Kept(s, a + i, a, b)
           u == [i \in 0 .. M |-> v[a + i]]
<1>7. \A i \in 1 .. M : E(i) <=> s[a + i] = Percent /\ i + 2 <= M /\ s[a + i + 1] \in HexDigits /\ s[a + i + 2] \in HexDigits
  <2>1. \A i \in 1 .. M : a + i + 2 < b <=> i + 2 <= M
    BY <1>0, SMT
  <2>2. QED
    BY <2>1, Zenon DEF Escape
<1>8. \A i \in 1 .. M : EscapeAt(t, i) <=> E(i)
  <2>1. ASSUME NEW i \in 1 .. M, i + 2 <= M PROVE t[i + 1] = s[a + i + 1] /\ t[i + 2] = s[a + i + 2]
    <3>1. i + 1 \in 1 .. M /\ i + 2 \in 1 .. M /\ a + (i + 1) = a + i + 1 /\ a + (i + 2) = a + i + 2
      BY <1>1, <2>1, SMT
    <3> HIDE DEF M
    <3>2. t[i + 1] = s[a + (i + 1)] /\ t[i + 2] = s[a + (i + 2)]
      BY <1>2, <3>1, Zenon
    <3>3. QED
      BY <3>1, <3>2, Zenon
  <2> HIDE DEF E, M
  <2>2. QED
    BY <1>2, <1>7, <2>1, Zenon DEF EscapeAt
<1>9. \A i \in 1 .. M : D(i) \in Int /\ DecodeStep(t, f, i) = <<D(i)>> \o f[IF E(i) THEN i + 3 ELSE i + 1]
  <2> SUFFICES ASSUME NEW i \in 1 .. M
               PROVE  D(i) \in Int /\ DecodeStep(t, f, i) = <<D(i)>> \o f[IF E(i) THEN i + 3 ELSE i + 1]
    OBVIOUS
  <2>1. CASE E(i)
    <3>1. i + 2 <= M /\ s[a + i + 1] \in HexDigits /\ s[a + i + 2] \in HexDigits
      BY <1>7, <2>1, Zenon
    <3>2. i + 1 \in 1 .. M /\ i + 2 \in 1 .. M /\ a + (i + 1) = a + i + 1 /\ a + (i + 2) = a + i + 2
      BY <1>1, <3>1, SMT
    <3>3. t[i + 1] = s[a + i + 1] /\ t[i + 2] = s[a + i + 2]
      <4> HIDE DEF M
      <4>1. t[i + 1] = s[a + (i + 1)] /\ t[i + 2] = s[a + (i + 2)]
        BY <1>2, <3>2, Zenon
      <4>2. QED
        BY <3>2, <4>1, Zenon
    <3>4. D(i) = 16 * HexValue(s[a + i + 1]) + HexValue(s[a + i + 2])
      BY <2>1, Zenon DEF Decoded
    <3>5. HexValue(s[a + i + 1]) \in Int /\ HexValue(s[a + i + 2]) \in Int
      BY <3>1, Hex, Zenon
    <3>6. D(i) \in Int
      <4>1. \A x, y \in Int : 16 * x + y \in Int
        BY SMT
      <4>2. QED
        BY <3>4, <3>5, <4>1
    <3>7. DecodeStep(t, f, i) = <<D(i)>> \o f[i + 3]
      <4> HIDE DEF D
      <4>1. QED
        BY <1>8, <2>1, <3>3, <3>4, Zenon DEF DecodeStep
    <3>8. QED
      BY <2>1, <3>6, <3>7, Zenon
  <2>2. CASE ~E(i)
    <3>1. D(i) = s[a + i]
      BY <2>2, Zenon DEF Decoded
    <3>2. a + i \in 1 .. Len(s)
      BY <1>0, <1>1, SMT
    <3>3. s[a + i] \in Byte
      BY <1>0, <3>2, Zenon
    <3>4. D(i) \in Int
      <4>1. Byte \subseteq Int
        BY SMT DEF Byte
      <4>2. QED
        BY <3>1, <3>3, <4>1, Zenon
    <3>5. DecodeStep(t, f, i) = <<D(i)>> \o f[i + 1]
      <4> HIDE DEF D
      <4>1. QED
        BY <1>2, <1>8, <2>2, <3>1, Zenon DEF DecodeStep
    <3>6. QED
      BY <2>2, <3>4, <3>5, Zenon
  <2>3. QED
    BY <2>1, <2>2
<1>10. u[0] = <<>> /\ \A i \in 1 .. M : u[i] = IF K(i) THEN Append(u[i - 1], D(i)) ELSE u[i - 1]
  <2>1. /\ 0 \in 0 .. M /\ a + 0 = a
        /\ \A i \in 1 .. M : /\ i \in 0 .. M /\ i - 1 \in 0 .. M
                             /\ a + i \in a + 1 .. b - 1 /\ a + (i - 1) = (a + i) - 1
    BY <1>1, SMT
  <2>2. \A i \in 0 .. M : u[i] = v[a + i]
    BY Zenon
  <2> HIDE DEF u, M
  <2>3. QED
    BY <1>6, <2>1, <2>2, Zenon DEF ValueStep
<1>11. u[M] = v[b - 1]
  BY <1>1, SMT
<1>12. K(1) /\ \A i \in 1 .. M : K(i) =>
         /\ i = M \/ (~E(i) => K(i + 1))
         /\ E(i) => i + 2 <= M /\ ~K(i + 1) /\ ~K(i + 2) /\ (i + 2 < M => K(i + 3))
  <2>1. \A i \in Nat : K(i) <=> (i > 1 => ~E(i - 1)) /\ (i > 2 => ~E(i - 2))
    <3>1. \A i \in Nat : /\ a + i - 1 > a <=> i > 1
                         /\ a + i - 2 > a <=> i > 2
                         /\ a + i - 1 = a + (i - 1) /\ a + i - 2 = a + (i - 2)
      BY <1>1, SMT
    <3>2. 1 .. 2 = {1, 2}
      BY SMT
    <3>3. \A i : K(i) <=> \A d \in {1, 2} : (a + i) - d > a => ~Escape(s, (a + i) - d, b)
      BY <3>2, Zenon DEF Kept
    <3>4. \A i \in Nat : /\ (a + i) - 1 > a <=> i > 1
                         /\ (a + i) - 2 > a <=> i > 2
                         /\ (a + i) - 1 = a + (i - 1) /\ (a + i) - 2 = a + (i - 2)
      BY <1>1, SMT
    <3> HIDE DEF K
    <3>5. QED
      BY <3>3, <3>4, Zenon
  <2>2. K(1)
    <3>1. 1 \in Nat /\ ~(1 > 1) /\ ~(1 > 2)
      BY SMT
    <3> HIDE DEF K, E
    <3>2. QED
      BY <2>1, <3>1, Zenon
  <2>3. ASSUME NEW i \in 1 .. M, K(i), ~E(i), i # M PROVE K(i + 1)
    <3>1. i + 1 \in Nat /\ (i + 1) - 1 = i /\ (i + 1) - 2 = i - 1 /\ (i + 1 > 2 => i > 1) /\ i \in Nat
      BY <1>1, SMT
    <3> HIDE DEF K, E, M
    <3>2. QED
      BY <2>1, <2>3, <3>1, Zenon
  <2>4. ASSUME NEW i \in 1 .. M, K(i), E(i)
        PROVE  i + 2 <= M /\ ~K(i + 1) /\ ~K(i + 2) /\ (i + 2 < M => K(i + 3))
    <3>1. i + 2 <= M /\ s[a + i + 1] \in HexDigits /\ s[a + i + 2] \in HexDigits
      BY <1>7, <2>4, Zenon
    <3>2. s[a + i + 1] # Percent /\ s[a + i + 2] # Percent
      BY <3>1, Hex, Zenon
    <3>3. /\ i \in Nat /\ i + 1 \in Nat /\ i + 2 \in Nat /\ i + 3 \in Nat
          /\ i + 1 \in 1 .. M /\ i + 2 \in 1 .. M /\ i + 1 > 1 /\ i + 2 > 2
          /\ (i + 1) - 1 = i /\ (i + 2) - 2 = i /\ (i + 3) - 1 = i + 2 /\ (i + 3) - 2 = i + 1
          /\ a + (i + 1) = a + i + 1 /\ a + (i + 2) = a + i + 2
      BY <1>1, <3>1, SMT
    <3>4. ~E(i + 1) /\ ~E(i + 2)
      <4> HIDE DEF E
      <4>1. s[a + (i + 1)] # Percent /\ s[a + (i + 2)] # Percent
        BY <3>2, <3>3, Zenon
      <4>2. QED
        BY <1>7, <3>3, <4>1, Zenon
    <3> HIDE DEF K, E, M
    <3>5. ~K(i + 1) /\ ~K(i + 2) /\ K(i + 3)
      BY <2>1, <2>4, <3>3, <3>4, Zenon
    <3>6. QED
      BY <3>1, <3>5, Zenon
  <2> HIDE DEF K, E
  <2>5. QED
    BY <2>2, <2>3, <2>4, Zenon
<1>d. \A i \in 1 .. M : D(i) \in Int /\ f[i] = <<D(i)>> \o f[IF E(i) THEN i + 3 ELSE i + 1]
  BY <1>5, <1>9, Zenon
<1>e. \A i \in 1 .. M : E(i) => i + 2 <= M
  BY <1>7, Zenon
<1> HIDE DEF u, E, D, K, M
<1>m. <<>> \in Seq(Int) /\ 0 \in Nat
  BY SMT
<1>13. \A n \in Nat : n <= M => u[n] \in Seq(Int)
  <2> DEFINE S == {n \in Nat : n <= M => u[n] \in Seq(Int)}
  <2>1. 0 \in S
    BY <1>10, <1>m, Zenon
  <2>2. ASSUME NEW n \in Nat, n \in S PROVE n + 1 \in S
    <3> SUFFICES ASSUME n + 1 <= M PROVE u[n + 1] \in Seq(Int)
      OBVIOUS
    <3>1. n + 1 \in 1 .. M /\ (n + 1) - 1 = n /\ n <= M
      BY <1>1, SMT
    <3>2. u[n] \in Seq(Int)
      BY <2>2, <3>1
    <3>3. D(n + 1) \in Int
      BY <1>d, <3>1, Zenon
    <3>4. Append(u[n], D(n + 1)) \in Seq(Int)
      BY <3>2, <3>3, SMT
    <3>5. QED
      BY <1>10, <3>1, <3>2, <3>4, Zenon
  <2> HIDE DEF S
  <2>3. Nat \subseteq S
    BY <2>1, <2>2, Induct
  <2>4. QED
    BY <2>3 DEF S
<1>14. \A k \in Nat : k <= M => f[M + 1 - k] \in Seq(Int)
  <2> DEFINE S == {k \in Nat : k <= M => f[M + 1 - k] \in Seq(Int)}
  <2>1. ASSUME NEW k \in Nat, \A m \in Nat : m < k => m \in S PROVE k \in S
    <3> SUFFICES ASSUME k <= M PROVE f[M + 1 - k] \in Seq(Int)
      OBVIOUS
    <3>1. CASE k = 0
      <4>1. M + 1 - k = M + 1
        BY <1>1, <3>1, SMT
      <4>2. QED
        BY <1>5, <1>m, <4>1, Zenon
    <3>2. CASE k # 0
      <4> DEFINE i == M + 1 - k
                 j == IF E(i) THEN i + 3 ELSE i + 1
                 m == M + 1 - j
      <4>1. i \in 1 .. M
        BY <1>1, <3>2, SMT
      <4>2. m \in Nat /\ m < k /\ m <= M /\ M + 1 - m = j
        <5>1. CASE E(i)
          <6>1. i + 2 <= M
            BY <1>e, <4>1, <5>1, Zenon
          <6>2. QED
            BY <1>1, <4>1, <5>1, <6>1, SMT
        <5>2. CASE ~E(i)
          BY <1>1, <4>1, <5>2, SMT
        <5>3. QED
          BY <5>1, <5>2
      <4>3. m \in S
        BY <2>1, <4>2, Zenon
      <4>4. f[j] \in Seq(Int)
        <5> HIDE DEF m, j
        <5>1. QED
          BY <4>2, <4>3, Zenon
      <4>5. D(i) \in Int /\ f[i] = <<D(i)>> \o f[j]
        BY <1>d, <4>1, Zenon
      <4> HIDE DEF i, j
      <4>6. <<D(i)>> \in Seq(Int)
        BY <4>5, SMT
      <4>7. f[i] \in Seq(Int)
        BY <4>4, <4>5, <4>6, ConcatProperties, Zenon
      <4>8. QED
        BY <4>7, Zenon DEF i
    <3>3. QED
      BY <3>1, <3>2
  <2> HIDE DEF S
  <2>2. Nat \subseteq S
    BY <2>1, StrongInduct
  <2>3. QED
    BY <2>2 DEF S
<1>15. \A i \in 1 .. M + 1 : f[i] \in Seq(Int)
  <2>1. \A i \in 1 .. M + 1 : M + 1 - i \in Nat /\ M + 1 - i <= M /\ M + 1 - (M + 1 - i) = i
    BY <1>1, SMT
  <2>2. QED
    BY <1>14, <2>1, Zenon
\* What is decoded and what is to come.
<1>16. ASSUME NEW i \in 1 .. M, K(i), NEW j \in 1 .. M + 1, f[i] = <<D(i)>> \o f[j], u[j - 1] = u[i]
       PROVE  u[i - 1] \o f[i] = u[j - 1] \o f[j]
  <2>1. u[i - 1] \in Seq(Int) /\ D(i) \in Int /\ f[j] \in Seq(Int)
    <3>1. i - 1 \in Nat /\ i - 1 <= M
      BY <1>1, SMT
    <3>2. QED
      BY <1>13, <1>15, <1>d, <3>1, Zenon
  <2>2. u[i] = Append(u[i - 1], D(i))
    BY <1>10, <1>16, Zenon
  <2>3. u[i] = u[i - 1] \o <<D(i)>>
    BY <2>1, <2>2, AppendIsConcat, Zenon
  <2>4. <<D(i)>> \in Seq(Int)
    BY <2>1, SMT
  <2>5. (u[i - 1] \o <<D(i)>>) \o f[j] = u[i - 1] \o (<<D(i)>> \o f[j])
    BY <2>1, <2>4, ConcatThree, Zenon
  <2>6. QED
    BY <1>16, <2>3, <2>5, Zenon
<1>17. \A k \in Nat : k <= M /\ (k > 0 => K(M + 1 - k)) => u[M - k] \o f[M + 1 - k] = u[M]
  <2> DEFINE S == {k \in Nat : k <= M /\ (k > 0 => K(M + 1 - k)) => u[M - k] \o f[M + 1 - k] = u[M]}
  <2>1. ASSUME NEW k \in Nat, \A m \in Nat : m < k => m \in S PROVE k \in S
    <3> SUFFICES ASSUME k <= M, k > 0 => K(M + 1 - k) PROVE u[M - k] \o f[M + 1 - k] = u[M]
      OBVIOUS
    <3>1. CASE k = 0
      <4>1. M + 1 - k = M + 1 /\ M - k = M /\ M <= M
        BY <1>1, <3>1, SMT
      <4>2. u[M] \in Seq(Int)
        BY <1>1, <1>13, <4>1
      <4>3. u[M] \o <<>> = u[M]
        BY <4>2, ConcatEmptySeq, Zenon
      <4>4. QED
        BY <1>5, <4>1, <4>3, Zenon
    <3>2. CASE k # 0
      <4> DEFINE i == M + 1 - k
                 j == IF E(i) THEN i + 3 ELSE i + 1
                 m == M + 1 - j
      <4>1. i \in 1 .. M /\ i - 1 = M - k /\ k > 0
        BY <1>1, <3>2, SMT
      <4>2. K(i)
        BY <4>1, Zenon
      <4>3. f[i] = <<D(i)>> \o f[j]
        BY <1>d, <4>1, Zenon
      <4> HIDE DEF i
      <4>4. /\ j \in 1 .. M + 1 /\ u[j - 1] = u[i]
            /\ m \in Nat /\ m < k /\ m <= M /\ M + 1 - m = j /\ M - m = j - 1 /\ (m > 0 => K(j))
        <5>1. CASE E(i)
          <6>1. i + 2 <= M /\ ~K(i + 1) /\ ~K(i + 2) /\ (i + 2 < M => K(i + 3))
            BY <1>12, <4>1, <4>2, <5>1, Zenon
          <6>2. i + 1 \in 1 .. M /\ i + 2 \in 1 .. M /\ (i + 1) - 1 = i /\ (i + 2) - 1 = i + 1 /\ (i + 3) - 1 = i + 2
            BY <1>1, <4>1, <6>1, SMT
          <6>3. u[i + 1] = u[i] /\ u[i + 2] = u[i + 1]
            BY <1>10, <6>1, <6>2, Zenon
          <6>4. j = i + 3
            BY <5>1
          <6>5. m > 0 => i + 2 < M
            BY <1>1, <4>1, <6>1, <6>4, SMT DEF i
          <6>6. m \in Nat /\ m < k /\ m <= M /\ M + 1 - m = j /\ M - m = j - 1 /\ j \in 1 .. M + 1
            BY <1>1, <4>1, <6>1, <6>4, SMT DEF i
          <6> HIDE DEF j, m
          <6>7. QED
            BY <6>1, <6>2, <6>3, <6>4, <6>5, <6>6, Zenon
        <5>2. CASE ~E(i)
          <6>1. j = i + 1
            BY <5>2
          <6>2. m > 0 => i # M
            BY <1>1, <4>1, <6>1, SMT DEF i
          <6>3. m \in Nat /\ m < k /\ m <= M /\ M + 1 - m = j /\ M - m = j - 1 /\ j \in 1 .. M + 1 /\ j - 1 = i
            BY <1>1, <4>1, <6>1, SMT DEF i
          <6>4. i # M => K(i + 1)
            BY <1>12, <4>1, <4>2, <5>2, Zenon
          <6> HIDE DEF j, m
          <6>5. QED
            BY <6>1, <6>2, <6>3, <6>4, Zenon
        <5>3. QED
          BY <5>1, <5>2
      <4> HIDE DEF j, m
      <4>5. u[i - 1] \o f[i] = u[j - 1] \o f[j]
        BY <1>16, <4>1, <4>2, <4>3, <4>4, Zenon
      <4>6. m \in S
        BY <2>1, <4>4, Zenon
      <4>7. u[M - m] \o f[M + 1 - m] = u[M]
        BY <4>4, <4>6, Zenon
      <4>8. QED
        BY <4>1, <4>4, <4>5, <4>7, Zenon DEF i
    <3>3. QED
      BY <3>1, <3>2
  <2> HIDE DEF S
  <2>2. Nat \subseteq S
    BY <2>1, StrongInduct
  <2>3. QED
    BY <2>2 DEF S
<1>18. u[0] \o f[1] = u[M]
  <2>1. M - M = 0 /\ M + 1 - M = 1 /\ M <= M
    BY <1>1, SMT
  <2>2. QED
    BY <1>1, <1>12, <1>17, <2>1, Zenon
<1>19. f[1] = u[M]
  <2>1. 1 \in 1 .. M + 1
    BY <1>1, SMT
  <2>2. f[1] \in Seq(Int)
    BY <1>15, <2>1, Zenon
  <2>3. <<>> \o f[1] = f[1]
    BY <2>2, ConcatEmptySeq, Zenon
  <2>4. QED
    BY <1>10, <1>18, <2>3, Zenon
<1>20. QED
  BY <1>3, <1>4, <1>11, <1>19, Zenon DEF t

-----------------------------------------------------------------------------
(* Texts *)

\* The pairs that are read are the counted items, decoded.
LEMMA PairsReading ==
  ASSUME NEW s \in Strings
  PROVE  parseUrlEncodedKeyValueString(s) =
             {[key |-> KeyOf(s, x), value |-> ValueBetween(s, FirstSign(s, x), x[2])] : x \in Counted(s)}
<1>0. Len(s) \in Nat
  BY SMT DEF Strings
<1>1. PairsOf(s) = {PairOf(s, x) : x \in Counted(s)}
  BY <1>0, PairsOfItems, Zenon
<1>2. ASSUME NEW x \in Counted(s)
      PROVE  /\ PairOf(s, x).key = KeyOf(s, x)
             /\ percentDecode(PairOf(s, x).value) = ValueBetween(s, FirstSign(s, x), x[2])
  <2>1. x \in Items(s) /\ Sign(s, x) # {}
    BY Zenon DEF Counted
  <2>2. x[1] \in 0 .. Len(s) /\ x[2] \in 1 .. Len(s) + 1
    BY <1>0, <2>1, ItemBounds, Zenon
  <2>3. FirstSign(s, x) \in Sign(s, x)
    <3>1. Sign(s, x) \subseteq Nat
      BY <1>0, <2>2, SMT DEF Sign
    <3>2. \E k \in Sign(s, x) : \A l \in Sign(s, x) : k <= l
      BY <2>1, <3>1, LeastElement, Zenon
    <3>3. QED
      BY <3>2, Zenon DEF FirstSign
  <2>4. FirstSign(s, x) \in x[1] + 1 .. x[2] - 1
    BY <2>3, Zenon DEF Sign
  <2>5. FirstSign(s, x) \in 1 .. Len(s) /\ x[2] \in FirstSign(s, x) + 1 .. Len(s) + 1
    BY <1>0, <2>2, <2>4, SMT
  <2>6. percentDecode(SubSeq(s, FirstSign(s, x) + 1, x[2] - 1)) = ValueBetween(s, FirstSign(s, x), x[2])
    BY <2>5, ValueDecoded, Zenon
  <2>7. QED
    BY <2>6, Zenon DEF PairOf
<1>3. parseUrlEncodedKeyValueString(s) =
        {[key |-> p.key, value |-> percentDecode(p.value)] : p \in {PairOf(s, x) : x \in Counted(s)}}
  BY <1>1, Zenon DEF parseUrlEncodedKeyValueString
<1>4. ASSUME NEW x \in Counted(s)
      PROVE  [key |-> PairOf(s, x).key, value |-> percentDecode(PairOf(s, x).value)] =
             [key |-> KeyOf(s, x), value |-> ValueBetween(s, FirstSign(s, x), x[2])]
  BY <1>2, Zenon
<1> DEFINE A(p) == [key |-> p.key, value |-> percentDecode(p.value)]
           B(x) == [key |-> KeyOf(s, x), value |-> ValueBetween(s, FirstSign(s, x), x[2])]
           P(x) == PairOf(s, x)
           C == Counted(s)
<1>5. \A x \in C : A(P(x)) = B(x)
  BY <1>4
<1>6. parseUrlEncodedKeyValueString(s) = {A(p) : p \in {P(x) : x \in C}}
  BY <1>3
<1> HIDE DEF A, B, P, C
<1>7. {A(p) : p \in {P(x) : x \in C}} = {B(x) : x \in C}
  BY <1>5, Zenon
<1>8. QED
  BY <1>6, <1>7 DEF B, C

\* A text is a string of bytes, of the kind it began as.
TextInv == kind \in DOMAIN Alphabet /\ text \in Strings

\* A text stays one when it grows.
LEMMA TextStep == TextInv /\ [TextNext]_textVars => TextInv'
<1> SUFFICES ASSUME TextInv, [TextNext]_textVars PROVE TextInv'
  OBVIOUS
<1>1. CASE UNCHANGED textVars
  BY <1>1, Zenon DEF textVars, TextInv
<1>2. CASE TextNext
  <2>1. PICK c \in Alphabet[kind] : Extend(c)
    BY <1>2, Zenon DEF TextNext
  <2>2. c \in Byte
    BY AlphabetAssumption, Zenon DEF TextInv
  <2>3. text' = Append(text, c) /\ kind' = kind
    BY <2>1, Zenon DEF Extend
  <2>4. text' \in Seq(Byte)
    <3>1. text \in Seq(Byte)
      BY Zenon DEF TextInv, Strings
    <3>2. QED
      BY <2>2, <2>3, <3>1, SMT
  <2>5. QED
    BY <2>3, <2>4, Zenon DEF TextInv, Strings
<1>3. QED
  BY <1>1, <1>2, Zenon

\* Both readings of a text are as defined.
LEMMA TextsRead == TextInv => TextAsDefined
<1> SUFFICES ASSUME text \in Strings PROVE TextAsDefined
  BY DEF TextInv
<1>1. Utf8AsDefined
  BY Utf8Reading, Zenon DEF Utf8AsDefined
<1>2. PairsAsDefined
  BY PairsReading, Zenon DEF PairsAsDefined
<1>3. QED
  BY <1>1, <1>2, Zenon DEF TextAsDefined

\* For texts of any length over any bytes, isUtf8 accepts exactly what the Unicode
\* standard calls well-formed, and parseUrlEncodedKeyValueString reads exactly the
\* pairs of the comma-separated items, decoded.
THEOREM TextsAsDefined == TextSpec => []TextAsDefined
<1>1. TextInit => TextInv
  BY EmptySeq, Zenon DEF TextInit, TextInv, Strings
<1>2. QED
  BY <1>1, TextStep, TextsRead, PTL DEF TextSpec
=============================================================================
