--------------------------- MODULE MessageChannel ---------------------------
(***************************************************************************)
(* What the coordinator's message path promises its clients, without       *)
(* chunks, queue or reassembly.  A worker process submits payloads; the    *)
(* coordinator hands some of them to its dispatcher.  Any payload may be   *)
(* lost, but one that is handed over is handed over whole, once, and after *)
(* every earlier payload of the same process that is handed over.          *)
(***************************************************************************)
EXTENDS Integers, Sequences

CONSTANTS Pids,      \* worker process ids
          Payloads,  \* serialized commands, abstracted to values
          Encode(_)  \* the bytes of a payload

VARIABLES submitted, \* submitted[p] is the sequence of payloads p sent
          handed     \* what reached the dispatcher, in order

vars == <<submitted, handed>>

Init == /\ submitted = [p \in Pids |-> << >>]
        /\ handed = << >>

Submit(p, pl) == /\ submitted' = [submitted EXCEPT ![p] = Append(@, pl)]
                 /\ UNCHANGED handed

(***************************************************************************)
(* The id-th payload of p is handed over only if no payload that p         *)
(* submitted at the same time or later already was.                        *)
(***************************************************************************)
HandOver(p, id) ==
    /\ \A i \in 1 .. Len(handed) : handed[i].pid = p => handed[i].msgId < id
    /\ handed' = Append(handed, [pid |-> p, msgId |-> id,
                                 data |-> Encode(submitted[p][id])])
    /\ UNCHANGED submitted

Next == \E p \in Pids : \/ \E pl \in Payloads : Submit(p, pl)
                        \/ \E id \in 1 .. Len(submitted[p]) : HandOver(p, id)

Spec == Init /\ [][Next]_vars
=============================================================================
