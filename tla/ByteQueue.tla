------------------------------ MODULE ByteQueue ------------------------------
(* What a byte buffer promises its two users: the bytes come out in the order   *)
(* in which they were accepted, each of them once, never more than the memory   *)
(* holds.  RingBuf and Uart are shown to implement it.  The bytes that    *)
(* are offered are numbered, so two of them are never confused.                 *)
EXTENDS Naturals, Sequences

CONSTANTS Capacity,     \* bytes the buffer holds
          MaxReq        \* bytes of one call

VARIABLES queue,        \* the bytes accepted and not taken
          sent,         \* the number of the next byte that is accepted
          out,          \* the bytes the last read took
          seen          \* the bytes the last look returned

vars == <<queue, sent, out, seen>>

Init == queue = <<>> /\ sent = 0 /\ out = <<>> /\ seen = <<>>

Put(n) == /\ Len(queue) + n <= Capacity
          /\ queue' = queue \o [i \in 1..n |-> sent + i - 1]
          /\ sent' = sent + n
          /\ UNCHANGED <<out, seen>>

Get(n) == /\ n <= Len(queue)
          /\ out' = SubSeq(queue, 1, n)
          /\ queue' = SubSeq(queue, n + 1, Len(queue))
          /\ UNCHANGED <<sent, seen>>

Look(n) == /\ n <= Len(queue)
           /\ seen' = SubSeq(queue, 1, n)
           /\ UNCHANGED <<queue, sent, out>>

Flush == queue' = <<>> /\ UNCHANGED <<sent, out, seen>>

Next == \/ \E n \in 0..MaxReq : Put(n) \/ Get(n) \/ Look(n)
        \/ Flush

Spec == Init /\ [][Next]_vars
==============================================================================
