------------------------------- MODULE RingBuf -------------------------------
(* The ring buffer of utils/util_ring_buf.c, between the main program and an    *)
(* interrupt handler (ISR).  One of the two pushes and the other pops: which,   *)
(* is chosen at the start, for the comments of the functions that use the DMA   *)
(* controller allow the ISR on the other side only.                             *)
(*                                                                              *)
(* A step is what no interrupt can split: a critical section (halIntLock ..     *)
(* halIntUnlock), or the accesses to one shared variable outside of one.  The   *)
(* whole of a call made by the ISR is one step.  The DMA controller copies one  *)
(* byte in a step.  A byte is its number in the stream that is pushed; a slot   *)
(* of the memory is its distance from "start".                                  *)
EXTENDS Naturals, Sequences

CONSTANTS Size,         \* end - start
          MaxReq,       \* bound: the bytes of one call
          MaxBytes,     \* bound: the bytes pushed in a behaviour
          DmaLate       \* may the last DMA transfer of a call outlive the call?

VARIABLES mem, head, tail, numStoredBytes,      \* RingBufCtrl_t
          mainPushes,   \* the main program pushes, the ISR pops; or the reverse
          pc,           \* where the main program is in its call
          call,         \* the call's locals: n, firstChunk, and the slot it reads
          dma,          \* the DMA channel: next slot, bytes left, next byte pushed
          held,         \* the bytes this call has copied to its destination
          sent, out, seen       \* what the users have seen, as in ByteQueue

vars == <<mem, head, tail, numStoredBytes, mainPushes, pc, call, dma, held,
          sent, out, seen>>

Slots == 0..(Size - 1)
Least(a, b) == IF a <= b THEN a ELSE b
Free == Size - numStoredBytes

(* A pointer that reaches "end" continues at "start"; no step passes it.        *)
Around(p) == IF p >= Size THEN p - Size ELSE p

(* The n bytes from slot p on.                                                  *)
BytesAt(p, n) == [i \in 1..n |-> mem[Around(p + i - 1)]]

NoCall == [n |-> 0, first |-> 0, at |-> 0]

ringBufInit ==
    /\ mem = [s \in Slots |-> 0]
    /\ head = 0
    /\ tail = 0
    /\ numStoredBytes = 0

(* Aborts the channels and binds them to the table: no transfer under way.      *)
ringBufDmaInit == dma = [at |-> 0, left |-> 0, byte |-> 0]

Init == /\ ringBufInit
        /\ ringBufDmaInit
        /\ mainPushes \in BOOLEAN
        /\ pc = "idle" /\ call = NoCall /\ held = <<>>
        /\ sent = 0 /\ out = <<>> /\ seen = <<>>

PusherRuns == mainPushes => pc = "idle"
PopperRuns == ~mainPushes => pc = "idle"
MainPops == ~mainPushes /\ pc = "idle"

------------------------------------------------------------------------------
(* The calls that hold the interrupt lock from end to end.                      *)

Store(n) ==
    /\ n > 0
    /\ sent + n <= MaxBytes
    /\ mem' = [s \in Slots |->
                 LET i == IF s >= head THEN s - head ELSE s + Size - head
                 IN  IF i < n THEN sent + i ELSE mem[s]]
    /\ head' = Around(head + n)
    /\ numStoredBytes' = numStoredBytes + n
    /\ sent' = sent + n
    /\ UNCHANGED <<tail, mainPushes, pc, call, dma, held, out, seen>>

Take(n) ==
    /\ out' = BytesAt(tail, n)
    /\ tail' = Around(tail + n)
    /\ numStoredBytes' = numStoredBytes - n
    /\ UNCHANGED <<mem, head, mainPushes, pc, call, dma, held, sent, seen>>

(* Does not check for room: its caller does.                                    *)
ringBufPushByte == PusherRuns /\ Free > 0 /\ Store(1)

ringBufPush(k) == PusherRuns /\ Store(Least(k, Free))

(* The static source is the register of a FIFO: every read gives the next byte. *)
ringBufPushStaticSrc(k) == PusherRuns /\ Store(Least(k, Free))

ringBufPop(k) == PopperRuns /\ Take(Least(k, numStoredBytes))

ringBufPopStaticDst(k) == PopperRuns /\ Take(Least(k, numStoredBytes))

------------------------------------------------------------------------------
(* The calls of the main program that work outside the lock.                    *)

(* Copies the byte and moves the tail; does not check that there is one.        *)
ringBufPopByte ==
    /\ MainPops
    /\ numStoredBytes > 0
    /\ held' = <<mem[tail]>>
    /\ tail' = Around(tail + 1)
    /\ pc' = "popped"
    /\ UNCHANGED <<mem, head, numStoredBytes, mainPushes, call, dma, sent, out, seen>>

PopByteCounts ==
    /\ pc = "popped"
    /\ numStoredBytes' = numStoredBytes - 1
    /\ out' = held
    /\ held' = <<>>
    /\ pc' = "idle"
    /\ UNCHANGED <<mem, head, tail, mainPushes, call, dma, sent, seen>>

(* pPeek is taken from the tail before the lock.                                *)
ringBufPeek(k) ==
    /\ MainPops
    /\ call' = [n |-> k, first |-> 0, at |-> tail]
    /\ pc' = "peek"
    /\ UNCHANGED <<mem, head, tail, numStoredBytes, mainPushes, dma, held, sent, out, seen>>

PeekCopies ==
    /\ pc = "peek"
    /\ seen' = BytesAt(call.at, Least(call.n, numStoredBytes))
    /\ pc' = "idle"
    /\ call' = NoCall
    /\ UNCHANGED <<mem, head, tail, numStoredBytes, mainPushes, dma, held, sent, out>>

(* Moves the tail before the lock, and again under it.                          *)
ringBufFlush ==
    /\ MainPops
    /\ tail' = head
    /\ pc' = "flush"
    /\ UNCHANGED <<mem, head, numStoredBytes, mainPushes, call, dma, held, sent, out, seen>>

FlushCounts_once ==
    /\ pc = "flush"
    /\ numStoredBytes' = 0
    /\ pc' = "idle"
    /\ UNCHANGED <<mem, head, tail, mainPushes, call, dma, held, sent, out, seen>>

FlushCounts ==
    /\ pc = "flush"
    /\ tail' = head
    /\ numStoredBytes' = 0
    /\ pc' = "idle"
    /\ UNCHANGED <<mem, head, mainPushes, call, dma, held, sent, out, seen>>

------------------------------------------------------------------------------
(* The calls of the main program that copy by DMA, in one transfer, or in two   *)
(* when the bytes go around the end of the memory.                              *)

StartDmaCall(n, p) ==
    /\ n > 0
    /\ call' = [n |-> n, first |-> Least(n, Size - p), at |-> p]
    /\ pc' = "first"
    /\ UNCHANGED <<mem, head, tail, numStoredBytes, mainPushes, dma, held, sent, out, seen>>

(* n is computed under the lock.                                                *)
ringBufPushDma(k) ==
    /\ mainPushes /\ pc = "idle"
    /\ sent + Least(k, Free) <= MaxBytes
    /\ StartDmaCall(Least(k, Free), head)

ringBufPushStaticSrcDma(k) ==
    /\ mainPushes /\ pc = "idle"
    /\ sent + Least(k, Free) <= MaxBytes
    /\ StartDmaCall(Least(k, Free), head)

(* Does not check that there are that many bytes: its caller does.              *)
ringBufPopStaticDstDma(k) ==
    /\ MainPops
    /\ k <= numStoredBytes
    /\ StartDmaCall(k, tail)

LastChunk == call.n - call.first

MovePointer(p) ==
    IF mainPushes THEN head' = p /\ UNCHANGED tail
                  ELSE tail' = p /\ UNCHANGED head

(* Waits for the channel, then arms it with the first chunk.                    *)
ArmFirst ==
    /\ pc = "first"
    /\ dma.left = 0
    /\ dma' = [at |-> call.at, left |-> call.first, byte |-> sent]
    /\ held' = <<>>
    /\ IF LastChunk > 0
       THEN pc' = "second" /\ UNCHANGED <<head, tail>>
       ELSE pc' = "count" /\ MovePointer(Around(call.at + call.first))
    /\ UNCHANGED <<mem, numStoredBytes, mainPushes, call, sent, out, seen>>

ArmSecond_nowait ==
    /\ pc = "second"
    /\ dma' = [at |-> 0, left |-> LastChunk, byte |-> sent + call.first]
    /\ MovePointer(LastChunk)
    /\ pc' = "count"
    /\ UNCHANGED <<mem, numStoredBytes, mainPushes, call, held, sent, out, seen>>

ArmSecond ==
    /\ pc = "second"
    /\ dma.left = 0
    /\ dma' = [at |-> 0, left |-> LastChunk, byte |-> sent + call.first]
    /\ MovePointer(LastChunk)
    /\ pc' = "count"
    /\ UNCHANGED <<mem, numStoredBytes, mainPushes, call, held, sent, out, seen>>

(* The count is changed without waiting for the last transfer.                  *)
CountDma ==
    /\ pc = "count"
    /\ ~DmaLate => dma.left = 0
    /\ IF mainPushes
       THEN /\ numStoredBytes' = numStoredBytes + call.n
            /\ sent' = sent + call.n
            /\ UNCHANGED out
       ELSE /\ numStoredBytes' = numStoredBytes - call.n
            /\ out' = held
            /\ UNCHANGED sent
    /\ pc' = "idle"
    /\ call' = NoCall
    /\ UNCHANGED <<mem, head, tail, mainPushes, dma, held, seen>>

(* The DMA controller, beside the program.                                      *)
DmaCopies ==
    /\ dma.left > 0
    /\ dma' = [at |-> dma.at + 1, left |-> dma.left - 1, byte |-> dma.byte + 1]
    /\ IF mainPushes
       THEN mem' = [mem EXCEPT ![dma.at] = dma.byte] /\ UNCHANGED held
       ELSE held' = Append(held, mem[dma.at]) /\ UNCHANGED mem
    /\ UNCHANGED <<head, tail, numStoredBytes, mainPushes, pc, call, sent, out, seen>>

Next == \/ ringBufPushByte
        \/ \E k \in 1..MaxReq : \/ ringBufPush(k)
                                \/ ringBufPushStaticSrc(k)
                                \/ ringBufPop(k)
                                \/ ringBufPopStaticDst(k)
                                \/ ringBufPeek(k)
                                \/ ringBufPushDma(k)
                                \/ ringBufPushStaticSrcDma(k)
                                \/ ringBufPopStaticDstDma(k)
        \/ ringBufPopByte \/ PopByteCounts
        \/ PeekCopies
        \/ ringBufFlush \/ FlushCounts
        \/ ArmFirst \/ ArmSecond \/ CountDma \/ DmaCopies

Spec == Init /\ [][Next]_vars

------------------------------------------------------------------------------
(* Every variable stays in its range; a pointer never rests at "end".           *)
TypeOK ==
    /\ mem \in [Slots -> Nat]
    /\ head \in Slots /\ tail \in Slots
    /\ numStoredBytes \in 0..Size
    /\ mainPushes \in BOOLEAN
    /\ pc \in {"idle", "popped", "peek", "flush", "first", "second", "count"}
    /\ call \in [n : Nat, first : Nat, at : Slots]
    /\ dma \in [at : 0..Size, left : 0..Size, byte : Nat]
    /\ held \in Seq(Nat) /\ out \in Seq(Nat) /\ seen \in Seq(Nat)
    /\ sent \in Nat

(* Bytes by which the two pointers are ahead of the count.                      *)
Uncounted == IF pc = "popped" THEN 1 ELSE IF pc = "count" THEN call.n ELSE 0

(* Whatever the interrupts do between the steps of a call, the count is what    *)
(* the two pointers enclose, but for what the running call has moved and not    *)
(* counted: util_ring_buf.c moves a pointer and changes the count in different  *)
(* steps, and nothing compares them afterwards.                                 *)
PointersAgree ==
    pc # "flush" =>
        head = Around(tail + (IF mainPushes THEN numStoredBytes + Uncounted
                                            ELSE numStoredBytes - Uncounted))

(* The stored bytes, counted from the side the ISR works at.                    *)
Stored ==
    LET behind == IF head >= numStoredBytes THEN head - numStoredBytes
                                            ELSE head + Size - numStoredBytes
    IN  BytesAt(IF mainPushes THEN tail ELSE behind, numStoredBytes)

Q == INSTANCE ByteQueue WITH Capacity <- Size, queue <- Stored

(* The ring buffer is a queue: no byte is lost, repeated, overtaken or read     *)
(* before it is there, whatever mix of its calls the program and the ISR make.  *)
IsQueue == Q!Spec
==============================================================================
