----------------------------- MODULE QueuesProofs ----------------------------
(* Theorems about RingBuf and Uart, for memories of any size and calls of any    *)
(* length.                                                                       *)
EXTENDS MCQueues, SequenceTheorems, TLAPS

(* The call under way: for a push by DMA there is room for all of its bytes, for *)
(* a pop there are as many, whatever the interrupt does; its first chunk ends at *)
(* the end of the memory at the latest; and the pointer it moves is where it was.*)
CallOK ==
  /\ ringPc \in {"popped", "peek", "flush"} => ~mainPushes
  /\ ringPc = "popped" => numStoredBytes > 0
  /\ ringPc \in {"first", "second", "count"} =>
       /\ call.n <= IF mainPushes THEN Ring!Free ELSE numStoredBytes
       /\ call.n > 0 /\ call.first = Ring!Least(call.n, Size - call.at)
  /\ ringPc \in {"first", "second"} => call.at = IF mainPushes THEN head ELSE tail
  /\ ringPc = "second" => call.first < call.n

DmaOK == dma.at + dma.left <= Size

RInv == Ring!TypeOK /\ CallOK /\ DmaOK /\ Ring!PointersAgree

USE RingAssumption

------------------------------------------------------------------------------
LEMMA Start == Ring!Init => RInv
<1> SUFFICES ASSUME Ring!Init PROVE RInv
  OBVIOUS
<1> USE DEF Ring!Init, Ring!ringBufInit, Ring!ringBufDmaInit, Ring!NoCall, Ring!Slots
<1>1. <<>> \in Seq(Nat)
  BY EmptySeq
<1>2. Ring!TypeOK
  BY <1>1 DEF Ring!TypeOK
<1>3. CallOK
  BY DEF CallOK
<1>4. DmaOK
  BY DEF DmaOK
<1>5. Ring!PointersAgree
  BY DEF Ring!PointersAgree, Ring!Around, Ring!Uncounted
<1> QED
  BY <1>2, <1>3, <1>4, <1>5 DEF RInv

(* The n bytes from a slot on are a sequence of numbers.                         *)
LEMMA BytesType ==
  ASSUME NEW p \in Ring!Slots, NEW cnt \in 0 .. Size, Ring!TypeOK
  PROVE  Ring!BytesAt(p, cnt) \in Seq(Nat)
<1>1. \A i \in 1 .. cnt : Ring!Around(p + i - 1) \in Ring!Slots
  BY DEF Ring!Around, Ring!Slots
<1>2. \A i \in 1 .. cnt : mem[Ring!Around(p + i - 1)] \in Nat
  BY <1>1 DEF Ring!TypeOK
<1>3. cnt \in Nat
  OBVIOUS
<1> DEFINE f(i) == mem[Ring!Around(p + i - 1)]
<1>4. \A i \in 1 .. cnt : f(i) \in Nat
  BY <1>2
<1> HIDE DEF f
<1>5. [i \in 1 .. cnt |-> f(i)] \in Seq(Nat)
  BY <1>3, <1>4, SeqDef
<1> QED
  BY <1>5 DEF f, Ring!BytesAt

(* The two ends, c bytes apart, after the front end or the back end moved.       *)
LEMMA EndsMove ==
  ASSUME NEW h \in Ring!Slots, NEW t \in Ring!Slots, NEW c \in 0 .. Size, NEW cnt \in Nat,
         h = Ring!Around(t + c)
  PROVE  /\ cnt <= Size - c => Ring!Around(h + cnt) = Ring!Around(t + (c + cnt))
         /\ cnt <= c => h = Ring!Around(Ring!Around(t + cnt) + (c - cnt))
BY DEF Ring!Around, Ring!Slots

(* PointersAgree, for each side the program can be on, now and after a step.     *)
LEMMA Enclosed ==
  ASSUME Ring!PointersAgree, ringPc # "flush"
  PROVE  /\ mainPushes => head = Ring!Around(tail + (numStoredBytes + Ring!Uncounted))
         /\ ~mainPushes => head = Ring!Around(tail + (numStoredBytes - Ring!Uncounted))
BY Zenon DEF Ring!PointersAgree

LEMMA Encloses ==
  ASSUME \/ mainPushes' /\ head' = Ring!Around(tail' + (numStoredBytes' + Ring!Uncounted'))
         \/ ~mainPushes' /\ head' = Ring!Around(tail' + (numStoredBytes' - Ring!Uncounted'))
  PROVE  Ring!PointersAgree'
BY Zenon DEF Ring!PointersAgree, Ring!Around

(* A push in one step keeps the invariant.                                       *)
LEMMA StoreKeeps ==
  ASSUME RInv, NEW cnt \in 0 .. Ring!Free, Ring!Store(cnt), Ring!PusherRuns
  PROVE  RInv'
<1> USE DEF RInv, Ring!Store, Ring!PusherRuns
<1>1. cnt \in Nat /\ cnt <= Ring!Free /\ Ring!Free \in Nat
  BY DEF Ring!Free, Ring!TypeOK
<1>2. mem' \in [Ring!Slots -> Nat]
  <2>1. \A s \in Ring!Slots : mem[s] \in Nat
    BY DEF Ring!TypeOK
  <2>2. \A s \in Ring!Slots : (IF s >= head THEN s - head ELSE s + Size - head) \in Nat
    BY DEF Ring!TypeOK, Ring!Slots
  <2> DEFINE F(s) == LET i == IF s >= head THEN s - head ELSE s + Size - head
                     IN  IF i < cnt THEN sent + i ELSE mem[s]
  <2>3. mem' = [s \in Ring!Slots |-> F(s)]
    OBVIOUS
  <2>4. ASSUME NEW s \in Ring!Slots PROVE F(s) \in Nat
    <3> DEFINE i == IF s >= head THEN s - head ELSE s + Size - head
    <3>1. i \in Nat /\ mem[s] \in Nat /\ sent \in Nat
      BY <2>1, <2>2 DEF Ring!TypeOK
    <3> HIDE DEF i
    <3>2. \A x, y, z \in Nat : x + y \in Nat /\ (IF y < cnt THEN x + y ELSE z) \in Nat
      OBVIOUS
    <3>3. (IF i < cnt THEN sent + i ELSE mem[s]) \in Nat
      BY ONLY <3>1, <3>2, Zenon
    <3> QED
      BY ONLY <3>3, Zenon DEF i
  <2> HIDE DEF F
  <2> QED
    BY ONLY <2>3, <2>4
<1>3. head' \in Ring!Slots /\ numStoredBytes' \in 0 .. Size
  BY <1>1 DEF Ring!TypeOK, Ring!Slots, Ring!Free, Ring!Around
<1>4. Ring!TypeOK'
  BY <1>1, <1>2, <1>3 DEF Ring!TypeOK
<1>5. CallOK'
  <2>1. CASE mainPushes
    BY <2>1, <1>1 DEF CallOK, Ring!TypeOK
  <2>2. CASE ~mainPushes
    BY <2>2, <1>1 DEF CallOK, Ring!TypeOK, Ring!Free
  <2> QED
    BY <2>1, <2>2
<1>6. DmaOK'
  BY DEF DmaOK
<1>7. Ring!PointersAgree'
  <2>1. CASE mainPushes
    BY <2>1, <1>1 DEF Ring!PointersAgree, Ring!Uncounted, Ring!Around, Ring!TypeOK, Ring!Slots, Ring!Free
  <2>2. CASE ~mainPushes /\ ringPc # "flush"
    <3>1. Ring!Uncounted \in Nat /\ Ring!Uncounted <= numStoredBytes /\ Ring!Uncounted' = Ring!Uncounted
      BY <2>2 DEF Ring!Uncounted, CallOK, Ring!TypeOK
    <3>2. head = Ring!Around(tail + (numStoredBytes - Ring!Uncounted))
      BY <2>2, Enclosed
    <3>3. head' = Ring!Around(tail' + (numStoredBytes' - Ring!Uncounted'))
      BY <1>1, <3>1, <3>2 DEF Ring!Around, Ring!TypeOK, Ring!Slots, Ring!Free
    <3> QED
      BY <2>2, <3>3, Encloses
  <2>3. CASE ringPc = "flush"
    BY <2>3 DEF Ring!PointersAgree
  <2> QED
    BY <2>1, <2>2, <2>3
<1> QED
  BY <1>4, <1>5, <1>6, <1>7

(* A pop in one step keeps the invariant.                                        *)
LEMMA TakeKeeps ==
  ASSUME RInv, NEW cnt \in 0 .. numStoredBytes, Ring!Take(cnt), Ring!PopperRuns
  PROVE  RInv'
<1> USE DEF RInv, Ring!Take, Ring!PopperRuns
<1>1. cnt \in 0 .. Size /\ cnt <= numStoredBytes
  BY DEF Ring!TypeOK
<1>2. out' \in Seq(Nat)
  BY <1>1, BytesType DEF Ring!TypeOK
<1>3. tail' \in Ring!Slots /\ numStoredBytes' \in 0 .. Size
  BY <1>1 DEF Ring!TypeOK, Ring!Slots, Ring!Around
<1>4. Ring!TypeOK'
  BY <1>2, <1>3 DEF Ring!TypeOK
<1>5. CallOK'
  <2>1. CASE mainPushes
    BY <2>1, <1>1 DEF CallOK, Ring!TypeOK, Ring!Free
  <2>2. CASE ~mainPushes
    BY <2>2, <1>1 DEF CallOK, Ring!TypeOK
  <2> QED
    BY <2>1, <2>2
<1>6. DmaOK'
  BY DEF DmaOK
<1>7. Ring!PointersAgree'
  <2>1. CASE mainPushes
    <3>1. ringPc # "flush" /\ ringPc # "popped"
      BY <2>1 DEF CallOK
    <3>2. Ring!Uncounted \in Nat /\ Ring!Uncounted <= Ring!Free /\ Ring!Uncounted' = Ring!Uncounted
      BY <2>1, <3>1 DEF Ring!Uncounted, CallOK, Ring!TypeOK, Ring!Free
    <3>3. head = Ring!Around(tail + (numStoredBytes + Ring!Uncounted))
      BY <2>1, <3>1, Enclosed
    <3>4. head' = Ring!Around(tail' + (numStoredBytes' + Ring!Uncounted'))
      BY <1>1, <3>2, <3>3 DEF Ring!Around, Ring!TypeOK, Ring!Slots, Ring!Free
    <3> QED
      BY <2>1, <3>4, Encloses
  <2>2. CASE ~mainPushes
    BY <2>2, <1>1 DEF Ring!PointersAgree, Ring!Uncounted, Ring!Around, Ring!TypeOK, Ring!Slots
  <2> QED
    BY <2>1, <2>2
<1> QED
  BY <1>4, <1>5, <1>6, <1>7

(* So does every step of a call that works outside of the lock.                  *)
LEMMA PopByteKeeps ==
  ASSUME RInv, Ring!ringBufPopByte \/ Ring!PopByteCounts
  PROVE  RInv'
<1> USE DEF RInv
<1>1. CASE Ring!ringBufPopByte
  <2> USE <1>1 DEF Ring!ringBufPopByte, Ring!MainPops
  <2>1. mem[tail] \in Nat /\ tail' \in Ring!Slots
    BY DEF Ring!TypeOK, Ring!Around, Ring!Slots
  <2>2. held' \in Seq(Nat)
    BY <2>1
  <2>3. Ring!TypeOK'
    BY <2>1, <2>2 DEF Ring!TypeOK
  <2>4. CallOK' /\ DmaOK'
    BY DEF CallOK, DmaOK, Ring!TypeOK
  <2>5. Ring!PointersAgree'
    BY DEF Ring!PointersAgree, Ring!Uncounted, Ring!Around, Ring!TypeOK, Ring!Slots
  <2> QED
    BY <2>3, <2>4, <2>5
<1>2. CASE Ring!PopByteCounts
  <2> USE <1>2 DEF Ring!PopByteCounts
  <2>1. ~mainPushes /\ numStoredBytes > 0
    BY DEF CallOK
  <2>2. numStoredBytes' \in 0 .. Size
    BY <2>1 DEF Ring!TypeOK
  <2>3. held' \in Seq(Nat)
    BY EmptySeq
  <2>4. Ring!TypeOK'
    BY <2>2, <2>3 DEF Ring!TypeOK
  <2>5. CallOK' /\ DmaOK'
    BY DEF CallOK, DmaOK, Ring!TypeOK
  <2>6. Ring!PointersAgree'
    BY <2>1 DEF Ring!PointersAgree, Ring!Uncounted, Ring!Around, Ring!TypeOK, Ring!Slots
  <2> QED
    BY <2>4, <2>5, <2>6
<1> QED
  BY <1>1, <1>2

LEMMA PeekKeeps ==
  ASSUME RInv, NEW k \in Nat, Ring!ringBufPeek(k) \/ Ring!PeekCopies
  PROVE  RInv'
<1> USE DEF RInv
<1>1. CASE Ring!ringBufPeek(k)
  <2> USE <1>1 DEF Ring!ringBufPeek, Ring!MainPops
  <2>1. Ring!TypeOK'
    BY DEF Ring!TypeOK
  <2>2. CallOK' /\ DmaOK'
    BY DEF CallOK, DmaOK
  <2>3. Ring!PointersAgree'
    BY DEF Ring!PointersAgree, Ring!Uncounted, Ring!TypeOK
  <2> QED
    BY <2>1, <2>2, <2>3
<1>2. CASE Ring!PeekCopies
  <2> USE <1>2 DEF Ring!PeekCopies
  <2>1. Ring!Least(call.n, numStoredBytes) \in 0 .. Size
    BY DEF Ring!Least, Ring!TypeOK
  <2>2. seen' \in Seq(Nat)
    BY <2>1, BytesType DEF Ring!TypeOK
  <2>3. call' \in [n : Nat, first : Nat, at : Ring!Slots]
    BY DEF Ring!NoCall, Ring!Slots
  <2>4. Ring!TypeOK'
    BY <2>2, <2>3 DEF Ring!TypeOK
  <2>5. CallOK' /\ DmaOK'
    BY DEF CallOK, DmaOK
  <2>6. Ring!PointersAgree'
    BY DEF Ring!PointersAgree, Ring!Uncounted, Ring!TypeOK
  <2> QED
    BY <2>4, <2>5, <2>6
<1> QED
  BY <1>1, <1>2

LEMMA FlushKeeps ==
  ASSUME RInv, Ring!ringBufFlush \/ Ring!FlushCounts
  PROVE  RInv'
<1> USE DEF RInv
<1>1. CASE Ring!ringBufFlush
  BY <1>1 DEF Ring!ringBufFlush, Ring!MainPops, Ring!TypeOK, CallOK, DmaOK, Ring!PointersAgree
<1>2. CASE Ring!FlushCounts
  <2> USE <1>2 DEF Ring!FlushCounts
  <2>1. Ring!TypeOK'
    BY DEF Ring!TypeOK
  <2>2. CallOK' /\ DmaOK'
    BY DEF CallOK, DmaOK
  <2>3. Ring!PointersAgree'
    BY DEF Ring!PointersAgree, Ring!Uncounted, Ring!Around, Ring!TypeOK, Ring!Slots, CallOK
  <2> QED
    BY <2>1, <2>2, <2>3
<1> QED
  BY <1>1, <1>2

(* A call by DMA begins with as many bytes as there is room, or bytes, for.      *)
LEMMA StartKeeps ==
  ASSUME RInv, ringPc = "idle", NEW cnt \in 0 .. Size,
         cnt <= IF mainPushes THEN Ring!Free ELSE numStoredBytes,
         Ring!StartDmaCall(cnt, IF mainPushes THEN head ELSE tail)
  PROVE  RInv'
<1> USE DEF RInv, Ring!StartDmaCall
<1> DEFINE p == IF mainPushes THEN head ELSE tail
<1>1. p \in Ring!Slots
  BY DEF Ring!TypeOK
<1>2. Ring!Least(cnt, Size - p) \in Nat
  BY <1>1 DEF Ring!Least, Ring!Slots
<1>3. call' = [n |-> cnt, first |-> Ring!Least(cnt, Size - p), at |-> p]
  OBVIOUS
<1> HIDE DEF p
<1>4. Ring!TypeOK'
  BY <1>1, <1>2, <1>3 DEF Ring!TypeOK
<1>5. CallOK'
  <2>1. call'.n = cnt /\ call'.first = Ring!Least(cnt, Size - p) /\ call'.at = p
    BY <1>3
  <2>2. call'.at = IF mainPushes' THEN head' ELSE tail'
    BY <2>1 DEF p
  <2>3. call'.n <= (IF mainPushes THEN Ring!Free ELSE numStoredBytes)' /\ call'.n > 0
    BY <2>1 DEF Ring!Free
  <2> QED
    BY <2>1, <2>2, <2>3 DEF CallOK, Ring!Least
<1>6. DmaOK'
  BY DEF DmaOK
<1>7. Ring!PointersAgree'
  BY DEF Ring!PointersAgree, Ring!Uncounted, Ring!TypeOK
<1> QED
  BY <1>4, <1>5, <1>6, <1>7

LEMMA ArmFirstKeeps ==
  ASSUME RInv, Ring!ArmFirst
  PROVE  RInv'
<1> USE DEF RInv, Ring!ArmFirst
<1>0. /\ head \in Ring!Slots /\ tail \in Ring!Slots /\ call.n \in Nat
      /\ numStoredBytes \in 0 .. Size
  BY DEF Ring!TypeOK
<1>1. /\ call.n \in 1 .. Size /\ call.at \in Ring!Slots
      /\ call.first = Ring!Least(call.n, Size - call.at)
      /\ call.at = IF mainPushes THEN head ELSE tail
      /\ call.n <= IF mainPushes THEN Ring!Free ELSE numStoredBytes
  BY DEF Ring!TypeOK, CallOK, Ring!Free
<1>2. /\ call.first \in 1 .. Size /\ call.at + call.first <= Size
      /\ call.first <= call.n
  BY <1>1 DEF Ring!Least, Ring!Slots
<1>3. dma' \in [at : 0 .. Size, left : 0 .. Size, byte : Nat]
  <2>1. dma' = [at |-> call.at, left |-> call.first, byte |-> sent]
    OBVIOUS
  <2>2. call.at \in 0 .. Size /\ call.first \in 0 .. Size /\ sent \in Nat
    BY <1>1, <1>2 DEF Ring!TypeOK, Ring!Slots
  <2> HIDE DEF RInv, Ring!ArmFirst
  <2> QED
    BY <2>1, <2>2
<1>4. DmaOK'
  BY <1>1, <1>2 DEF DmaOK
<1>5. held' \in Seq(Nat)
  BY EmptySeq
<1>6. Ring!Around(call.at + call.first) \in Ring!Slots
  BY <1>1, <1>2 DEF Ring!Around, Ring!Slots
<1>7. CASE Ring!LastChunk > 0
  <2>1. Ring!TypeOK'
    BY <1>3, <1>5, <1>7 DEF Ring!TypeOK
  <2>2. CallOK'
    BY <1>1, <1>2, <1>7 DEF CallOK, Ring!LastChunk, Ring!Free
  <2>3. Ring!PointersAgree'
    BY <1>7 DEF Ring!PointersAgree, Ring!Uncounted
  <2> QED
    BY <1>4, <2>1, <2>2, <2>3
<1>8. CASE ~(Ring!LastChunk > 0)
  <2>1. call.first = call.n
    BY <1>1, <1>2, <1>8 DEF Ring!LastChunk
  <2>2. Ring!TypeOK'
    BY <1>3, <1>5, <1>6, <1>8 DEF Ring!TypeOK, Ring!MovePointer
  <2>3. CallOK'
    BY <1>1, <1>2, <1>8 DEF CallOK, Ring!Free
  <2>4. Ring!PointersAgree'
    <3>0. ringPc = "first" /\ Ring!Uncounted = 0 /\ Ring!Uncounted' = call.n
      BY <1>8 DEF Ring!Uncounted
    <3>1. CASE mainPushes
      <4>1. head' = Ring!Around(head + call.n) /\ tail' = tail
        BY <1>1, <1>8, <2>1, <3>1 DEF Ring!MovePointer
      <4>2. head = Ring!Around(tail + numStoredBytes) /\ call.n <= Size - numStoredBytes
        BY <1>0, <1>1, <3>0, <3>1, Enclosed DEF Ring!Free
      <4>3. Ring!Around(head + call.n) = Ring!Around(tail + (numStoredBytes + call.n))
        BY <1>0, <4>2, EndsMove
      <4>4. head' = Ring!Around(tail' + (numStoredBytes' + Ring!Uncounted'))
        BY <1>8, <3>0, <4>1, <4>3, Zenon
      <4> QED
        BY <3>1, <4>4, Encloses
    <3>2. CASE ~mainPushes
      <4>1. tail' = Ring!Around(tail + call.n) /\ head' = head
        BY <1>1, <1>8, <2>1, <3>2 DEF Ring!MovePointer
      <4>2. head = Ring!Around(tail + numStoredBytes) /\ call.n <= numStoredBytes
        BY <1>0, <1>1, <3>0, <3>2, Enclosed
      <4>3. head = Ring!Around(Ring!Around(tail + call.n) + (numStoredBytes - call.n))
        BY <1>0, <4>2, EndsMove
      <4>4. head' = Ring!Around(tail' + (numStoredBytes' - Ring!Uncounted'))
        BY <1>8, <3>0, <4>1, <4>3, Zenon
      <4> QED
        BY <3>2, <4>4, Encloses
    <3> QED
      BY <3>1, <3>2
  <2> QED
    BY <1>4, <2>2, <2>3, <2>4
<1> QED
  BY <1>7, <1>8

LEMMA ArmSecondKeeps ==
  ASSUME RInv, Ring!ArmSecond
  PROVE  RInv'
<1> USE DEF RInv, Ring!ArmSecond
<1>0. /\ head \in Ring!Slots /\ tail \in Ring!Slots /\ call.n \in Nat
      /\ numStoredBytes \in 0 .. Size
  BY DEF Ring!TypeOK
<1>1. /\ call.n \in 1 .. Size /\ call.at \in Ring!Slots
      /\ call.first = Ring!Least(call.n, Size - call.at)
      /\ call.first < call.n
      /\ call.at = IF mainPushes THEN head ELSE tail
      /\ call.n <= IF mainPushes THEN Ring!Free ELSE numStoredBytes
  BY DEF Ring!TypeOK, CallOK, Ring!Free
<1>2. call.first = Size - call.at /\ call.first \in 1 .. Size
  BY <1>1 DEF Ring!Least, Ring!Slots
<1>3. Ring!LastChunk \in Ring!Slots
  BY <1>1, <1>2 DEF Ring!LastChunk, Ring!Slots
<1>4. dma' \in [at : 0 .. Size, left : 0 .. Size, byte : Nat]
  <2>1. Ring!LastChunk \in 0 .. Size /\ 0 \in 0 .. Size
    BY <1>3 DEF Ring!Slots
  <2>2. sent + call.first \in Nat
    BY <1>2 DEF Ring!TypeOK
  <2>3. dma' = [at |-> 0, left |-> Ring!LastChunk, byte |-> sent + call.first]
    OBVIOUS
  <2> HIDE DEF RInv, Ring!ArmSecond
  <2> QED
    BY <2>1, <2>2, <2>3
<1>5. DmaOK'
  BY <1>3 DEF DmaOK, Ring!Slots
<1>6. Ring!TypeOK'
  BY <1>3, <1>4 DEF Ring!TypeOK, Ring!MovePointer
<1>7. CallOK'
  BY <1>1 DEF CallOK, Ring!Free
<1>8. Ring!PointersAgree'
  <2>0. ringPc = "second" /\ Ring!Uncounted = 0 /\ Ring!Uncounted' = call.n
    BY DEF Ring!Uncounted
  <2>1. CASE mainPushes
    <3>1. head' = Ring!LastChunk /\ tail' = tail /\ call.first = Size - head
      BY <1>1, <1>2, <2>1 DEF Ring!MovePointer
    <3>2. Ring!LastChunk = Ring!Around(head + call.n)
      BY <1>0, <1>1, <3>1 DEF Ring!LastChunk, Ring!Around, Ring!Slots
    <3>3. head = Ring!Around(tail + numStoredBytes) /\ call.n <= Size - numStoredBytes
      BY <1>0, <1>1, <2>0, <2>1, Enclosed DEF Ring!Free
    <3>4. Ring!Around(head + call.n) = Ring!Around(tail + (numStoredBytes + call.n))
      BY <1>0, <3>3, EndsMove
    <3>5. head' = Ring!Around(tail' + (numStoredBytes' + Ring!Uncounted'))
      BY <2>0, <3>1, <3>2, <3>4, Zenon
    <3> QED
      BY <2>1, <3>5, Encloses
  <2>2. CASE ~mainPushes
    <3>1. tail' = Ring!LastChunk /\ head' = head /\ call.first = Size - tail
      BY <1>1, <1>2, <2>2 DEF Ring!MovePointer
    <3>2. Ring!LastChunk = Ring!Around(tail + call.n)
      BY <1>0, <1>1, <3>1 DEF Ring!LastChunk, Ring!Around, Ring!Slots
    <3>3. head = Ring!Around(tail + numStoredBytes) /\ call.n <= numStoredBytes
      BY <1>0, <1>1, <2>0, <2>2, Enclosed
    <3>4. head = Ring!Around(Ring!Around(tail + call.n) + (numStoredBytes - call.n))
      BY <1>0, <3>3, EndsMove
    <3>5. head' = Ring!Around(tail' + (numStoredBytes' - Ring!Uncounted'))
      BY <2>0, <3>1, <3>2, <3>4, Zenon
    <3> QED
      BY <2>2, <3>5, Encloses
  <2> QED
    BY <2>1, <2>2
<1> QED
  BY <1>5, <1>6, <1>7, <1>8

LEMMA CountKeeps ==
  ASSUME RInv, Ring!CountDma
  PROVE  RInv'
<1> USE DEF RInv
<1>1. call.n \in Nat /\ call.n <= IF mainPushes THEN Ring!Free ELSE numStoredBytes
  BY DEF Ring!TypeOK, CallOK, Ring!CountDma
<1>2. call' \in [n : Nat, first : Nat, at : Ring!Slots]
  BY DEF Ring!NoCall, Ring!Slots, Ring!CountDma
<1>3. CallOK' /\ DmaOK'
  BY DEF CallOK, DmaOK, Ring!CountDma
<1>4. ringPc = "count" /\ Ring!Uncounted = call.n /\ Ring!Uncounted' = 0
  BY DEF Ring!Uncounted, Ring!CountDma
<1>5. /\ head' = head /\ tail' = tail /\ mainPushes' = mainPushes
      /\ mem' = mem /\ dma' = dma /\ held' = held /\ seen' = seen /\ ringPc' = "idle"
  BY Zenon DEF Ring!CountDma
<1>6. sent \in Nat /\ numStoredBytes \in 0 .. Size
  BY DEF Ring!TypeOK
<1>7. CASE mainPushes
  <2>1. call.n <= Ring!Free
    BY <1>1, <1>7
  <2>2. /\ numStoredBytes' = numStoredBytes + call.n
        /\ sent' = sent + call.n
        /\ out' = out
    BY <1>7 DEF Ring!CountDma
  <2>3. numStoredBytes' \in 0 .. Size /\ sent' \in Nat
    BY <1>1, <1>6, <2>1, <2>2 DEF Ring!Free
  <2>4. Ring!TypeOK'
    BY <1>5, <1>1, <1>2, <2>2, <2>3 DEF Ring!TypeOK
  <2>5. head = Ring!Around(tail + (numStoredBytes + call.n))
    BY <1>4, <1>7, Enclosed
  <2>6. numStoredBytes' + 0 = numStoredBytes + call.n
    BY <1>1, <2>2, <2>3
  <2>7. head' = Ring!Around(tail' + (numStoredBytes' + Ring!Uncounted'))
    BY <1>5, <1>4, <2>5, <2>6, Zenon
  <2> QED
    BY <1>3, <1>7, <2>4, <2>7, Encloses DEF Ring!CountDma
<1>8. CASE ~mainPushes
  <2>1. call.n <= numStoredBytes
    BY <1>1, <1>8
  <2>2. /\ numStoredBytes' = numStoredBytes - call.n
        /\ sent' = sent
        /\ out' = held
    BY <1>8 DEF Ring!CountDma
  <2>3. numStoredBytes' \in 0 .. Size
    BY <1>1, <2>1, <2>2 DEF Ring!TypeOK
  <2>4. Ring!TypeOK'
    BY <1>5, <1>1, <1>2, <2>2, <2>3 DEF Ring!TypeOK
  <2>5. head = Ring!Around(tail + (numStoredBytes - call.n))
    BY <1>4, <1>8, Enclosed
  <2>6. numStoredBytes' - 0 = numStoredBytes - call.n
    BY <1>1, <2>2, <2>3
  <2>7. head' = Ring!Around(tail' + (numStoredBytes' - Ring!Uncounted'))
    BY <1>5, <1>4, <2>5, <2>6, Zenon
  <2> QED
    BY <1>3, <1>8, <2>4, <2>7, Encloses DEF Ring!CountDma
<1> QED
  BY <1>7, <1>8

LEMMA CopyKeeps ==
  ASSUME RInv, Ring!DmaCopies
  PROVE  RInv'
<1> USE DEF RInv
<1>0. dma.left > 0 /\ dma.at \in 0 .. Size /\ dma.left \in 0 .. Size /\ dma.byte \in Nat
  BY DEF Ring!TypeOK, Ring!DmaCopies
<1>1. dma.at \in Ring!Slots /\ dma.left \in 1 .. Size /\ dma.byte \in Nat
  BY <1>0 DEF DmaOK, Ring!Slots
<1>2. dma' \in [at : 0 .. Size, left : 0 .. Size, byte : Nat]
  BY <1>1 DEF Ring!Slots, Ring!DmaCopies
<1>3. mem' \in [Ring!Slots -> Nat]
  BY <1>1 DEF Ring!TypeOK, Ring!DmaCopies
<1>4. held' \in Seq(Nat)
  <2>1. mem[dma.at] \in Nat /\ held \in Seq(Nat)
    BY <1>1 DEF Ring!TypeOK
  <2>2. Append(held, mem[dma.at]) \in Seq(Nat)
    BY <2>1
  <2>3. held' = held \/ held' = Append(held, mem[dma.at])
    BY Zenon DEF Ring!DmaCopies
  <2> QED
    BY <2>1, <2>2, <2>3
<1> USE DEF Ring!DmaCopies
<1>5. Ring!TypeOK'
  BY <1>2, <1>3, <1>4 DEF Ring!TypeOK
<1>6. CallOK'
  BY DEF CallOK, Ring!Free
<1>7. DmaOK'
  BY <1>1 DEF DmaOK, Ring!TypeOK
<1>8. Ring!PointersAgree'
  BY DEF Ring!PointersAgree, Ring!Uncounted
<1> QED
  BY <1>5, <1>6, <1>7, <1>8

------------------------------------------------------------------------------
LEMMA StepKeeps == RInv /\ [Ring!Next]_(Ring!vars) => RInv'
<1> SUFFICES ASSUME RInv, [Ring!Next]_(Ring!vars) PROVE RInv'
  OBVIOUS
<1>0. numStoredBytes \in 0 .. Size /\ Ring!Free \in 0 .. Size /\ mainPushes \in BOOLEAN
  BY DEF RInv, Ring!TypeOK, Ring!Free
<1>1. CASE Ring!ringBufPushByte
  BY <1>0, <1>1, StoreKeeps DEF Ring!ringBufPushByte
<1>2. ASSUME NEW k \in 1 .. MaxReq,
             \/ Ring!ringBufPush(k) \/ Ring!ringBufPushStaticSrc(k)
             \/ Ring!ringBufPop(k) \/ Ring!ringBufPopStaticDst(k)
             \/ Ring!ringBufPeek(k)
             \/ Ring!ringBufPushDma(k) \/ Ring!ringBufPushStaticSrcDma(k)
             \/ Ring!ringBufPopStaticDstDma(k)
      PROVE  RInv'
  <2>1. Ring!Least(k, Ring!Free) \in 0 .. Ring!Free /\ Ring!Least(k, numStoredBytes) \in 0 .. numStoredBytes
    BY <1>0 DEF Ring!Least
  <2>2. CASE Ring!ringBufPush(k) \/ Ring!ringBufPushStaticSrc(k)
    BY <2>1, <2>2, StoreKeeps DEF Ring!ringBufPush, Ring!ringBufPushStaticSrc
  <2>3. CASE Ring!ringBufPop(k) \/ Ring!ringBufPopStaticDst(k)
    BY <2>1, <2>3, TakeKeeps DEF Ring!ringBufPop, Ring!ringBufPopStaticDst
  <2>4. CASE Ring!ringBufPeek(k)
    BY <2>4, PeekKeeps
  <2>5. CASE Ring!ringBufPushDma(k) \/ Ring!ringBufPushStaticSrcDma(k)
    <3>1. Ring!Least(k, Ring!Free) \in 0 .. Size /\ Ring!Least(k, Ring!Free) <= Ring!Free
      BY <1>0, <2>1
    <3> QED
      BY <2>5, <3>1, StartKeeps DEF Ring!ringBufPushDma, Ring!ringBufPushStaticSrcDma
  <2>6. CASE Ring!ringBufPopStaticDstDma(k)
    <3>1. k \in 0 .. Size /\ k <= numStoredBytes
      BY <1>0, <2>6 DEF Ring!ringBufPopStaticDstDma
    <3> QED
      BY <2>6, <3>1, StartKeeps DEF Ring!ringBufPopStaticDstDma, Ring!MainPops
  <2> QED
    BY <1>2, <2>2, <2>3, <2>4, <2>5, <2>6
<1>3. CASE Ring!PeekCopies
  BY <1>3, PeekKeeps, 0 \in Nat
<1>4. CASE UNCHANGED Ring!vars
  BY <1>4 DEF Ring!vars, RInv, Ring!TypeOK, CallOK, DmaOK, Ring!PointersAgree, Ring!Uncounted, Ring!Free
<1> QED
  BY <1>1, <1>2, <1>3, <1>4, PopByteKeeps, FlushKeeps, ArmFirstKeeps, ArmSecondKeeps,
     CountKeeps, CopyKeeps
  DEF Ring!Next

(* For a buffer of any size, calls of any length and every order of the steps    *)
(* of the program, the interrupt and the DMA controller: every variable is in    *)
(* its range, and the count is what the two pointers enclose, but for what the   *)
(* running call has moved and not counted yet.                                   *)
THEOREM CountIsRight == MCSpec => []PointersAgree
<1>1. MCInit => RInv
  BY Start DEF MCInit
<1>2. UNCHANGED ringVars <=> UNCHANGED Ring!vars
  BY DEF ringVars, Ring!vars
<1>3. [MCNext]_<<which, vars, ringVars>> => [Ring!Next]_(Ring!vars)
  BY <1>2 DEF MCNext
<1>4. RInv => PointersAgree
  BY DEF RInv, PointersAgree
<1> QED
  BY <1>1, <1>3, <1>4, StepKeeps, PTL DEF MCSpec

------------------------------------------------------------------------------
(* Every buffer is a queue of bytes.  The bytes of a way are counted from 0 on,  *)
(* so what is stored is a run of consecutive numbers: c of them, from a on.      *)
HIDE RingAssumption

Run(a, c) == [i \in 1 .. c |-> a + i - 1]

LEMMA RunType ==
  ASSUME NEW a \in Nat, NEW c \in Nat
  PROVE  /\ Run(a, c) \in Seq(Nat) /\ Len(Run(a, c)) = c
         /\ \A i \in 1 .. c : Run(a, c)[i] = a + i - 1
<1>1. \A i \in 1 .. c : a + i - 1 \in Nat
  OBVIOUS
<1>2. Run(a, c) \in [1 .. c -> Nat]
  BY <1>1 DEF Run
<1>3. Run(a, c) \in Seq(Nat)
  BY <1>2, SeqDef
<1>4. Len(Run(a, c)) = c
  BY <1>2, <1>3, LenProperties
<1> QED
  BY <1>3, <1>4 DEF Run

LEMMA RunEnds ==
  ASSUME NEW a \in Nat
  PROVE  Run(a, 0) = <<>> /\ Run(a, 1) = <<a>>
<1>1. Run(a, 0) = <<>>
  BY RunType, EmptySeq
<1>2. Run(a, 1) = <<a>>
  <2>1. 1 \in Nat /\ 1 \in 1 .. 1
    OBVIOUS
  <2>2. Run(a, 1) \in Seq(Nat) /\ Len(Run(a, 1)) = 1 /\ Run(a, 1)[1] = a + 1 - 1
    BY <2>1, RunType
  <2> QED
    BY <2>2
<1> QED
  BY <1>1, <1>2

LEMMA RunConcat ==
  ASSUME NEW a \in Nat, NEW c \in Nat, NEW d \in Nat
  PROVE  Run(a, c) \o Run(a + c, d) = Run(a, c + d)
<1> DEFINE s == Run(a, c)
           t == Run(a + c, d)
           u == Run(a, c + d)
<1>1. s \in Seq(Nat) /\ Len(s) = c /\ \A i \in 1 .. c : s[i] = a + i - 1
  BY RunType
<1>2. t \in Seq(Nat) /\ Len(t) = d /\ \A i \in 1 .. d : t[i] = a + c + i - 1
  BY a + c \in Nat, RunType
<1>3. u \in Seq(Nat) /\ Len(u) = c + d /\ \A i \in 1 .. c + d : u[i] = a + i - 1
  BY c + d \in Nat, RunType
<1> HIDE DEF s, t, u
<1>4. /\ s \o t \in Seq(Nat) /\ Len(s \o t) = c + d
      /\ \A i \in 1 .. c + d : (s \o t)[i] = IF i <= c THEN s[i] ELSE t[i - c]
  BY <1>1, <1>2, ConcatProperties
<1>5. \A i \in 1 .. c + d : (s \o t)[i] = u[i]
  <2> SUFFICES ASSUME NEW i \in 1 .. c + d PROVE (s \o t)[i] = u[i]
    OBVIOUS
  <2>1. CASE i <= c
    BY <1>1, <1>3, <1>4, <2>1
  <2>2. CASE ~(i <= c)
    <3>1. (s \o t)[i] = t[i - c]
      BY <1>4, <2>2
    <3>2. i - c \in 1 .. d
      BY <2>2
    <3> QED
      BY <1>2, <1>3, <3>1, <3>2
  <2> QED
    BY <2>1, <2>2
<1>6. s \o t = u
  BY <1>3, <1>4, <1>5, SeqEqual
<1> QED
  BY <1>6 DEF s, t, u

LEMMA RunParts ==
  ASSUME NEW a \in Nat, NEW c \in Nat, NEW k \in 0 .. c
  PROVE  /\ SubSeq(Run(a, c), 1, k) = Run(a, k)
         /\ SubSeq(Run(a, c), k + 1, Len(Run(a, c))) = Run(a + k, c - k)
<1> DEFINE s == Run(a, c)
           t == Run(a, k)
           u == Run(a + k, c - k)
<1>1. s \in Seq(Nat) /\ Len(s) = c /\ \A i \in 1 .. c : s[i] = a + i - 1
  BY RunType
<1>2. t \in Seq(Nat) /\ Len(t) = k /\ \A i \in 1 .. k : t[i] = a + i - 1
  BY RunType
<1>3. u \in Seq(Nat) /\ Len(u) = c - k /\ \A i \in 1 .. c - k : u[i] = a + k + i - 1
  BY a + k \in Nat, c - k \in Nat, RunType
<1> HIDE DEF s, t, u
<1>4. SubSeq(s, 1, k) = t
  <2>1. SubSeq(s, 1, k) \in Seq(Nat) /\ Len(SubSeq(s, 1, k)) = k
    BY <1>1, SubSeqProperties
  <2>2. \A i \in 1 .. k : SubSeq(s, 1, k)[i] = t[i]
    BY <1>1, <1>2
  <2> QED
    BY <1>2, <2>1, <2>2, SeqEqual
<1>5. SubSeq(s, k + 1, c) = u
  <2>1. SubSeq(s, k + 1, c) \in Seq(Nat) /\ Len(SubSeq(s, k + 1, c)) = c - k
    BY <1>1
  <2>2. \A i \in 1 .. c - k : SubSeq(s, k + 1, c)[i] = u[i]
    BY <1>1, <1>3
  <2> QED
    BY <1>3, <2>1, <2>2, SeqEqual
<1> QED
  BY <1>1, <1>4, <1>5 DEF s, t, u

USE RingAssumption

(* The slots of RingBuf: c slots before slot h, and what c slots from b on hold. *)
Behind(h, c) == IF h >= c THEN h - c ELSE h + Size - c

LEMMA FrontAndBack ==
  ASSUME NEW b \in Ring!Slots, NEW c \in 0 .. Size
  PROVE  /\ Ring!Around(b + c) \in Ring!Slots /\ Behind(Ring!Around(b + c), c) = b
         /\ Behind(b, c) \in Ring!Slots /\ Ring!Around(Behind(b, c) + c) = b
BY DEF Ring!Around, Ring!Slots, Behind

LEMMA AroundTwice ==
  ASSUME NEW b \in Ring!Slots, NEW c \in Nat, NEW d \in Nat, c + d <= Size
  PROVE  Ring!Around(Ring!Around(b + c) + d) = Ring!Around(b + (c + d))
BY DEF Ring!Around, Ring!Slots

LEMMA Apart ==
  ASSUME NEW b \in Ring!Slots, NEW x \in Ring!Slots, NEW y \in Ring!Slots, x # y
  PROVE  Ring!Around(b + x) # Ring!Around(b + y)
BY DEF Ring!Around, Ring!Slots

LEMMA FromFront ==
  ASSUME NEW b \in Ring!Slots, NEW c \in 0 .. Size, NEW y \in Ring!Slots,
         NEW h, h = Ring!Around(b + c), NEW s, s = Ring!Around(b + y)
  PROVE  (IF s >= h THEN s - h ELSE s + Size - h) = IF y >= c THEN y - c ELSE y + Size - c
BY DEF Ring!Around, Ring!Slots

(* The c slots from b on hold the bytes from f on.                               *)
Holds(m, b, f, c) == \A y \in Nat : y < c => m[Ring!Around(b + y)] = f + y

LEMMA HoldsBack ==
  ASSUME NEW m, NEW b \in Ring!Slots, NEW f \in Nat, NEW c \in 0 .. Size, NEW k \in 0 .. c,
         Holds(m, b, f, c)
  PROVE  Holds(m, Ring!Around(b + k), f + k, c - k)
<1> SUFFICES ASSUME NEW y \in Nat, y < c - k
             PROVE  m[Ring!Around(Ring!Around(b + k) + y)] = f + k + y
  BY DEF Holds
<1>1. Ring!Around(Ring!Around(b + k) + y) = Ring!Around(b + (k + y))
  BY AroundTwice
<1>2. m[Ring!Around(b + (k + y))] = f + (k + y)
  BY DEF Holds
<1> QED
  BY <1>1, <1>2

LEMMA HoldsBoth ==
  ASSUME NEW m, NEW b \in Ring!Slots, NEW f \in Nat, NEW c \in Nat, NEW d \in Nat,
         c + d <= Size,
         Holds(m, b, f, c), Holds(m, Ring!Around(b + c), f + c, d)
  PROVE  Holds(m, b, f, c + d)
<1> SUFFICES ASSUME NEW y \in Nat, y < c + d
             PROVE  m[Ring!Around(b + y)] = f + y
  BY DEF Holds
<1>1. CASE y < c
  BY <1>1 DEF Holds
<1>2. CASE ~(y < c)
  <2> DEFINE z == y - c
  <2>1. z \in Nat /\ z < d /\ c + z = y
    BY <1>2
  <2>2. Ring!Around(Ring!Around(b + c) + z) = Ring!Around(b + (c + z))
    BY <2>1, AroundTwice
  <2>3. m[Ring!Around(Ring!Around(b + c) + z)] = f + c + z
    BY <2>1 DEF Holds
  <2> HIDE DEF z
  <2> QED
    BY <2>1, <2>2, <2>3
<1> QED
  BY <1>1, <1>2

LEMMA HoldsWritten ==
  ASSUME NEW m \in [Ring!Slots -> Nat], NEW b \in Ring!Slots, NEW f \in Nat,
         NEW x \in Ring!Slots, NEW v \in Nat, NEW c \in 0 .. x, Holds(m, b, f, c)
  PROVE  /\ Holds([m EXCEPT ![Ring!Around(b + x)] = v], b, f, c)
         /\ x = c /\ v = f + c => Holds([m EXCEPT ![Ring!Around(b + x)] = v], b, f, c + 1)
<1> DEFINE w == [m EXCEPT ![Ring!Around(b + x)] = v]
<1>0. c \in Nat /\ x \in Nat /\ x < Size /\ c <= x
  BY DEF Ring!Slots
<1>1. \A y \in Nat : y < Size => Ring!Around(b + y) \in Ring!Slots
  BY DEF Ring!Around, Ring!Slots
<1>2. \A y \in Nat : y < c => w[Ring!Around(b + y)] = m[Ring!Around(b + y)]
  <2> SUFFICES ASSUME NEW y \in Nat, y < c
               PROVE  w[Ring!Around(b + y)] = m[Ring!Around(b + y)]
    OBVIOUS
  <2>1. y \in Ring!Slots /\ y # x
    BY <1>0 DEF Ring!Slots
  <2>2. Ring!Around(b + x) # Ring!Around(b + y)
    BY <2>1, Apart
  <2>3. Ring!Around(b + y) \in Ring!Slots
    BY <1>1, <2>1 DEF Ring!Slots
  <2> QED
    BY <2>2, <2>3
<1>3. w[Ring!Around(b + x)] = v
  BY <1>0, <1>1
<1> HIDE DEF w
<1>4. Holds(w, b, f, c)
  BY <1>2 DEF Holds
<1>5. ASSUME x = c, v = f + c PROVE Holds(w, b, f, c + 1)
  <2> SUFFICES ASSUME NEW y \in Nat, y < c + 1 PROVE w[Ring!Around(b + y)] = f + y
    BY DEF Holds
  <2>1. CASE y = c
    BY <1>3, <1>5, <2>1
  <2>2. CASE y # c
    BY <1>0, <1>4, <2>2 DEF Holds
  <2> QED
    BY <2>1, <2>2
<1> QED
  BY <1>4, <1>5 DEF w

LEMMA HoldsRead ==
  ASSUME Ring!TypeOK, NEW b \in Ring!Slots, NEW f \in Nat, NEW c \in 0 .. Size, NEW k \in 0 .. c,
         Holds(mem, b, f, c)
  PROVE  Ring!BytesAt(b, k) = Run(f, k)
<1>1. \A i \in 1 .. k : mem[Ring!Around(b + i - 1)] = f + i - 1
  <2> SUFFICES ASSUME NEW i \in 1 .. k PROVE mem[Ring!Around(b + i - 1)] = f + i - 1
    OBVIOUS
  <2>1. i - 1 \in Nat /\ i - 1 < c /\ b + (i - 1) = b + i - 1 /\ f + (i - 1) = f + i - 1
    BY DEF Ring!Slots
  <2> DEFINE z == i - 1
  <2>2. mem[Ring!Around(b + z)] = f + z
    <3> HIDE DEF z
    <3> QED
      BY <2>1 DEF Holds, z
  <2> QED
    BY <2>1, <2>2
<1> QED
  BY <1>1, Zenon DEF Ring!BytesAt, Run

(* A push in one step.                                                           *)
LEMMA HoldsStored ==
  ASSUME Ring!TypeOK, NEW b \in Ring!Slots, NEW f \in Nat, NEW c \in 0 .. Size, NEW k \in 0 .. Size - c,
         head = Ring!Around(b + c), f + c = sent,
         mem' = [s \in Ring!Slots |->
                   LET i == IF s >= head THEN s - head ELSE s + Size - head
                   IN  IF i < k THEN sent + i ELSE mem[s]],
         Holds(mem, b, f, c)
  PROVE  Holds(mem', b, f, c + k)
<1> SUFFICES ASSUME NEW y \in Nat, y < c + k PROVE mem'[Ring!Around(b + y)] = f + y
  BY DEF Holds
<1> DEFINE s == Ring!Around(b + y)
           i == IF s >= head THEN s - head ELSE s + Size - head
<1>1. y \in Ring!Slots /\ s \in Ring!Slots
  BY DEF Ring!Slots, Ring!Around
<1>2. i = IF y >= c THEN y - c ELSE y + Size - c
  BY <1>1, FromFront
<1>3. mem'[s] = IF i < k THEN sent + i ELSE mem[s]
  BY <1>1
<1> HIDE DEF s, i
<1>4. CASE y >= c
  BY <1>2, <1>3, <1>4 DEF s
<1>5. CASE ~(y >= c)
  <2>1. ~(i < k)
    BY <1>2, <1>5
  <2>2. mem[s] = f + y
    BY <1>5 DEF Holds, s
  <2> QED
    BY <1>3, <2>1, <2>2 DEF s
<1> QED
  BY <1>4, <1>5

(* Where the oldest stored byte is, seen from the side the ISR works at.         *)
Base == IF mainPushes THEN tail ELSE Behind(head, numStoredBytes)

Kept == /\ numStoredBytes <= sent
        /\ Holds(mem, Base, sent - numStoredBytes, numStoredBytes)

(* The bytes that the transfers of this call, as far as armed, move in all, and  *)
(* how many of them they have moved.                                             *)
Goal == IF ringPc = "second" THEN call.first ELSE call.n
Moved == Goal - dma.left

Calling ==
  ringPc \in {"peek", "first", "second", "count"} =>
    /\ call.n \in 1 .. MaxReq
    /\ call.at = IF mainPushes THEN Ring!Around(Base + numStoredBytes) ELSE Base

Transfer ==
  /\ ringPc \notin {"second", "count"} => dma.left = 0
  /\ ringPc \in {"second", "count"} =>
       /\ dma.left <= Goal
       /\ dma.left > 0 => dma.at = Ring!Around(call.at + Moved)
       /\ mainPushes => /\ Holds(mem, call.at, sent, Moved)
                        /\ dma.left > 0 => dma.byte = sent + Moved
       /\ ~mainPushes => held = Run(sent - numStoredBytes, Moved)
  /\ ringPc = "popped" => held = Run(sent - numStoredBytes, 1)

DInv == RInv /\ Kept /\ Calling /\ Transfer

LEMMA DStart == Ring!Init => DInv
<1> SUFFICES ASSUME Ring!Init PROVE DInv
  OBVIOUS
<1>1. RInv
  BY Start
<1>2. Kept
  BY DEF Ring!Init, Ring!ringBufInit, Kept, Holds
<1>3. Calling /\ Transfer
  BY DEF Ring!Init, Ring!ringBufDmaInit, Calling, Transfer
<1> QED
  BY <1>1, <1>2, <1>3 DEF DInv

(* What the pointers are, from the oldest byte on.                               *)
LEMMA FromBase ==
  ASSUME RInv
  PROVE  /\ Base \in Ring!Slots
         /\ mainPushes => /\ tail = Base
                          /\ head = Ring!Around(Base + (numStoredBytes + Ring!Uncounted))
         /\ ~mainPushes => /\ head = Ring!Around(Base + numStoredBytes)
                           /\ ringPc # "flush" => tail = Ring!Around(Base + Ring!Uncounted)
<1> USE DEF RInv
<1>1. head \in Ring!Slots /\ tail \in Ring!Slots /\ numStoredBytes \in 0 .. Size
  BY DEF Ring!TypeOK
<1>2. CASE mainPushes
  BY <1>1, <1>2, Enclosed DEF Base, CallOK
<1>3. CASE ~mainPushes
  <2>1. Base = Behind(head, numStoredBytes)
    BY <1>3 DEF Base
  <2>2. Base \in Ring!Slots /\ head = Ring!Around(Base + numStoredBytes)
    BY <1>1, <2>1, FrontAndBack
  <2>3. ASSUME ringPc # "flush" PROVE tail = Ring!Around(Base + Ring!Uncounted)
    <3>1. Ring!Uncounted \in Nat /\ Ring!Uncounted <= numStoredBytes
      BY <1>3 DEF Ring!Uncounted, CallOK, Ring!TypeOK
    <3>2. head = Ring!Around(tail + (numStoredBytes - Ring!Uncounted))
      BY <1>3, <2>3, Enclosed
    <3> HIDE DEF RInv
    <3> QED
      BY <1>1, <2>1, <3>1, <3>2 DEF Behind, Ring!Around, Ring!Slots
  <2> QED
    BY <1>3, <2>2, <2>3
<1> QED
  BY <1>2, <1>3

(* A step that leaves the bytes, the pointers and the count alone.               *)
LEMMA KeptStays ==
  ASSUME Kept, UNCHANGED <<mem, numStoredBytes, mainPushes, sent>>, Base' = Base
  PROVE  Kept'
BY DEF Kept, Holds

LEMMA StoreData ==
  ASSUME DInv, NEW k \in 0 .. Ring!Free, Ring!Store(k), Ring!PusherRuns
  PROVE  Kept' /\ Calling' /\ Transfer'
<1> USE DEF DInv
<1>0. /\ numStoredBytes \in 0 .. Size /\ sent \in Nat /\ k \in 0 .. Size - numStoredBytes /\ k \in Nat
      /\ head \in Ring!Slots /\ call.at \in Ring!Slots /\ Ring!TypeOK
  BY DEF RInv, Ring!TypeOK, Ring!Free
<1>1. /\ numStoredBytes' = numStoredBytes + k /\ sent' = sent + k
      /\ tail' = tail /\ mainPushes' = mainPushes /\ ringPc' = ringPc /\ call' = call /\ dma' = dma
      /\ held' = held /\ head' = Ring!Around(head + k)
  BY DEF Ring!Store
<1>2. mem' = [s \in Ring!Slots |->
                   LET i == IF s >= head THEN s - head ELSE s + Size - head
                   IN  IF i < k THEN sent + i ELSE mem[s]]
  BY DEF Ring!Store
<1>3. Base \in Ring!Slots /\ head = Ring!Around(Base + numStoredBytes)
  <2>1. mainPushes => Ring!Uncounted = 0
    BY DEF Ring!PusherRuns, Ring!Uncounted
  <2> QED
    BY <1>0, <2>1, FromBase
<1>4. Base' = Base
  <2>1. CASE mainPushes
    BY <1>1, <2>1 DEF Base
  <2>2. CASE ~mainPushes
    <3>1. head' = Ring!Around(Base + (numStoredBytes + k))
      BY <1>0, <1>1, <1>3, AroundTwice
    <3>2. Behind(head', numStoredBytes') = Base
      BY <1>0, <1>1, <1>3, <3>1, FrontAndBack
    <3> QED
      BY <1>1, <2>2, <3>2 DEF Base
  <2> QED
    BY <2>1, <2>2
<1> DEFINE f == sent - numStoredBytes
<1>5. f \in Nat /\ f + numStoredBytes = sent /\ sent' - numStoredBytes' = f /\ numStoredBytes' <= sent'
  BY <1>0, <1>1 DEF Kept
<1>6. Holds(mem, Base, f, numStoredBytes)
  BY DEF Kept
<1> HIDE DEF f
<1>7. Holds(mem', Base, f, numStoredBytes + k)
  BY <1>0, <1>2, <1>3, <1>5, <1>6, HoldsStored
<1>8. Kept'
  BY <1>1, <1>4, <1>5, <1>7, Zenon DEF Kept
<1>9. Calling'
  <2>1. CASE mainPushes
    BY <1>1, <2>1 DEF Calling, Ring!PusherRuns
  <2>2. CASE ~mainPushes
    BY <1>1, <1>4, <2>2 DEF Calling
  <2> QED
    BY <2>1, <2>2
<1>10. Transfer'
  <2>1. CASE mainPushes
    BY <1>1, <2>1 DEF Transfer, Ring!PusherRuns
  <2>2. CASE ~mainPushes
    <3>1. Goal' = Goal /\ Moved' = Moved
      BY <1>1 DEF Goal, Moved
    <3> QED
      BY <1>1, <1>5, <2>2, <3>1 DEF Transfer, f
  <2> QED
    BY <2>1, <2>2
<1> QED
  BY <1>8, <1>9, <1>10

(* The oldest k bytes leave.                                                     *)
LEMMA KeptLess ==
  ASSUME DInv, NEW k \in 0 .. numStoredBytes, numStoredBytes' = numStoredBytes - k,
         mem' = mem, sent' = sent, mainPushes' = mainPushes,
         mainPushes => tail' = Ring!Around(tail + k), ~mainPushes => head' = head
  PROVE  /\ Kept' /\ Base' = Ring!Around(Base + k)
         /\ Ring!Around(Base' + numStoredBytes') = Ring!Around(Base + numStoredBytes)
<1> USE DEF DInv
<1>0. /\ numStoredBytes \in 0 .. Size /\ sent \in Nat /\ k \in Nat /\ k <= numStoredBytes
      /\ head \in Ring!Slots /\ tail \in Ring!Slots
  BY DEF RInv, Ring!TypeOK
<1>1. Base \in Ring!Slots /\ (~mainPushes => head = Ring!Around(Base + numStoredBytes))
  BY FromBase
<1>2. Base' = Ring!Around(Base + k)
  <2>1. CASE mainPushes
    BY <2>1 DEF Base
  <2>2. CASE ~mainPushes
    <3> DEFINE b == Ring!Around(Base + k)
    <3>1. b \in Ring!Slots
      BY <1>0, <1>1, FrontAndBack
    <3>2. k + (numStoredBytes - k) = numStoredBytes /\ numStoredBytes - k \in 0 .. Size
      BY <1>0
    <3>3. Ring!Around(b + (numStoredBytes - k)) = Ring!Around(Base + numStoredBytes)
      BY <1>0, <1>1, <3>2, AroundTwice
    <3> HIDE DEF b
    <3>4. Behind(head, numStoredBytes - k) = b
      BY <1>1, <2>2, <3>1, <3>2, <3>3, FrontAndBack
    <3> QED
      BY <2>2, <3>4 DEF Base, b
  <2> QED
    BY <2>1, <2>2
<1>3. Ring!Around(Base' + numStoredBytes') = Ring!Around(Base + numStoredBytes)
  <2>1. k + (numStoredBytes - k) = numStoredBytes /\ numStoredBytes - k \in Nat
    BY <1>0
  <2> QED
    BY <1>0, <1>1, <1>2, <2>1, AroundTwice
<1> DEFINE f == sent - numStoredBytes
<1>4. f \in Nat /\ sent' - numStoredBytes' = f + k /\ numStoredBytes' <= sent'
  BY <1>0 DEF Kept
<1>5. Holds(mem, Base, f, numStoredBytes)
  BY DEF Kept
<1> HIDE DEF f
<1>6. Holds(mem, Ring!Around(Base + k), f + k, numStoredBytes - k)
  BY <1>0, <1>1, <1>4, <1>5, HoldsBack
<1> QED
  BY <1>2, <1>3, <1>4, <1>6, Zenon DEF Kept

LEMMA TakeData ==
  ASSUME DInv, NEW k \in 0 .. numStoredBytes, Ring!Take(k), Ring!PopperRuns
  PROVE  Kept' /\ Calling' /\ Transfer'
<1> USE DEF DInv
<1>0. numStoredBytes \in 0 .. Size /\ k \in Nat
  BY DEF RInv, Ring!TypeOK
<1>1. /\ numStoredBytes' = numStoredBytes - k /\ sent' = sent /\ mem' = mem
      /\ mainPushes' = mainPushes /\ ringPc' = ringPc /\ call' = call /\ dma' = dma
      /\ held' = held /\ head' = head /\ tail' = Ring!Around(tail + k)
  BY DEF Ring!Take
<1>2. /\ Kept' /\ Ring!Around(Base' + numStoredBytes') = Ring!Around(Base + numStoredBytes)
  BY <1>1, KeptLess
<1>3. CASE mainPushes
  <2>1. Calling'
    BY <1>1, <1>2, <1>3 DEF Calling
  <2>2. Goal' = Goal /\ Moved' = Moved /\ ringPc # "popped"
    BY <1>1, <1>3 DEF Goal, Moved, RInv, CallOK
  <2>3. Transfer'
    BY <1>1, <1>3, <2>2 DEF Transfer, Holds
  <2> QED
    BY <1>2, <2>1, <2>3
<1>4. CASE ~mainPushes
  BY <1>1, <1>2, <1>4 DEF Calling, Transfer, Ring!PopperRuns
<1> QED
  BY <1>3, <1>4

(* What each action does to the bytes, one lemma per action.                     *)
LEMMA PopByteData ==
  ASSUME DInv, Ring!ringBufPopByte \/ Ring!PopByteCounts
  PROVE  Kept' /\ Calling' /\ Transfer'
<1> USE DEF DInv
<1>0. numStoredBytes \in 0 .. Size /\ sent \in Nat
  BY DEF RInv, Ring!TypeOK
<1>1. CASE Ring!ringBufPopByte
  <2> USE <1>1 DEF Ring!ringBufPopByte, Ring!MainPops
  <2>1. tail = Base /\ Base \in Ring!Slots /\ Base' = Base
    <3>1. Base \in Ring!Slots /\ tail = Ring!Around(Base + Ring!Uncounted)
      BY FromBase
    <3> QED
      BY <3>1 DEF Ring!Uncounted, Ring!Around, Ring!Slots, Base
  <2>2. mem[tail] = sent - numStoredBytes
    <3>1. Holds(mem, Base, sent - numStoredBytes, numStoredBytes)
      BY DEF Kept
    <3>2. mem[Ring!Around(Base + 0)] = sent - numStoredBytes + 0
      BY <1>0, <3>1 DEF Holds
    <3> QED
      BY <1>0, <2>1, <3>2 DEF Ring!Around, Ring!Slots
  <2>3. held' = Run(sent - numStoredBytes, 1)
    BY <1>0, <2>2, RunEnds DEF Kept
  <2>4. Kept'
    BY <2>1, KeptStays
  <2> QED
    BY <2>3, <2>4 DEF Calling, Transfer
<1>2. CASE Ring!PopByteCounts
  <2>1. /\ ringPc = "popped" /\ ringPc' = "idle" /\ dma' = dma
        /\ numStoredBytes' = numStoredBytes - 1 /\ sent' = sent /\ mem' = mem
        /\ mainPushes' = mainPushes /\ head' = head
    BY <1>2 DEF Ring!PopByteCounts
  <2>2. ~mainPushes /\ 1 \in 0 .. numStoredBytes
    BY <1>0, <2>1 DEF RInv, CallOK
  <2>3. Kept'
    BY <2>1, <2>2, KeptLess
  <2> QED
    BY <2>1, <2>3 DEF Calling, Transfer
<1> QED
  BY <1>1, <1>2

LEMMA PeekData ==
  ASSUME DInv, NEW k \in 1 .. MaxReq, Ring!ringBufPeek(k) \/ Ring!PeekCopies
  PROVE  Kept' /\ Calling' /\ Transfer'
<1> USE DEF DInv
<1>1. CASE Ring!ringBufPeek(k)
  <2> USE <1>1 DEF Ring!ringBufPeek, Ring!MainPops
  <2>1. tail = Base /\ Base' = Base
    <3>1. Base \in Ring!Slots /\ tail = Ring!Around(Base + Ring!Uncounted)
      BY FromBase
    <3> QED
      BY <3>1 DEF Ring!Uncounted, Ring!Around, Ring!Slots, Base
  <2>2. Kept'
    BY <2>1, KeptStays
  <2>3. Calling'
    BY <2>1 DEF Calling
  <2> QED
    BY <2>2, <2>3 DEF Transfer
<1>2. CASE Ring!PeekCopies
  <2>1. Kept'
    BY <1>2, KeptStays DEF Base, Ring!PeekCopies
  <2> QED
    BY <1>2, <2>1 DEF Calling, Transfer, Ring!PeekCopies
<1> QED
  BY <1>1, <1>2

LEMMA FlushData ==
  ASSUME DInv, Ring!ringBufFlush \/ Ring!FlushCounts
  PROVE  Kept' /\ Calling' /\ Transfer'
<1> USE DEF DInv
<1>1. CASE Ring!ringBufFlush
  <2>1. Kept'
    BY <1>1, KeptStays DEF Base, Ring!ringBufFlush, Ring!MainPops
  <2> QED
    BY <1>1, <2>1 DEF Calling, Transfer, Ring!ringBufFlush, Ring!MainPops
<1>2. CASE Ring!FlushCounts
  <2>1. Kept'
    BY <1>2 DEF Kept, Holds, Ring!FlushCounts, RInv, Ring!TypeOK
  <2> QED
    BY <1>2, <2>1 DEF Calling, Transfer, Ring!FlushCounts
<1> QED
  BY <1>1, <1>2

LEMMA StartData ==
  ASSUME DInv, ringPc = "idle", NEW k \in 0 .. MaxReq,
         Ring!StartDmaCall(k, IF mainPushes THEN head ELSE tail)
  PROVE  Kept' /\ Calling' /\ Transfer'
<1> USE DEF DInv
<1>0. numStoredBytes \in 0 .. Size
  BY DEF RInv, Ring!TypeOK
<1>1. /\ k \in 1 .. MaxReq /\ call'.n = k /\ call'.at = (IF mainPushes THEN head ELSE tail)
      /\ ringPc' = "first" /\ UNCHANGED <<mem, head, tail, numStoredBytes, mainPushes, dma, held, sent>>
  BY DEF Ring!StartDmaCall
<1>2. Ring!Uncounted = 0
  BY DEF Ring!Uncounted
<1>3. /\ Base \in Ring!Slots
      /\ mainPushes => head = Ring!Around(Base + numStoredBytes)
      /\ ~mainPushes => tail = Base
  BY <1>0, <1>2, FromBase DEF Ring!Around, Ring!Slots
<1>4. Base' = Base
  BY <1>1 DEF Base
<1>5. Kept'
  BY <1>1, <1>4, KeptStays
<1>6. Calling'
  BY <1>1, <1>3, <1>4 DEF Calling
<1> QED
  BY <1>1, <1>5, <1>6 DEF Transfer

LEMMA ArmFirstData ==
  ASSUME DInv, Ring!ArmFirst
  PROVE  Kept' /\ Calling' /\ Transfer'
<1> USE DEF DInv
<1>0. /\ numStoredBytes \in 0 .. Size /\ sent \in Nat /\ call.n \in Nat /\ call.first \in Nat
      /\ call.at \in Ring!Slots /\ call.first <= call.n
  BY DEF RInv, Ring!TypeOK, CallOK, Ring!ArmFirst, Ring!Least
<1>1. /\ ringPc = "first" /\ dma' = [at |-> call.at, left |-> call.first, byte |-> sent]
      /\ held' = <<>> /\ UNCHANGED <<mem, numStoredBytes, mainPushes, call, sent>>
  BY DEF Ring!ArmFirst
<1>2. \/ ringPc' = "second" /\ UNCHANGED <<head, tail>>
      \/ ringPc' = "count" /\ call.n = call.first /\ (IF mainPushes THEN UNCHANGED tail ELSE UNCHANGED head)
  BY <1>0 DEF Ring!ArmFirst, Ring!MovePointer, Ring!LastChunk
<1>3. Base' = Base
  BY <1>1, <1>2 DEF Base
<1>4. Kept'
  BY <1>1, <1>3, KeptStays
<1>5. Calling'
  BY <1>1, <1>3 DEF Calling
<1>6. Goal' = call.first /\ Moved' = 0 /\ dma'.left = call.first /\ dma'.at = call.at /\ dma'.byte = sent
  BY <1>0, <1>1, <1>2 DEF Goal, Moved
<1>7. Ring!Around(call.at + 0) = call.at
  BY <1>0 DEF Ring!Around, Ring!Slots
<1>8. held' = Run(sent - numStoredBytes, 0)
  BY <1>0, <1>1, RunEnds DEF Kept
<1>9. Holds(mem, call.at, sent, 0) /\ sent + 0 = sent
  BY <1>0 DEF Holds
<1>10. Transfer'
  BY <1>0, <1>1, <1>2, <1>6, <1>7, <1>8, <1>9 DEF Transfer, Holds
<1> QED
  BY <1>4, <1>5, <1>10

LEMMA ArmSecondData ==
  ASSUME DInv, Ring!ArmSecond
  PROVE  Kept' /\ Calling' /\ Transfer'
<1> USE DEF DInv
<1>0. /\ numStoredBytes \in 0 .. Size /\ sent \in Nat /\ call.n \in Nat /\ call.first \in Nat
      /\ call.at \in Ring!Slots /\ call.first < call.n /\ call.first = Ring!Least(call.n, Size - call.at)
      /\ dma.left = 0
  BY DEF RInv, Ring!TypeOK, CallOK, Ring!ArmSecond
<1>1. /\ ringPc = "second" /\ ringPc' = "count"
      /\ dma' = [at |-> 0, left |-> Ring!LastChunk, byte |-> sent + call.first]
      /\ UNCHANGED <<mem, numStoredBytes, mainPushes, call, sent, held>>
      /\ (IF mainPushes THEN UNCHANGED tail ELSE UNCHANGED head)
  BY DEF Ring!ArmSecond, Ring!MovePointer
<1>3. Base' = Base
  BY <1>1 DEF Base
<1>4. Kept'
  BY <1>1, <1>3, KeptStays
<1>5. Calling'
  BY <1>1, <1>3 DEF Calling
<1>6. /\ Moved = call.first /\ Moved' = call.first /\ Goal' = call.n
      /\ dma'.left = call.n - call.first /\ dma'.at = 0 /\ dma'.byte = sent + call.first
  BY <1>0, <1>1 DEF Goal, Moved, Ring!LastChunk
<1>7. Ring!Around(call.at + call.first) = 0
  BY <1>0 DEF Ring!Around, Ring!Slots, Ring!Least
<1>8. Transfer'
  BY <1>0, <1>1, <1>6, <1>7 DEF Transfer, Holds
<1> QED
  BY <1>4, <1>5, <1>8

LEMMA CountData ==
  ASSUME DInv, DmaLate = FALSE, Ring!CountDma
  PROVE  Kept' /\ Calling' /\ Transfer'
<1> USE DEF DInv
<1>0. /\ numStoredBytes \in 0 .. Size /\ sent \in Nat /\ call.n \in Nat
      /\ call.n <= IF mainPushes THEN Ring!Free ELSE numStoredBytes
      /\ call.at \in Ring!Slots /\ dma.left = 0 /\ ringPc = "count"
  BY DEF RInv, Ring!TypeOK, CallOK, Ring!CountDma
<1>1. ringPc' = "idle" /\ UNCHANGED <<mem, head, tail, mainPushes, dma, held>>
  BY DEF Ring!CountDma
<1>2. Calling' /\ Transfer'
  BY <1>0, <1>1 DEF Calling, Transfer
<1>3. CASE mainPushes
  <2>1. numStoredBytes' = numStoredBytes + call.n /\ sent' = sent + call.n /\ Base' = Base
    BY <1>1, <1>3 DEF Ring!CountDma, Base
  <2>2. Moved = call.n
    BY <1>0 DEF Moved, Goal
  <2>3. Holds(mem, Ring!Around(Base + numStoredBytes), sent, call.n)
    BY <1>0, <1>3, <2>2 DEF Transfer, Calling
  <2> DEFINE f == sent - numStoredBytes
  <2>4. /\ f \in Nat /\ f + numStoredBytes = sent /\ sent' - numStoredBytes' = f
        /\ numStoredBytes' <= sent'
    BY <1>0, <2>1 DEF Kept
  <2>5. Holds(mem, Base, f, numStoredBytes) /\ numStoredBytes + call.n <= Size
    BY <1>0, <1>3 DEF Kept, Ring!Free
  <2> HIDE DEF f
  <2>6. Holds(mem, Base, f, numStoredBytes + call.n)
    BY <1>0, <2>3, <2>4, <2>5, HoldsBoth, FromBase
  <2>7. Kept'
    BY <1>1, <2>1, <2>4, <2>6, Zenon DEF Kept
  <2> QED
    BY <1>2, <2>7
<1>4. CASE ~mainPushes
  <2>1. numStoredBytes' = numStoredBytes - call.n /\ sent' = sent
    BY <1>4 DEF Ring!CountDma
  <2>2. Kept'
    BY <1>0, <1>1, <1>4, <2>1, KeptLess
  <2> QED
    BY <1>2, <2>2
<1> QED
  BY <1>3, <1>4

LEMMA NextSlot ==
  ASSUME NEW p \in Ring!Slots, NEW d \in Nat, d < Size, NEW s \in Nat, s + 1 < Size,
         s = Ring!Around(p + d)
  PROVE  s + 1 = Ring!Around(p + (d + 1))
BY DEF Ring!Around, Ring!Slots

LEMMA CopyData ==
  ASSUME DInv, Ring!DmaCopies
  PROVE  Kept' /\ Calling' /\ Transfer'
<1> USE DEF DInv
<1>0. /\ numStoredBytes \in 0 .. Size /\ sent \in Nat /\ call.n \in Nat /\ call.first \in Nat
      /\ call.at \in Ring!Slots /\ dma.left \in Nat /\ dma.left > 0 /\ dma.at \in Nat /\ dma.byte \in Nat
      /\ mem \in [Ring!Slots -> Nat] /\ Ring!TypeOK
  BY DEF RInv, Ring!TypeOK, Ring!DmaCopies
<1>1. ringPc \in {"second", "count"}
  BY <1>0 DEF Transfer
<1>2. /\ Goal \in Nat /\ dma.left <= Goal /\ Moved \in Nat /\ Moved < Goal /\ Goal <= call.n
      /\ call.n <= IF mainPushes THEN Ring!Free ELSE numStoredBytes
      /\ dma.at = Ring!Around(call.at + Moved) /\ dma.at + dma.left <= Size
  <2>1. Goal \in Nat /\ Goal <= call.n
    BY <1>0, <1>1 DEF Goal, RInv, CallOK
  <2> QED
    BY <1>0, <1>1, <2>1 DEF Moved, Transfer, RInv, CallOK, DmaOK
<1>3. /\ dma' = [at |-> dma.at + 1, left |-> dma.left - 1, byte |-> dma.byte + 1]
      /\ UNCHANGED <<head, tail, numStoredBytes, mainPushes, ringPc, call, sent>>
  BY DEF Ring!DmaCopies
<1>4. Base' = Base /\ Calling'
  BY <1>3 DEF Base, Calling
<1>5. Goal' = Goal /\ Moved' = Moved + 1 /\ dma'.left <= Goal'
  BY <1>0, <1>2, <1>3 DEF Goal, Moved
<1>6. dma'.left > 0 => dma'.at = Ring!Around(call.at + (Moved + 1))
  <2>1. Moved \in Nat /\ Moved < Size
    BY <1>0, <1>1, <1>2 DEF Ring!Free
  <2>2. dma'.left = dma.left - 1 /\ dma'.at = dma.at + 1
    BY <1>3
  <2> SUFFICES ASSUME dma.at + 1 < Size PROVE dma.at + 1 = Ring!Around(call.at + (Moved + 1))
    BY <1>0, <1>2, <2>2
  <2>3. dma.at = Ring!Around(call.at + Moved)
    BY <1>2
  <2> QED
    BY <1>0, <2>1, <2>3, NextSlot
<1>7. Base \in Ring!Slots
  BY FromBase
<1>8. Moved \in Ring!Slots
  BY <1>0, <1>1, <1>2 DEF Ring!Slots, Ring!Free
<1> DEFINE f == sent - numStoredBytes
<1>9. f \in Nat /\ Holds(mem, Base, f, numStoredBytes) /\ sent' - numStoredBytes' = f
  BY <1>0, <1>3 DEF Kept
<1> HIDE DEF f
<1>10. CASE mainPushes
  <2>1. mem' = [mem EXCEPT ![dma.at] = dma.byte] /\ held' = held
    BY <1>10 DEF Ring!DmaCopies
  <2>2. Holds(mem, call.at, sent, Moved) /\ dma.byte = sent + Moved
    BY <1>0, <1>1, <1>10 DEF Transfer
  <2>3. Holds(mem', call.at, sent, Moved + 1)
    <3>1. Moved \in 0 .. Moved
      BY <1>2
    <3> QED
      BY <1>0, <1>2, <1>8, <2>1, <2>2, <3>1, HoldsWritten
  <2>4. Holds(mem', Base, f, numStoredBytes)
    <3> DEFINE x == numStoredBytes + Moved
    <3>1. x \in Ring!Slots /\ numStoredBytes \in 0 .. x
      BY <1>0, <1>2, <1>10 DEF Ring!Slots, Ring!Free
    <3>2. dma.at = Ring!Around(Base + x)
      <4>1. call.at = Ring!Around(Base + numStoredBytes)
        BY <1>1, <1>10 DEF Calling
      <4>2. numStoredBytes \in Nat /\ numStoredBytes + Moved <= Size
        BY <1>0, <1>2, <1>10 DEF Ring!Free
      <4>3. Ring!Around(Ring!Around(Base + numStoredBytes) + Moved) = Ring!Around(Base + (numStoredBytes + Moved))
        BY <1>2, <1>7, <4>2, AroundTwice
      <4> QED
        BY <1>2, <4>1, <4>3
    <3> HIDE DEF x
    <3> QED
      BY <1>0, <1>7, <1>9, <2>1, <3>1, <3>2, HoldsWritten
  <2>5. Kept'
    BY <1>3, <1>4, <1>9, <2>4 DEF Kept
  <2>6. dma'.left > 0 => dma'.byte = sent + (Moved + 1)
    BY <1>0, <1>2, <1>3, <2>2
  <2>7. Transfer'
    BY <1>1, <1>3, <1>5, <1>6, <1>10, <2>3, <2>6 DEF Transfer
  <2> QED
    BY <1>4, <2>5, <2>7
<1>11. CASE ~mainPushes
  <2>1. held' = Append(held, mem[dma.at]) /\ mem' = mem
    BY <1>11 DEF Ring!DmaCopies
  <2>2. held = Run(f, Moved) /\ call.at = Base
    BY <1>1, <1>11 DEF Transfer, Calling, f
  <2>3. mem[dma.at] = f + Moved
    BY <1>0, <1>2, <1>9, <1>11, <2>2 DEF Holds
  <2>4. held' = Run(f, Moved + 1)
    <3>1. Run(f + Moved, 1) = <<f + Moved>> /\ f + Moved \in Nat
      BY <1>2, <1>9, RunEnds
    <3>2. Run(f, Moved) \o Run(f + Moved, 1) = Run(f, Moved + 1) /\ Run(f, Moved) \in Seq(Nat)
      <4>1. 1 \in Nat /\ Moved \in Nat /\ f \in Nat
        BY <1>2, <1>9
      <4>2. Run(f, Moved) \o Run(f + Moved, 1) = Run(f, Moved + 1)
        BY <4>1, RunConcat
      <4>3. Run(f, Moved) \in Seq(Nat)
        BY <4>1, RunType
      <4> QED
        BY <4>2, <4>3
    <3>3. Append(Run(f, Moved), f + Moved) = Run(f, Moved) \o <<f + Moved>>
      BY <3>1, <3>2, AppendIsConcat
    <3> QED
      BY <2>1, <2>2, <2>3, <3>1, <3>2, <3>3
  <2>5. Kept'
    BY <1>3, <1>4, <2>1, KeptStays
  <2>6. held' = Run(sent' - numStoredBytes', Moved')
    BY <1>5, <1>9, <2>4
  <2>7. Transfer'
    BY <1>1, <1>3, <1>5, <1>6, <1>11, <2>6 DEF Transfer
  <2> QED
    BY <1>4, <2>5, <2>7
<1> QED
  BY <1>10, <1>11

LEMMA DStep ==
  ASSUME DmaLate = FALSE, DInv, [Ring!Next]_(Ring!vars)
  PROVE  DInv'
<1> USE DEF DInv
<1>0. numStoredBytes \in 0 .. Size /\ Ring!Free \in 0 .. Size /\ mainPushes \in BOOLEAN
  BY DEF RInv, Ring!TypeOK, Ring!Free
<1>r. RInv'
  BY StepKeeps
<1> DEFINE D == Kept /\ Calling /\ Transfer
<1>1. ASSUME Ring!ringBufPushByte PROVE D'
  BY <1>0, <1>1, StoreData DEF Ring!ringBufPushByte
<1>2. ASSUME NEW k \in 1 .. MaxReq,
             \/ Ring!ringBufPush(k) \/ Ring!ringBufPushStaticSrc(k)
             \/ Ring!ringBufPop(k) \/ Ring!ringBufPopStaticDst(k)
             \/ Ring!ringBufPeek(k)
             \/ Ring!ringBufPushDma(k) \/ Ring!ringBufPushStaticSrcDma(k)
             \/ Ring!ringBufPopStaticDstDma(k)
      PROVE  D'
  <2>1. /\ Ring!Least(k, Ring!Free) \in 0 .. Ring!Free
        /\ Ring!Least(k, numStoredBytes) \in 0 .. numStoredBytes
        /\ Ring!Least(k, Ring!Free) \in 0 .. MaxReq /\ k \in 0 .. MaxReq
    BY <1>0 DEF Ring!Least
  <2>2. CASE Ring!ringBufPush(k) \/ Ring!ringBufPushStaticSrc(k)
    BY <2>1, <2>2, StoreData DEF Ring!ringBufPush, Ring!ringBufPushStaticSrc
  <2>3. CASE Ring!ringBufPop(k) \/ Ring!ringBufPopStaticDst(k)
    BY <2>1, <2>3, TakeData DEF Ring!ringBufPop, Ring!ringBufPopStaticDst
  <2>4. CASE Ring!ringBufPeek(k)
    BY <2>4, PeekData
  <2>5. CASE Ring!ringBufPushDma(k) \/ Ring!ringBufPushStaticSrcDma(k)
    BY <2>1, <2>5, StartData DEF Ring!ringBufPushDma, Ring!ringBufPushStaticSrcDma
  <2>6. CASE Ring!ringBufPopStaticDstDma(k)
    BY <2>1, <2>6, StartData DEF Ring!ringBufPopStaticDstDma, Ring!MainPops
  <2> QED
    BY <1>2, <2>2, <2>3, <2>4, <2>5, <2>6
<1>3. ASSUME Ring!PeekCopies PROVE D'
  BY <1>3, PeekData, 1 \in 1 .. MaxReq
<1>4. ASSUME UNCHANGED Ring!vars PROVE D'
  BY <1>4 DEF Ring!vars, Kept, Holds, Base, Calling, Transfer, Goal, Moved
<1> HIDE DEF DInv
<1>5. D'
  BY <1>1, <1>2, <1>3, <1>4, PopByteData, FlushData, ArmFirstData, ArmSecondData,
     CountData, CopyData
  DEF Ring!Next
<1> QED
  BY <1>r, <1>5 DEF DInv

------------------------------------------------------------------------------
(* Every step of RingBuf is a step of the queue, or none.                        *)
LEMMA StoredIs ==
  ASSUME DInv
  PROVE  /\ Ring!Stored = Run(sent - numStoredBytes, numStoredBytes)
         /\ sent - numStoredBytes \in Nat /\ numStoredBytes \in 0 .. Size /\ sent \in Nat
<1> USE DEF DInv, RInv
<1>1. numStoredBytes \in 0 .. Size /\ sent \in Nat /\ numStoredBytes \in 0 .. numStoredBytes
  BY DEF Ring!TypeOK
<1>2. sent - numStoredBytes \in Nat /\ Holds(mem, Base, sent - numStoredBytes, numStoredBytes)
  BY <1>1 DEF Kept
<1>3. Base \in Ring!Slots
  BY FromBase
<1>4. Ring!BytesAt(Base, numStoredBytes) = Run(sent - numStoredBytes, numStoredBytes)
  BY <1>1, <1>2, <1>3, HoldsRead
<1>5. Ring!Stored = Ring!BytesAt(Base, numStoredBytes)
  BY Zenon DEF Ring!Stored, Base, Behind
<1> QED
  BY <1>1, <1>2, <1>4, <1>5

StoredRight ==
  /\ Ring!Stored = Run(sent - numStoredBytes, numStoredBytes)
  /\ sent - numStoredBytes \in Nat /\ numStoredBytes \in 0 .. Size /\ sent \in Nat

LEMMA StoredIsNext == DInv' => StoredRight'
<1>1. DInv => StoredRight
  BY StoredIs DEF StoredRight
<1> QED
  BY <1>1, PTL

(* What a step of the buffer is for its users.                                   *)
LEMMA PutMaps ==
  ASSUME DInv, DInv', NEW k \in 0 .. MaxReq,
         numStoredBytes' = numStoredBytes + k, sent' = sent + k, UNCHANGED <<out, seen>>
  PROVE  Ring!Q!Next
<1> DEFINE f == sent - numStoredBytes
           c == numStoredBytes
<1>1. Ring!Stored = Run(f, c) /\ f \in Nat /\ c \in 0 .. Size /\ f + c = sent
  BY StoredIs
<1>2. Ring!Stored' = Run(sent' - numStoredBytes', numStoredBytes') /\ numStoredBytes' \in 0 .. Size
  BY StoredIsNext DEF StoredRight
<1>3. sent' - numStoredBytes' = f /\ numStoredBytes' = c + k
  BY <1>1
<1>4. c + k <= Size /\ k \in Nat /\ c \in Nat
  BY <1>1, <1>2, <1>3
<1> HIDE DEF f, c
<1>5. Run(f, c) \o Run(f + c, k) = Run(f, c + k) /\ Len(Run(f, c)) = c
  BY <1>1, <1>4, RunConcat, RunType
<1>6. Ring!Stored' = Ring!Stored \o Run(sent, k)
  BY <1>1, <1>2, <1>3, <1>5
<1>7. Len(Ring!Stored) + k <= Size
  BY <1>1, <1>4, <1>5
<1>8. Ring!Q!Put(k)
  BY <1>6, <1>7, Zenon DEF Ring!Q!Put, Run
<1> QED
  BY <1>8, Zenon DEF Ring!Q!Next

LEMMA GetMaps ==
  ASSUME DInv, DInv', NEW k \in 0 .. MaxReq, k <= numStoredBytes,
         numStoredBytes' = numStoredBytes - k, sent' = sent, seen' = seen,
         out' = Run(sent - numStoredBytes, k)
  PROVE  Ring!Q!Next
<1> DEFINE f == sent - numStoredBytes
           c == numStoredBytes
<1>1. Ring!Stored = Run(f, c) /\ f \in Nat /\ c \in Nat /\ k \in 0 .. c
  BY StoredIs
<1>2. Ring!Stored' = Run(sent' - numStoredBytes', numStoredBytes')
  BY StoredIsNext DEF StoredRight
<1>3. sent' - numStoredBytes' = f + k /\ numStoredBytes' = c - k /\ out' = Run(f, k)
  BY <1>1, StoredIs
<1> HIDE DEF f, c
<1>4. /\ SubSeq(Run(f, c), 1, k) = Run(f, k)
      /\ SubSeq(Run(f, c), k + 1, Len(Run(f, c))) = Run(f + k, c - k)
  BY <1>1, RunParts
<1>5. Len(Ring!Stored) = c
  BY <1>1, RunType
<1>6. Ring!Q!Get(k)
  BY <1>1, <1>2, <1>3, <1>4, <1>5 DEF Ring!Q!Get
<1> QED
  BY <1>6, Zenon DEF Ring!Q!Next

LEMMA LookMaps ==
  ASSUME DInv, DInv', NEW k \in 0 .. MaxReq, k <= numStoredBytes,
         numStoredBytes' = numStoredBytes, sent' = sent, out' = out,
         seen' = Run(sent - numStoredBytes, k)
  PROVE  Ring!Q!Next
<1> DEFINE f == sent - numStoredBytes
           c == numStoredBytes
<1>1. Ring!Stored = Run(f, c) /\ f \in Nat /\ c \in Nat /\ k \in 0 .. c
  BY StoredIs
<1>2. Ring!Stored' = Ring!Stored
  BY StoredIs, StoredIsNext DEF StoredRight
<1> HIDE DEF f, c
<1>3. SubSeq(Run(f, c), 1, k) = Run(f, k) /\ Len(Run(f, c)) = c
  BY <1>1, RunParts, RunType
<1>4. Ring!Q!Look(k)
  BY <1>1, <1>2, <1>3 DEF Ring!Q!Look, f
<1> QED
  BY <1>4, Zenon DEF Ring!Q!Next

LEMMA StutterMaps ==
  ASSUME DInv, DInv', UNCHANGED <<numStoredBytes, sent, out, seen>>
  PROVE  UNCHANGED Ring!Q!vars
<1>1. Ring!Stored' = Ring!Stored
  BY StoredIs, StoredIsNext DEF StoredRight
<1> QED
  BY <1>1 DEF Ring!Q!vars

LEMMA StoreMaps ==
  ASSUME DInv, DInv', NEW k \in 0 .. MaxReq, Ring!Store(k)
  PROVE  Ring!Q!Next
BY PutMaps DEF Ring!Store

LEMMA TakeMaps ==
  ASSUME DInv, DInv', NEW k \in 0 .. MaxReq, k <= numStoredBytes, Ring!Take(k), Ring!PopperRuns
  PROVE  Ring!Q!Next
<1>0. Ring!TypeOK /\ tail \in Ring!Slots
  BY DEF DInv, RInv, Ring!TypeOK
<1>1. tail = Base /\ Base \in Ring!Slots
  <2>1. Base \in Ring!Slots /\ (mainPushes => tail = Base)
        /\ (~mainPushes => tail = Ring!Around(Base + Ring!Uncounted))
    BY FromBase DEF DInv, Ring!PopperRuns
  <2>2. ~mainPushes => Ring!Uncounted = 0
    BY DEF Ring!PopperRuns, Ring!Uncounted
  <2> QED
    BY <1>0, <2>1, <2>2 DEF Ring!Around, Ring!Slots
<1>2. /\ sent - numStoredBytes \in Nat /\ numStoredBytes \in 0 .. Size /\ k \in 0 .. numStoredBytes
      /\ Holds(mem, Base, sent - numStoredBytes, numStoredBytes)
  BY StoredIs DEF DInv, Kept
<1>3. Ring!BytesAt(tail, k) = Run(sent - numStoredBytes, k)
  BY <1>0, <1>1, <1>2, HoldsRead
<1> QED
  BY <1>3, GetMaps DEF Ring!Take

LEMMA RingMaps ==
  ASSUME DmaLate = FALSE, DInv, DInv', [Ring!Next]_(Ring!vars)
  PROVE  [Ring!Q!Next]_(Ring!Q!vars)
<1>0. /\ numStoredBytes \in 0 .. Size /\ Ring!Free \in 0 .. Size /\ call.n \in Nat
      /\ 1 \in 0 .. MaxReq /\ 0 \in 0 .. MaxReq /\ mainPushes \in BOOLEAN
      /\ Ring!TypeOK /\ Base \in Ring!Slots /\ sent - numStoredBytes \in Nat
  <2>1. Ring!TypeOK /\ RInv
    BY DEF DInv, RInv
  <2>2. Base \in Ring!Slots /\ sent - numStoredBytes \in Nat
    BY <2>1, FromBase, StoredIs
  <2> QED
    BY <2>1, <2>2 DEF Ring!TypeOK, Ring!Free
<1>1. ASSUME Ring!ringBufPushByte PROVE Ring!Q!Next
  BY <1>0, <1>1, StoreMaps DEF Ring!ringBufPushByte
<1>2. ASSUME NEW k \in 1 .. MaxReq,
             \/ Ring!ringBufPush(k) \/ Ring!ringBufPushStaticSrc(k)
             \/ Ring!ringBufPop(k) \/ Ring!ringBufPopStaticDst(k)
      PROVE  Ring!Q!Next
  <2>1. /\ Ring!Least(k, Ring!Free) \in 0 .. MaxReq
        /\ Ring!Least(k, numStoredBytes) \in 0 .. MaxReq
        /\ Ring!Least(k, numStoredBytes) <= numStoredBytes
    BY <1>0 DEF Ring!Least
  <2>2. CASE Ring!ringBufPush(k) \/ Ring!ringBufPushStaticSrc(k)
    BY <2>1, <2>2, StoreMaps DEF Ring!ringBufPush, Ring!ringBufPushStaticSrc
  <2>3. CASE Ring!ringBufPop(k) \/ Ring!ringBufPopStaticDst(k)
    BY <2>1, <2>3, TakeMaps DEF Ring!ringBufPop, Ring!ringBufPopStaticDst
  <2> QED
    BY <1>2, <2>2, <2>3
<1>3. ASSUME NEW k \in 1 .. MaxReq,
             \/ Ring!ringBufPeek(k)
             \/ Ring!ringBufPushDma(k) \/ Ring!ringBufPushStaticSrcDma(k)
             \/ Ring!ringBufPopStaticDstDma(k)
      PROVE  UNCHANGED Ring!Q!vars
  BY <1>3, StutterMaps DEF Ring!ringBufPeek, Ring!ringBufPushDma, Ring!ringBufPushStaticSrcDma,
     Ring!ringBufPopStaticDstDma, Ring!StartDmaCall
<1>4. ASSUME Ring!ringBufPopByte PROVE UNCHANGED Ring!Q!vars
  BY <1>4, StutterMaps DEF Ring!ringBufPopByte
<1>5. ASSUME Ring!PopByteCounts PROVE Ring!Q!Next
  <2>1. ringPc = "popped" /\ numStoredBytes > 0 /\ held = Run(sent - numStoredBytes, 1)
    BY <1>5 DEF Ring!PopByteCounts, DInv, RInv, CallOK, Transfer
  <2>2. /\ numStoredBytes' = numStoredBytes - 1 /\ sent' = sent /\ seen' = seen /\ out' = held
    BY <1>5 DEF Ring!PopByteCounts
  <2> QED
    BY <1>0, <2>1, <2>2, GetMaps
<1>6. ASSUME Ring!PeekCopies PROVE Ring!Q!Next
  <2> DEFINE k == Ring!Least(call.n, numStoredBytes)
  <2>1. ringPc = "peek" /\ ~mainPushes /\ call.at = Base /\ call.n \in 1 .. MaxReq
    BY <1>6 DEF Ring!PeekCopies, DInv, RInv, CallOK, Calling
  <2>2. k \in 0 .. MaxReq /\ k <= numStoredBytes /\ k \in 0 .. numStoredBytes
    BY <1>0, <2>1 DEF Ring!Least
  <2>3. /\ numStoredBytes' = numStoredBytes /\ sent' = sent /\ out' = out
        /\ seen' = Ring!BytesAt(Base, k)
    BY <1>6, <2>1 DEF Ring!PeekCopies
  <2> HIDE DEF k
  <2>4. Holds(mem, Base, sent - numStoredBytes, numStoredBytes)
    BY DEF DInv, Kept
  <2>5. Ring!BytesAt(Base, k) = Run(sent - numStoredBytes, k)
    BY <1>0, <2>2, <2>4, HoldsRead
  <2> QED
    BY <2>2, <2>3, <2>5, LookMaps
<1>7. ASSUME Ring!ringBufFlush PROVE UNCHANGED Ring!Q!vars
  BY <1>7, StutterMaps DEF Ring!ringBufFlush
<1>8. ASSUME Ring!FlushCounts PROVE Ring!Q!Next
  <2>1. numStoredBytes' = 0 /\ UNCHANGED <<sent, out, seen>>
    BY <1>8 DEF Ring!FlushCounts
  <2>2. Ring!Stored' = Run(sent' - 0, 0) /\ sent' - 0 \in Nat
    BY <2>1, StoredIsNext DEF StoredRight
  <2>3. Ring!Stored' = <<>>
    BY <2>2, RunEnds
  <2> QED
    BY <2>1, <2>3 DEF Ring!Q!Next, Ring!Q!Flush
<1>9. ASSUME Ring!ArmFirst \/ Ring!ArmSecond \/ Ring!DmaCopies PROVE UNCHANGED Ring!Q!vars
  BY <1>9, StutterMaps DEF Ring!ArmFirst, Ring!ArmSecond, Ring!DmaCopies
<1>10. ASSUME Ring!CountDma PROVE Ring!Q!Next
  <2>1. /\ ringPc = "count" /\ dma.left = 0 /\ call.n \in 0 .. MaxReq
        /\ call.n <= IF mainPushes THEN Ring!Free ELSE numStoredBytes
    BY <1>10 DEF Ring!CountDma, DInv, RInv, CallOK, Calling
  <2>2. CASE mainPushes
    BY <1>10, <2>1, <2>2, PutMaps DEF Ring!CountDma
  <2>3. CASE ~mainPushes
    <3>1. held = Run(sent - numStoredBytes, call.n)
      BY <1>0, <2>1, <2>3 DEF DInv, Transfer, Moved, Goal
    <3> QED
      BY <1>10, <2>1, <2>3, <3>1, GetMaps DEF Ring!CountDma
  <2> QED
    BY <2>2, <2>3
<1>11. ASSUME UNCHANGED Ring!vars PROVE UNCHANGED Ring!Q!vars
  BY <1>11, StutterMaps DEF Ring!vars
<1> QED
  BY <1>1, <1>2, <1>3, <1>4, <1>5, <1>6, <1>7, <1>8, <1>9, <1>10, <1>11 DEF Ring!Next

LEMMA RingStarts == Ring!Init => Ring!Q!Init
<1> SUFFICES ASSUME Ring!Init PROVE Ring!Q!Init
  OBVIOUS
<1>1. numStoredBytes = 0 /\ sent = 0 /\ out = <<>> /\ seen = <<>>
  BY DEF Ring!Init, Ring!ringBufInit
<1>2. Ring!Stored = Run(0, 0)
  BY <1>1, DStart, StoredIs
<1>3. Run(0, 0) = <<>>
  BY RunEnds
<1> QED
  BY <1>1, <1>2, <1>3 DEF Ring!Q!Init

LEMMA RingIsQueue == DmaLate = FALSE => (Ring!Init /\ [][Ring!Next]_(Ring!vars) => Ring!IsQueue)
<1> SUFFICES ASSUME DmaLate = FALSE
             PROVE  Ring!Init /\ [][Ring!Next]_(Ring!vars) => Ring!Q!Spec
  BY DEF Ring!IsQueue
<1>1. Ring!Init => DInv
  BY DStart
<1>2. DInv /\ [Ring!Next]_(Ring!vars) => DInv'
  BY DStep
<1>3. DInv /\ DInv' /\ [Ring!Next]_(Ring!vars) => [Ring!Q!Next]_(Ring!Q!vars)
  BY RingMaps
<1> QED
  BY <1>1, <1>2, <1>3, RingStarts, PTL DEF Ring!Q!Spec

------------------------------------------------------------------------------
HIDE RingAssumption
USE SizeAssumption

(* The buffers of Uart: what bufPut, bufGet and bufPeek do to consecutive bytes. *)
BufferType == [pData : [Slots -> Nat], nBytes : 0 .. BUF_SIZE - 1, iHead : Slots, iTail : Slots]

(* The buffer holds the bytes from f on.                                         *)
BufHolds(buf, f) ==
  /\ buf \in BufferType
  /\ buf.iTail = Advance(buf.iHead, buf.nBytes)
  /\ \A y \in Nat : y < buf.nBytes => buf.pData[Advance(buf.iHead, y)] = f + y

LEMMA AdvanceTwice ==
  ASSUME NEW h \in Slots, NEW c \in Nat, NEW d \in Nat, c + d < BUF_SIZE
  PROVE  /\ Advance(h, c) \in Slots
         /\ Advance(Advance(h, c), d) = Advance(h, c + d)
BY DEF Advance, Slots

LEMMA DistanceIs ==
  ASSUME NEW h \in Slots, NEW c \in Slots, NEW y \in Slots
  PROVE  Distance(Advance(h, c), Advance(h, y)) = IF y >= c THEN y - c ELSE y + BUF_SIZE - c
BY DEF Advance, Distance, Slots

LEMMA StepsType ==
  ASSUME NEW i \in Slots, NEW j \in Slots, NEW k \in Nat, k < BUF_SIZE
  PROVE  Distance(i, j) \in Nat /\ Advance(i, k) \in Slots
BY DEF Distance, Advance, Slots

LEMMA PeekIs ==
  ASSUME NEW buf, NEW f \in Nat, NEW k \in Nat, BufHolds(buf, f)
  PROVE  /\ bufPeek(buf, k) = Run(f, Least(k, buf.nBytes))
         /\ All(buf) = Run(f, buf.nBytes)
<1>0. buf.nBytes \in Nat
  BY DEF BufHolds, BufferType
<1>1. \A i \in 1 .. buf.nBytes : buf.pData[Advance(buf.iHead, i - 1)] = f + i - 1
  <2> SUFFICES ASSUME NEW i \in 1 .. buf.nBytes PROVE buf.pData[Advance(buf.iHead, i - 1)] = f + i - 1
    OBVIOUS
  <2>1. i - 1 \in Nat /\ i - 1 < buf.nBytes /\ f + (i - 1) = f + i - 1
    BY <1>0
  <2>2. buf.pData[Advance(buf.iHead, i - 1)] = f + (i - 1)
    BY <2>1 DEF BufHolds
  <2> QED
    BY <2>1, <2>2
<1>2. \A d \in Nat : \A i \in 1 .. Least(d, buf.nBytes) : i \in 1 .. buf.nBytes
  BY <1>0 DEF Least
<1>3. \A d \in Nat : bufPeek(buf, d) = Run(f, Least(d, buf.nBytes))
  <2> SUFFICES ASSUME NEW d \in Nat PROVE bufPeek(buf, d) = Run(f, Least(d, buf.nBytes))
    OBVIOUS
  <2>1. \A i \in 1 .. Least(d, buf.nBytes) : buf.pData[Advance(buf.iHead, i - 1)] = f + i - 1
    BY <1>1, <1>2
  <2> QED
    BY <2>1, Zenon DEF bufPeek, Run
<1>4. Least(buf.nBytes, buf.nBytes) = buf.nBytes
  BY DEF Least
<1> QED
  BY <1>0, <1>3, <1>4 DEF All

LEMMA GetIs ==
  ASSUME NEW buf, NEW f \in Nat, NEW k \in Nat, BufHolds(buf, f)
  PROVE  /\ Least(k, buf.nBytes) \in 0 .. buf.nBytes
         /\ bufGet(buf, k).nBytes = buf.nBytes - Least(k, buf.nBytes)
         /\ BufHolds(bufGet(buf, k), f + Least(k, buf.nBytes))
<1> DEFINE c == Least(k, buf.nBytes)
<1>0. /\ buf \in BufferType /\ buf.nBytes \in 0 .. BUF_SIZE - 1 /\ buf.iHead \in Slots
      /\ buf.iTail = Advance(buf.iHead, buf.nBytes)
  BY DEF BufHolds, BufferType
<1>1. c \in 0 .. buf.nBytes
  BY <1>0 DEF Least
<1>2. bufGet(buf, k) = [buf EXCEPT !.iHead = Advance(buf.iHead, c), !.nBytes = buf.nBytes - c]
  BY <1>0 DEF bufGet, BufferType
<1> HIDE DEF c
<1>3. Advance(buf.iHead, c) \in Slots /\ buf.nBytes - c \in 0 .. BUF_SIZE - 1
  BY <1>0, <1>1, AdvanceTwice DEF Advance, Slots
<1> DEFINE g == bufGet(buf, k)
<1>4. /\ g \in BufferType /\ g.iHead = Advance(buf.iHead, c) /\ g.nBytes = buf.nBytes - c
      /\ g.pData = buf.pData /\ g.iTail = buf.iTail
  BY <1>0, <1>2, <1>3 DEF BufferType
<1> HIDE DEF g
<1>5. g.iTail = Advance(g.iHead, g.nBytes)
  <2>1. c \in Nat /\ buf.nBytes - c \in Nat /\ c + (buf.nBytes - c) = buf.nBytes /\ buf.nBytes < BUF_SIZE
    BY <1>0, <1>1
  <2> QED
    BY <1>0, <1>4, <2>1, AdvanceTwice
<1>6. ASSUME NEW y \in Nat, y < g.nBytes PROVE g.pData[Advance(g.iHead, y)] = f + c + y
  <2>1. c \in Nat /\ c + y \in Nat /\ c + y < buf.nBytes /\ c + y < BUF_SIZE /\ f + (c + y) = f + c + y
    BY <1>0, <1>1, <1>4, <1>6
  <2>2. Advance(g.iHead, y) = Advance(buf.iHead, c + y)
    BY <1>0, <1>4, <2>1, AdvanceTwice
  <2>3. buf.pData[Advance(buf.iHead, c + y)] = f + (c + y)
    BY <2>1 DEF BufHolds
  <2> QED
    BY <1>4, <2>1, <2>2, <2>3
<1>7. BufHolds(g, f + c)
  BY <1>4, <1>5, <1>6 DEF BufHolds
<1> QED
  BY <1>1, <1>4, <1>7 DEF g, c

LEMMA PutIs ==
  ASSUME NEW buf, NEW f \in Nat, NEW k \in Nat, NEW first, BufHolds(buf, f), first = f + buf.nBytes,
         Fits(buf, k)
  PROVE  /\ bufPut(buf, first, k).nBytes = buf.nBytes + k
         /\ BufHolds(bufPut(buf, first, k), f)
<1>0. /\ buf \in BufferType /\ buf.nBytes \in 0 .. BUF_SIZE - 1 /\ buf.iHead \in Slots
      /\ buf.iTail = Advance(buf.iHead, buf.nBytes) /\ buf.iTail \in Slots
      /\ buf.nBytes + k < BUF_SIZE /\ buf.pData \in [Slots -> Nat] /\ buf.nBytes \in Nat
  BY DEF BufHolds, BufferType, Fits
<1> DEFINE D == [s \in Slots |-> IF Distance(buf.iTail, s) < k
                                 THEN first + Distance(buf.iTail, s) ELSE buf.pData[s]]
           t == Advance(buf.iTail, k)
           c == buf.nBytes + k
<1>1. D \in [Slots -> Nat]
  <2>1. \A s \in Slots : Distance(buf.iTail, s) \in Nat
    BY <1>0, 0 \in Nat, StepsType
  <2>2. first \in Nat
    BY <1>0
  <2> QED
    BY <1>0, <2>1, <2>2
<1>2. t \in Slots /\ c \in 0 .. BUF_SIZE - 1 /\ t = Advance(buf.iHead, c)
  <2>1. k < BUF_SIZE /\ c \in 0 .. BUF_SIZE - 1
    BY <1>0
  <2>2. t \in Slots
    BY <1>0, <2>1, StepsType
  <2>3. t = Advance(buf.iHead, c)
    BY <1>0, AdvanceTwice
  <2> QED
    BY <2>1, <2>2, <2>3
<1>3. bufPut(buf, first, k) = [buf EXCEPT !.pData = D, !.iTail = t, !.nBytes = c]
  BY <1>0 DEF bufPut, BufferType
<1>4. ASSUME NEW y \in Nat, y < c PROVE D[Advance(buf.iHead, y)] = f + y
  <2> DEFINE s == Advance(buf.iHead, y)
             d == Distance(buf.iTail, s)
  <2>1. y \in Slots /\ buf.nBytes \in Slots /\ s \in Slots
    <3>1. y < BUF_SIZE
      BY <1>0, <1>4
    <3>2. s \in Slots
      BY <1>0, <3>1, StepsType
    <3> QED
      BY <1>0, <3>1, <3>2 DEF Slots
  <2>2. d = IF y >= buf.nBytes THEN y - buf.nBytes ELSE y + BUF_SIZE - buf.nBytes
    <3>1. d = Distance(Advance(buf.iHead, buf.nBytes), Advance(buf.iHead, y))
      BY <1>0
    <3> QED
      BY <1>0, <2>1, <3>1, DistanceIs
  <2>3. D[s] = IF d < k THEN first + d ELSE buf.pData[s]
    BY <2>1
  <2> HIDE DEF d, D
  <2>4. CASE y >= buf.nBytes
    BY <1>0, <1>4, <2>2, <2>3, <2>4
  <2>5. CASE ~(y >= buf.nBytes)
    <3>1. ~(d < k)
      BY <1>0, <2>2, <2>5
    <3>2. buf.pData[s] = f + y
      BY <1>0, <2>5 DEF BufHolds
    <3> QED
      BY <2>3, <3>1, <3>2
  <2> QED
    BY <2>4, <2>5
<1> HIDE DEF D, t, c
<1> DEFINE p == bufPut(buf, first, k)
<1>5. p \in BufferType /\ p.pData = D /\ p.iTail = t /\ p.nBytes = c /\ p.iHead = buf.iHead
  BY <1>0, <1>1, <1>2, <1>3 DEF BufferType
<1> HIDE DEF p
<1>6. BufHolds(p, f)
  BY <1>2, <1>4, <1>5 DEF BufHolds
<1> QED
  BY <1>5, <1>6 DEF p, c

LEMMA InitIs ==
  ASSUME NEW f \in Nat
  PROVE  BufHolds(bufInit, f) /\ bufInit.nBytes = 0
BY DEF BufHolds, BufferType, bufInit, Advance, Slots

------------------------------------------------------------------------------
(* The buffer of what was received.                                              *)
RxInv == /\ received \in Nat /\ rbRxBuf.nBytes <= received
         /\ BufHolds(rbRxBuf, received - rbRxBuf.nBytes)

RxRight == /\ All(rbRxBuf) = Run(received - rbRxBuf.nBytes, rbRxBuf.nBytes)
           /\ received - rbRxBuf.nBytes \in Nat /\ rbRxBuf.nBytes \in 0 .. BUF_SIZE - 1

LEMMA RxNumbers == RxInv => RxRight
<1> SUFFICES ASSUME RxInv PROVE RxRight
  OBVIOUS
<1>1. rbRxBuf.nBytes \in 0 .. BUF_SIZE - 1 /\ received - rbRxBuf.nBytes \in Nat /\ rbRxBuf.nBytes \in Nat
  BY DEF RxInv, BufHolds, BufferType
<1>2. BufHolds(rbRxBuf, received - rbRxBuf.nBytes)
  BY DEF RxInv
<1>3. All(rbRxBuf) = Run(received - rbRxBuf.nBytes, rbRxBuf.nBytes)
  BY <1>1, <1>2, PeekIs
<1> QED
  BY <1>1, <1>3 DEF RxRight

LEMMA RxNumbersNext == RxInv' => RxRight'
  BY RxNumbers, PTL

LEMMA RxPut ==
  ASSUME RxInv, Accept, UNCHANGED <<got, peeked>>
  PROVE  RxInv' /\ [Rx!Next]_(Rx!vars)
<1> DEFINE f == received - rbRxBuf.nBytes
           c == rbRxBuf.nBytes
<1>1. All(rbRxBuf) = Run(f, c) /\ f \in Nat /\ c \in 0 .. BUF_SIZE - 1 /\ received = f + c
  BY RxNumbers DEF RxRight, RxInv
<1>2. CASE Fits(rbRxBuf, 1)
  <2>1. rbRxBuf' = bufPut(rbRxBuf, received, 1) /\ received' = received + 1
    BY <1>2 DEF Accept
  <2>2. rbRxBuf'.nBytes = c + 1 /\ BufHolds(rbRxBuf', f)
    BY <1>1, <1>2, <2>1, PutIs DEF RxInv
  <2>3. received' - rbRxBuf'.nBytes = f /\ received' \in Nat /\ rbRxBuf'.nBytes <= received'
    BY <1>1, <2>1, <2>2
  <2>4. RxInv'
    BY <2>2, <2>3 DEF RxInv
  <2>5. All(rbRxBuf)' = Run(f, c + 1)
    BY <2>2, <2>3, <2>4, RxNumbersNext DEF RxRight
  <2> HIDE DEF f, c
  <2>6. /\ Run(f, c) \o Run(f + c, 1) = Run(f, c + 1) /\ Len(Run(f, c)) = c
        /\ c + 1 <= BUF_SIZE - 1 /\ 1 \in 0 .. BUF_SIZE
    <3>1. c + 1 < BUF_SIZE
      BY <1>2 DEF Fits, c
    <3>2. Run(f, c) \o Run(f + c, 1) = Run(f, c + 1) /\ Len(Run(f, c)) = c
      BY <1>1, 1 \in Nat, c \in Nat, RunConcat, RunType
    <3> QED
      BY <1>1, <3>1, <3>2
  <2>7. All(rbRxBuf)' = All(rbRxBuf) \o Run(received, 1)
    BY <1>1, <2>5, <2>6
  <2>8. Len(All(rbRxBuf)) + 1 <= BUF_SIZE - 1
    BY <1>1, <2>6
  <2>9. Rx!Put(1)
    BY <2>1, <2>7, <2>8, Zenon DEF Rx!Put, Run
  <2> QED
    BY <2>4, <2>6, <2>9 DEF Rx!Next
<1>3. CASE ~Fits(rbRxBuf, 1)
  <2>1. rbRxBuf' = rbRxBuf /\ received' = received
    BY <1>3 DEF Accept, bufPut
  <2> QED
    BY <2>1 DEF RxInv, Rx!vars
<1> QED
  BY <1>2, <1>3

LEMMA RxTake ==
  ASSUME RxInv, NEW k \in 1 .. BUF_SIZE, halUartRead(k) \/ Look(k)
  PROVE  RxInv' /\ [Rx!Next]_(Rx!vars)
<1> DEFINE f == received - rbRxBuf.nBytes
           c == rbRxBuf.nBytes
           l == Least(k, c)
<1>1. All(rbRxBuf) = Run(f, c) /\ f \in Nat /\ c \in Nat /\ received = f + c /\ received \in Nat
  BY RxNumbers DEF RxRight, RxInv
<1>2. /\ bufPeek(rbRxBuf, k) = Run(f, l)
      /\ l \in 0 .. c /\ bufGet(rbRxBuf, k).nBytes = c - l /\ BufHolds(bufGet(rbRxBuf, k), f + l)
  BY <1>1, k \in Nat, PeekIs, GetIs DEF RxInv
<1>3. l \in 0 .. BUF_SIZE
  BY <1>1, <1>2 DEF Least
<1> HIDE DEF l
<1>4. CASE halUartRead(k)
  <2>1. /\ got' = Run(f, l) /\ rbRxBuf' = bufGet(rbRxBuf, k) /\ received' = received
        /\ peeked' = peeked
    BY <1>2, <1>4 DEF halUartRead
  <2>2. /\ rbRxBuf'.nBytes = c - l /\ received' - rbRxBuf'.nBytes = f + l
        /\ rbRxBuf'.nBytes <= received'
    BY <1>1, <1>2, <2>1
  <2>3. RxInv'
    BY <1>1, <1>2, <2>1, <2>2 DEF RxInv
  <2>4. All(rbRxBuf)' = Run(f + l, c - l)
    BY <2>2, <2>3, RxNumbersNext DEF RxRight
  <2> HIDE DEF f, c
  <2>5. /\ SubSeq(Run(f, c), 1, l) = Run(f, l)
        /\ SubSeq(Run(f, c), l + 1, Len(Run(f, c))) = Run(f + l, c - l)
        /\ Len(Run(f, c)) = c
    BY <1>1, <1>2, RunParts, RunType
  <2>6. Rx!Get(l)
    BY <1>1, <1>2, <2>1, <2>4, <2>5 DEF Rx!Get
  <2> QED
    BY <1>3, <2>3, <2>6 DEF Rx!Next
<1>5. CASE Look(k)
  <2>1. /\ peeked' = Run(f, l) /\ rbRxBuf' = rbRxBuf /\ received' = received /\ got' = got
    BY <1>2, <1>5 DEF Look
  <2>2. RxInv' /\ All(rbRxBuf)' = All(rbRxBuf)
    BY <2>1 DEF RxInv, All
  <2> HIDE DEF f, c
  <2>3. SubSeq(Run(f, c), 1, l) = Run(f, l) /\ Len(Run(f, c)) = c
    BY <1>1, <1>2, RunParts, RunType
  <2>4. Rx!Look(l)
    BY <1>1, <1>2, <2>1, <2>2, <2>3 DEF Rx!Look
  <2> QED
    BY <1>3, <2>2, <2>4 DEF Rx!Next
<1> QED
  BY <1>4, <1>5

LEMMA RxSame ==
  ASSUME RxInv, UNCHANGED <<rbRxBuf, received, got, peeked>>
  PROVE  RxInv' /\ UNCHANGED Rx!vars
BY DEF RxInv, Rx!vars, All

LEMMA RxStep ==
  ASSUME RxInv, Receive \/ UNCHANGED rxVars
  PROVE  RxInv' /\ [Rx!Next]_(Rx!vars)
<1>1. CASE Arrive
  BY <1>1, RxSame DEF Arrive
<1>2. CASE uart0RxISR
  BY <1>2, RxPut, RxSame DEF uart0RxISR
<1>3. CASE UsbGive
  BY <1>3, RxPut DEF UsbGive
<1>4. CASE bufFlush
  <2>1. rbRxBuf' = bufInit /\ received' = received /\ got' = got /\ peeked' = peeked
    BY <1>4 DEF bufFlush
  <2>2. received \in Nat
    BY DEF RxInv
  <2>3. BufHolds(rbRxBuf', received) /\ rbRxBuf'.nBytes = 0
    BY <2>1, <2>2, InitIs
  <2>4. RxInv'
    BY <2>1, <2>2, <2>3 DEF RxInv
  <2>5. All(rbRxBuf)' = Run(received, 0)
    BY <2>1, <2>2, <2>3, <2>4, RxNumbersNext DEF RxRight
  <2>6. All(rbRxBuf)' = <<>>
    BY <2>2, <2>5, RunEnds
  <2> QED
    BY <2>1, <2>4, <2>6 DEF Rx!Next, Rx!Flush
<1>5. ASSUME NEW k \in 1 .. BUF_SIZE, halUartRead(k) \/ Look(k)
      PROVE  RxInv' /\ [Rx!Next]_(Rx!vars)
  BY <1>5, RxTake
<1>6. ASSUME NEW e \in BOOLEAN, halUartEnableRxFlow(e)
      PROVE  RxInv' /\ [Rx!Next]_(Rx!vars)
  BY <1>6, RxSame DEF halUartEnableRxFlow
<1>7. CASE UNCHANGED rxVars
  BY <1>7, RxSame DEF rxVars
<1> QED
  BY <1>1, <1>2, <1>3, <1>4, <1>5, <1>6, <1>7 DEF Receive

LEMMA RxStart == Init => RxInv /\ Rx!Init
<1> SUFFICES ASSUME Init PROVE RxInv /\ Rx!Init
  OBVIOUS
<1>1. rbRxBuf = bufInit /\ received = 0 /\ got = <<>> /\ peeked = <<>>
  BY DEF Init, halUartInit
<1>2. RxInv
  BY <1>1, 0 \in Nat, InitIs DEF RxInv
<1>3. All(rbRxBuf) = Run(0, 0)
  BY <1>1, <1>2, RxNumbers, InitIs DEF RxRight
<1>4. All(rbRxBuf) = <<>>
  BY <1>3, RunEnds
<1> QED
  BY <1>1, <1>2, <1>4 DEF Rx!Init

------------------------------------------------------------------------------
(* What is to be sent: buffer, U0DBUF and shift register, the oldest byte last.  *)
InReg(r) == IF r = <<>> THEN 0 ELSE 1
Unsent == InReg(shift) + InReg(u0dbuf) + rbTxBuf.nBytes

TxData ==
  /\ written \in Nat /\ Unsent <= written
  /\ BufHolds(rbTxBuf, written - rbTxBuf.nBytes)
  /\ u0dbuf = Run(written - rbTxBuf.nBytes - InReg(u0dbuf), InReg(u0dbuf))
  /\ shift = Run(written - Unsent, InReg(shift))

(* U0DBUF is free whenever the program or the interrupt is about to write it.    *)
TxControl ==
  /\ todo \in Seq(1 .. BUF_SIZE - 1)
  /\ UTX0IF \in BOOLEAN
  /\ pc \in {"idle", "enable", "store", "wait"}
  /\ pc # "idle" => todo # <<>>
  /\ pc = "enable" => driver = "buffered"
  /\ pc \in {"store", "wait"} => driver = "polling"
  /\ pc = "store" => ~UTX0IF
  /\ driver = "buffered" /\ UTX0IF => u0dbuf = <<>>
  /\ driver = "polling" =>
       /\ rbTxBuf.nBytes = 0
       /\ pc \in {"idle", "store"} \/ UTX0IF => u0dbuf = <<>>
  /\ driver = "usb" => u0dbuf = <<>> /\ shift = <<>>

TxInv == TxData /\ TxControl

TxQueue == shift \o u0dbuf \o All(rbTxBuf)

TxRight == /\ TxQueue = Run(written - Unsent, Unsent)
           /\ written - Unsent \in Nat /\ Unsent \in 0 .. BUF_SIZE + 1
           /\ rbTxBuf.nBytes \in 0 .. BUF_SIZE - 1

LEMMA TxNumbers == TxInv => TxRight
<1> SUFFICES ASSUME TxInv PROVE TxRight
  OBVIOUS
<1> DEFINE c == rbTxBuf.nBytes
           d == InReg(u0dbuf)
           e == InReg(shift)
           f == written - Unsent
<1>1. c \in 0 .. BUF_SIZE - 1 /\ c \in Nat
  BY DEF TxInv, TxData, BufHolds, BufferType
<1>2. d \in 0 .. 1 /\ e \in 0 .. 1 /\ d \in Nat /\ e \in Nat
  BY DEF InReg
<1>3. Unsent = e + d + c /\ f \in Nat /\ Unsent \in 0 .. BUF_SIZE + 1 /\ written = f + e + d + c
  <2>1. c \in Nat /\ d \in Nat /\ e \in Nat
    BY <1>1, <1>2
  <2>2. Unsent = e + d + c /\ written \in Nat /\ Unsent <= written
    BY DEF Unsent, TxInv, TxData
  <2> HIDE DEF c, d, e
  <2> QED
    BY <1>1, <1>2, <2>1, <2>2
<1>4. /\ written - c \in Nat /\ written - c = f + (e + d) /\ written - c - d = f + e
  BY <1>1, <1>2, <1>3
<1>5. shift = Run(f, e) /\ u0dbuf = Run(f + e, d)
  BY <1>4 DEF TxInv, TxData
<1>6. All(rbTxBuf) = Run(f + (e + d), c)
  BY <1>1, <1>4, PeekIs DEF TxInv, TxData
<1> HIDE DEF c, d, e, f
<1>7. shift \o u0dbuf = Run(f, e + d)
  BY <1>2, <1>3, <1>5, RunConcat
<1>8. Run(f, e + d) \o Run(f + (e + d), c) = Run(f, (e + d) + c)
  BY <1>1, <1>2, <1>3, e + d \in Nat, RunConcat
<1>9. TxQueue = Run(f, Unsent)
  BY <1>3, <1>6, <1>7, <1>8 DEF TxQueue
<1> QED
  BY <1>1, <1>3, <1>9 DEF TxRight, c, f

LEMMA TxNumbersNext == TxInv' => TxRight'
  BY TxNumbers, PTL

LEMMA TxPut ==
  ASSUME TxInv, TxInv', NEW k \in 0 .. BUF_SIZE - 1,
         Unsent' = Unsent + k, written' = written + k, left' = left
  PROVE  Tx!Next
<1> DEFINE f == written - Unsent
           c == Unsent
<1>1. TxQueue = Run(f, c) /\ f \in Nat /\ c \in Nat /\ k \in Nat /\ f + c = written
  BY TxNumbers DEF TxRight, TxInv, TxData
<1>2. TxQueue' = Run(written' - Unsent', Unsent') /\ Unsent' <= BUF_SIZE + 1
  BY TxNumbersNext DEF TxRight
<1>3. written' - Unsent' = f /\ Unsent' = c + k /\ c + k <= BUF_SIZE + 1
  BY <1>1, <1>2
<1> HIDE DEF f, c
<1>4. Run(f, c) \o Run(f + c, k) = Run(f, c + k) /\ Len(Run(f, c)) = c
  BY <1>1, RunConcat, RunType
<1>5. TxQueue' = TxQueue \o Run(written, k) /\ Len(TxQueue) + k <= BUF_SIZE + 1
  BY <1>1, <1>2, <1>3, <1>4
<1>6. Tx!Put(k)
  BY <1>5, Zenon DEF Tx!Put, TxQueue, Run
<1> QED
  BY <1>6 DEF Tx!Next

LEMMA TxGet ==
  ASSUME TxInv, TxInv', NEW k \in 0 .. BUF_SIZE - 1, k <= Unsent,
         Unsent' = Unsent - k, written' = written, left' = Run(written - Unsent, k)
  PROVE  Tx!Next
<1> DEFINE f == written - Unsent
           c == Unsent
<1>1. TxQueue = Run(f, c) /\ f \in Nat /\ c \in Nat /\ k \in 0 .. c /\ f + c = written
  BY TxNumbers DEF TxRight, TxInv, TxData
<1>2. TxQueue' = Run(written' - Unsent', Unsent')
  BY TxNumbersNext DEF TxRight
<1>3. written' - Unsent' = f + k /\ Unsent' = c - k /\ left' = Run(f, k)
  BY <1>1
<1> HIDE DEF f, c
<1>4. /\ SubSeq(Run(f, c), 1, k) = Run(f, k)
      /\ SubSeq(Run(f, c), k + 1, Len(Run(f, c))) = Run(f + k, c - k)
      /\ Len(Run(f, c)) = c
  BY <1>1, RunParts, RunType
<1>5. Tx!Get(k)
  <2>1. /\ k <= Len(TxQueue) /\ left' = SubSeq(TxQueue, 1, k)
        /\ TxQueue' = SubSeq(TxQueue, k + 1, Len(TxQueue)) /\ written' = written
    BY <1>1, <1>2, <1>3, <1>4
  <2> QED
    BY <2>1, Zenon DEF Tx!Get, TxQueue
<1> QED
  BY <1>5 DEF Tx!Next

LEMMA TxSame ==
  ASSUME TxInv, TxInv', Unsent' = Unsent, written' = written, left' = left
  PROVE  UNCHANGED Tx!vars
<1>1. TxQueue' = TxQueue
  BY TxNumbers, TxNumbersNext DEF TxRight
<1> QED
  BY <1>1, Zenon DEF Tx!vars, TxQueue

LEMMA TxFacts ==
  ASSUME TxInv
  PROVE  /\ rbTxBuf.nBytes \in 0 .. BUF_SIZE - 1 /\ rbTxBuf.nBytes \in Nat
         /\ InReg(u0dbuf) \in 0 .. 1 /\ InReg(shift) \in 0 .. 1
         /\ Unsent = InReg(shift) + InReg(u0dbuf) + rbTxBuf.nBytes
         /\ Unsent \in Nat /\ written \in Nat /\ Unsent <= written
         /\ written - rbTxBuf.nBytes \in Nat /\ written - Unsent \in Nat
<1>1. rbTxBuf.nBytes \in 0 .. BUF_SIZE - 1 /\ written \in Nat /\ Unsent <= written
  BY DEF TxInv, TxData, BufHolds, BufferType
<1>2. InReg(u0dbuf) \in 0 .. 1 /\ InReg(shift) \in 0 .. 1
  BY DEF InReg
<1>3. Unsent = InReg(shift) + InReg(u0dbuf) + rbTxBuf.nBytes
  BY DEF Unsent
<1> DEFINE c == rbTxBuf.nBytes
           d == InReg(u0dbuf)
           e == InReg(shift)
           u == Unsent
<1>4. c \in 0 .. BUF_SIZE - 1 /\ d \in 0 .. 1 /\ e \in 0 .. 1 /\ u = e + d + c /\ written \in Nat /\ u <= written
  BY <1>1, <1>2, <1>3
<1> HIDE DEF c, d, e, u
<1>5. c \in Nat /\ u \in Nat /\ written - c \in Nat /\ written - u \in Nat
  BY <1>4
<1> QED
  BY <1>1, <1>2, <1>3, <1>5 DEF c, u

(* The buffer takes the bytes of a write, or none of them.                       *)
LEMMA TxWrites ==
  ASSUME TxInv, todo # <<>>, rbTxBuf' = bufPut(rbTxBuf, written, length),
         written' = IF Fits(rbTxBuf, length) THEN written + length ELSE written,
         UNCHANGED <<u0dbuf, shift>>
  PROVE  /\ TxData' /\ length \in 1 .. BUF_SIZE - 1
         /\ Fits(rbTxBuf, length) => Unsent' = Unsent + length
         /\ ~Fits(rbTxBuf, length) => rbTxBuf' = rbTxBuf /\ Unsent' = Unsent
<1> DEFINE k == length
<1>1. k \in 1 .. BUF_SIZE - 1 /\ k \in Nat
  BY DEF TxInv, TxControl, length
<1>2. CASE Fits(rbTxBuf, k)
  <2>1. rbTxBuf' = bufPut(rbTxBuf, written, k) /\ written' = written + k
    BY <1>2
  <2> HIDE DEF k
  <2> DEFINE c == rbTxBuf.nBytes
             d == InReg(u0dbuf)
             e == InReg(shift)
  <2>2. /\ c \in Nat /\ d \in 0 .. 1 /\ e \in 0 .. 1 /\ Unsent = e + d + c /\ Unsent <= written
        /\ written \in Nat /\ written - c \in Nat /\ (written - c) + c = written
    BY TxFacts
  <2>3. rbTxBuf'.nBytes = c + k /\ BufHolds(rbTxBuf', written - c)
    BY <1>1, <1>2, <2>1, <2>2, PutIs DEF TxInv, TxData
  <2>4. Unsent' = e + d + (c + k)
    BY <2>3 DEF Unsent
  <2>5. u0dbuf = Run(written - c - d, d) /\ shift = Run(written - Unsent, e)
    BY DEF TxInv, TxData
  <2> DEFINE b == rbTxBuf'.nBytes
             u == Unsent
             v == Unsent'
  <2>6. b = c + k /\ v = e + d + (c + k) /\ u = e + d + c /\ u <= written
    BY <2>2, <2>3, <2>4
  <2> HIDE DEF b, c, d, e, u, v
  <2>7. /\ v = u + k /\ written' \in Nat /\ v <= written' /\ written' - b = written - c
        /\ written' - b - d = written - c - d /\ written' - v = written - u
    BY <1>1, <2>1, <2>2, <2>6
  <2>8. InReg(u0dbuf)' = d /\ InReg(shift)' = e
    BY DEF InReg, d, e
  <2>9. TxData'
    BY <2>3, <2>5, <2>7, <2>8 DEF TxData, b, c, v, u
  <2> QED
    BY <1>1, <1>2, <2>7, <2>9 DEF k, u, v
<1>3. CASE ~Fits(rbTxBuf, k)
  <2>1. rbTxBuf' = rbTxBuf /\ written' = written
    BY <1>3 DEF bufPut
  <2>2. Unsent' = Unsent
    BY <2>1 DEF Unsent, InReg
  <2>3. TxData'
    BY <2>1, <2>2 DEF TxInv, TxData, InReg
  <2> QED
    BY <1>1, <1>3, <2>1, <2>2, <2>3
<1> QED
  BY <1>2, <1>3

LEMMA TxStill ==
  ASSUME TxInv, UNCHANGED <<rbTxBuf, written, u0dbuf, shift>>
  PROVE  TxData' /\ Unsent' = Unsent
<1>1. Unsent' = Unsent
  BY DEF Unsent, InReg
<1> QED
  BY <1>1 DEF TxInv, TxData, InReg

LEMMA TxWriteStep ==
  ASSUME TxInv, BufferedPut \/ EnableTx \/ UsbWrite
  PROVE  TxInv' /\ [Tx!Next]_(Tx!vars)
<1>0. todo # <<>> => Tail(todo) \in Seq(1 .. BUF_SIZE - 1)
  BY DEF TxInv, TxControl
<1>1. CASE BufferedPut
  <2>1. TxData' /\ length \in 0 .. BUF_SIZE - 1
        /\ (Fits(rbTxBuf, length) => Unsent' = Unsent + length)
        /\ (~Fits(rbTxBuf, length) => Unsent' = Unsent)
    BY <1>1, TxWrites DEF BufferedPut
  <2>2. TxControl'
    BY <1>1, TxFacts DEF BufferedPut, TxInv, TxControl
  <2>3. TxInv'
    BY <2>1, <2>2 DEF TxInv
  <2>4. left' = left
    BY <1>1 DEF BufferedPut
  <2>5. CASE Fits(rbTxBuf, length)
    BY <1>1, <2>1, <2>3, <2>4, <2>5, TxPut DEF BufferedPut
  <2>6. CASE ~Fits(rbTxBuf, length)
    BY <1>1, <2>1, <2>3, <2>4, <2>6, TxSame DEF BufferedPut
  <2> QED
    BY <2>3, <2>5, <2>6
<1>2. CASE EnableTx
  <2>1. TxData' /\ Unsent' = Unsent /\ written' = written /\ left' = left
    BY <1>2, TxStill DEF EnableTx
  <2>2. pc = "enable" /\ pc' = "idle" /\ todo' = Tail(todo) /\ UNCHANGED <<driver, rbTxBuf, u0dbuf, shift, UTX0IF>>
    BY <1>2 DEF EnableTx, WriteEnds
  <2>3. TxControl'
    BY <1>0, <2>2 DEF TxInv, TxControl
  <2> QED
    BY <2>1, <2>3, TxSame DEF TxInv
<1>3. CASE UsbWrite
  <2>1. TxData' /\ length \in 0 .. BUF_SIZE - 1
        /\ (Fits(rbTxBuf, length) => Unsent' = Unsent + length)
        /\ (~Fits(rbTxBuf, length) => Unsent' = Unsent)
    BY <1>3, TxWrites DEF UsbWrite
  <2>2. TxControl'
    BY <1>0, <1>3 DEF UsbWrite, WriteEnds, TxInv, TxControl
  <2>3. TxInv'
    BY <2>1, <2>2 DEF TxInv
  <2>4. left' = left
    BY <1>3 DEF UsbWrite
  <2>5. CASE Fits(rbTxBuf, length)
    BY <1>3, <2>1, <2>3, <2>4, <2>5, TxPut DEF UsbWrite
  <2>6. CASE ~Fits(rbTxBuf, length)
    BY <1>3, <2>1, <2>3, <2>4, <2>6, TxSame DEF UsbWrite
  <2> QED
    BY <2>3, <2>5, <2>6
<1> QED
  BY <1>1, <1>2, <1>3

LEMMA TxPolls ==
  ASSUME TxInv, PollingStart \/ PollingStore \/ PollingWait
  PROVE  TxInv' /\ [Tx!Next]_(Tx!vars)
<1>1. CASE PollingStart
  <2>1. TxData' /\ Unsent' = Unsent /\ written' = written /\ left' = left
    BY <1>1, TxStill DEF PollingStart
  <2>2. TxControl'
    BY <1>1 DEF PollingStart, TxInv, TxControl
  <2> QED
    BY <2>1, <2>2, TxSame DEF TxInv
<1>2. CASE PollingWait
  <2>1. TxData' /\ Unsent' = Unsent /\ written' = written /\ left' = left
    BY <1>2, TxStill DEF PollingWait
  <2>2. Tail(todo) \in Seq(1 .. BUF_SIZE - 1)
    BY <1>2 DEF TxInv, TxControl, PollingWait
  <2>3. TxControl'
    BY <1>2, <2>2 DEF PollingWait, WriteEnds, TxInv, TxControl
  <2> QED
    BY <2>1, <2>3, TxSame DEF TxInv
<1>3. CASE PollingStore
  <2>1. /\ pc = "store" /\ driver = "polling" /\ u0dbuf = <<>> /\ rbTxBuf.nBytes = 0
        /\ u0dbuf' = <<written>> /\ written' = written + 1 /\ left' = left
        /\ rbTxBuf' = rbTxBuf /\ shift' = shift
    BY <1>3 DEF PollingStore, TxInv, TxControl
  <2>2. InReg(u0dbuf) = 0 /\ InReg(u0dbuf)' = 1 /\ InReg(shift)' = InReg(shift)
    BY <2>1 DEF InReg
  <2>3. /\ written \in Nat /\ InReg(shift) \in 0 .. 1 /\ Unsent = InReg(shift)
        /\ Unsent' = InReg(shift) + 1 /\ Unsent <= written
    <3>1. InReg(shift) + 0 + 0 = InReg(shift) /\ InReg(shift) + 1 + 0 = InReg(shift) + 1
      BY TxFacts
    <3> QED
      BY <2>1, <2>2, <3>1, TxFacts DEF Unsent
  <2>4. BufHolds(rbTxBuf, written - 0) /\ BufHolds(rbTxBuf, written + 1)
    <3>1. BufHolds(rbTxBuf, written - 0)
      BY <2>1 DEF TxInv, TxData
    <3> QED
      BY <2>1, <3>1 DEF BufHolds
  <2>5. u0dbuf' = Run(written, 1)
    BY <2>1, <2>3, RunEnds
  <2>6. /\ written' - rbTxBuf'.nBytes = written + 1 /\ written' - rbTxBuf'.nBytes - 1 = written
        /\ written' - Unsent' = written - Unsent /\ Unsent' <= written' /\ written' \in Nat
    BY <2>1, <2>3
  <2>7. TxData'
    BY <2>1, <2>2, <2>4, <2>5, <2>6 DEF TxData, TxInv
  <2>8. TxControl'
    BY <1>3, <2>1 DEF PollingStore, TxInv, TxControl
  <2>9. 1 \in 0 .. BUF_SIZE - 1 /\ Unsent' = Unsent + 1
    BY <2>3
  <2> QED
    BY <2>1, <2>7, <2>8, <2>9, TxPut DEF TxInv
<1> QED
  BY <1>1, <1>2, <1>3

(* The interrupt moves the oldest byte of the buffer to U0DBUF.                  *)
LEMMA TxInterrupt ==
  ASSUME TxInv, uart0TxISR
  PROVE  TxInv' /\ [Tx!Next]_(Tx!vars)
<1> DEFINE c == rbTxBuf.nBytes
           e == InReg(shift)
           g == bufGet(rbTxBuf, 1)
<1>1. /\ driver = "buffered" /\ u0dbuf = <<>> /\ UTX0IF' = FALSE /\ rbTxBuf' = g
      /\ written' = written /\ left' = left /\ shift' = shift
      /\ UNCHANGED <<driver, todo, pc>>
  BY DEF uart0TxISR, TxInv, TxControl
<1>2. /\ c \in 0 .. BUF_SIZE - 1 /\ c \in Nat /\ e \in 0 .. 1 /\ written - c \in Nat
      /\ written \in Nat /\ Unsent <= written
  BY TxFacts
<1>3. InReg(u0dbuf) = 0 /\ InReg(shift)' = e
  BY <1>1 DEF InReg
<1>4. Unsent = e + c
  BY <1>2, <1>3 DEF Unsent
<1>5. BufHolds(rbTxBuf, written - c) /\ shift = Run(written - Unsent, e)
  BY DEF TxInv, TxData
<1>6. /\ bufPeek(rbTxBuf, 1) = Run(written - c, Least(1, c))
      /\ g.nBytes = c - Least(1, c) /\ BufHolds(g, (written - c) + Least(1, c))
  BY <1>2, <1>5, 1 \in Nat, PeekIs, GetIs
<1>7. TxControl'
  BY <1>1 DEF TxInv, TxControl
<1> HIDE DEF c, e, g
<1>8. CASE c > 0
  <2>1. Least(1, c) = 1 /\ g.nBytes = c - 1 /\ BufHolds(g, (written - c) + 1)
    BY <1>2, <1>6, <1>8 DEF Least
  <2>2. u0dbuf' = Run(written - c, 1)
    BY <1>6, <1>8, <2>1 DEF uart0TxISR, c
  <2>3. u0dbuf' = <<written - c>> /\ InReg(u0dbuf)' = 1
    BY <1>2, <2>2, RunEnds DEF InReg
  <2>4. Unsent' = e + 1 + (c - 1)
    BY <1>1, <1>3, <2>1, <2>3 DEF Unsent
  <2>5. /\ Unsent' = Unsent /\ written' - rbTxBuf'.nBytes = (written - c) + 1
        /\ written' - rbTxBuf'.nBytes - 1 = written - c
    BY <1>1, <1>2, <1>4, <2>1, <2>4
  <2>6. TxData'
    BY <1>1, <1>2, <1>3, <1>5, <2>1, <2>2, <2>3, <2>5 DEF TxData
  <2> QED
    BY <1>1, <1>7, <2>5, <2>6, TxSame DEF TxInv
<1>9. CASE ~(c > 0)
  <2>1. c = 0 /\ Least(1, c) = 0 /\ g.nBytes = 0 /\ BufHolds(g, written)
    BY <1>2, <1>6, <1>9 DEF Least
  <2>2. u0dbuf' = u0dbuf /\ InReg(u0dbuf)' = 0
    BY <1>1, <1>9 DEF uart0TxISR, InReg, c
  <2>3. Unsent' = e + 0 + 0
    BY <1>1, <1>3, <2>1, <2>2 DEF Unsent
  <2>4. Unsent' = Unsent /\ written' - rbTxBuf'.nBytes = written /\ written' - rbTxBuf'.nBytes - 0 \in Nat
    BY <1>1, <1>2, <1>4, <2>1, <2>3
  <2>5. Run(written' - rbTxBuf'.nBytes - 0, 0) = <<>>
    BY <2>4, RunEnds
  <2>6. TxData'
    BY <1>1, <1>2, <1>3, <1>5, <2>1, <2>2, <2>4, <2>5 DEF TxData
  <2> QED
    BY <1>1, <1>7, <2>4, <2>6, TxSame DEF TxInv
<1> QED
  BY <1>8, <1>9

(* The transmitter takes a byte, and sends it.                                   *)
LEMMA TxLeaves ==
  ASSUME TxInv, Load \/ ShiftOut
  PROVE  TxInv' /\ [Tx!Next]_(Tx!vars)
<1> DEFINE c == rbTxBuf.nBytes
           d == InReg(u0dbuf)
           e == InReg(shift)
<1>0. /\ c \in Nat /\ written \in Nat /\ written - c \in Nat /\ Unsent = e + d + c /\ Unsent <= written
      /\ d \in 0 .. 1 /\ e \in 0 .. 1 /\ Unsent \in Nat /\ written - Unsent \in Nat
  BY TxFacts
<1>1. u0dbuf = Run(written - c - d, d) /\ shift = Run(written - Unsent, e) /\ BufHolds(rbTxBuf, written - c)
  BY DEF TxInv, TxData
<1>2. CASE Load
  <2>1. /\ d = 1 /\ e = 0 /\ shift' = u0dbuf /\ u0dbuf' = <<>> /\ UTX0IF' = TRUE
        /\ InReg(shift)' = 1 /\ InReg(u0dbuf)' = 0
        /\ UNCHANGED <<driver, rbTxBuf, todo, pc, written, left>>
    BY <1>2 DEF Load, InReg
  <2>2. Unsent' = 1 + 0 + c
    BY <2>1 DEF Unsent
  <2> HIDE DEF c, d, e
  <2>3. Unsent' = Unsent /\ written - c - d = written' - Unsent' /\ written' - c - 0 \in Nat
    BY <1>0, <2>1, <2>2
  <2>4. shift' = Run(written' - Unsent', 1) /\ u0dbuf' = Run(written' - c - 0, 0)
    BY <1>1, <2>1, <2>3, RunEnds
  <2>5. TxData'
    BY <1>0, <1>1, <2>1, <2>3, <2>4 DEF TxData, c
  <2>6. TxControl'
    BY <1>2, <2>1 DEF TxInv, TxControl, Load
  <2> QED
    BY <2>1, <2>3, <2>5, <2>6, TxSame DEF TxInv
<1>3. CASE ShiftOut
  <2>1. /\ e = 1 /\ left' = shift /\ shift' = <<>> /\ InReg(shift)' = 0 /\ InReg(u0dbuf)' = d
        /\ UNCHANGED <<driver, rbTxBuf, todo, pc, written, u0dbuf, UTX0IF>>
    BY <1>3 DEF ShiftOut, InReg
  <2>2. Unsent' = 0 + d + c
    BY <2>1 DEF Unsent
  <2> HIDE DEF c, d, e
  <2>3. /\ Unsent' = Unsent - 1 /\ 1 <= Unsent /\ Unsent' <= written' /\ written' - Unsent' \in Nat
    BY <1>0, <2>1, <2>2
  <2>4. shift' = Run(written' - Unsent', 0) /\ left' = Run(written - Unsent, 1)
    BY <1>1, <2>1, <2>3, RunEnds
  <2>5. TxData'
    BY <1>0, <1>1, <2>1, <2>3, <2>4 DEF TxData, c, d
  <2>6. TxControl'
    BY <1>3, <2>1 DEF TxInv, TxControl, ShiftOut
  <2>7. 1 \in 0 .. BUF_SIZE - 1
    OBVIOUS
  <2> QED
    BY <2>1, <2>3, <2>4, <2>5, <2>6, <2>7, TxGet DEF TxInv
<1> QED
  BY <1>2, <1>3

LEMMA TxUsb ==
  ASSUME TxInv, UsbTake
  PROVE  TxInv' /\ [Tx!Next]_(Tx!vars)
<1> DEFINE c == rbTxBuf.nBytes
<1>1. PICK k \in 1 .. c : left' = bufPeek(rbTxBuf, k) /\ rbTxBuf' = bufGet(rbTxBuf, k)
  BY DEF UsbTake
<1>2. /\ driver = "usb" /\ u0dbuf = <<>> /\ shift = <<>>
      /\ UNCHANGED <<driver, todo, pc, u0dbuf, shift, UTX0IF, written>>
  BY DEF UsbTake, TxInv, TxControl
<1>3. c \in 0 .. BUF_SIZE - 1 /\ c \in Nat /\ written - c \in Nat /\ written \in Nat /\ Unsent <= written
  BY TxFacts
<1>4. InReg(u0dbuf) = 0 /\ InReg(shift) = 0 /\ InReg(u0dbuf)' = 0 /\ InReg(shift)' = 0
  BY <1>2 DEF InReg
<1>5. Unsent = c
  BY <1>3, <1>4 DEF Unsent
<1>6. k \in Nat /\ k \in 0 .. BUF_SIZE - 1 /\ k <= c /\ Least(k, c) = k
  BY <1>3 DEF Least
<1>7. BufHolds(rbTxBuf, written - c)
  BY DEF TxInv, TxData
<1>8. left' = Run(written - c, k) /\ rbTxBuf'.nBytes = c - k /\ BufHolds(rbTxBuf', (written - c) + k)
  <2>1. bufPeek(rbTxBuf, k) = Run(written - c, Least(k, c))
    BY <1>3, <1>6, <1>7, PeekIs
  <2>2. /\ bufGet(rbTxBuf, k).nBytes = c - Least(k, c)
        /\ BufHolds(bufGet(rbTxBuf, k), (written - c) + Least(k, c))
    BY <1>3, <1>6, <1>7, GetIs
  <2> QED
    BY <1>1, <1>6, <2>1, <2>2
<1> HIDE DEF c
<1>9. Unsent' = 0 + 0 + (c - k)
  BY <1>4, <1>8 DEF Unsent
<1>10. /\ Unsent' = Unsent - k /\ written' - rbTxBuf'.nBytes = (written - c) + k
       /\ written' - rbTxBuf'.nBytes - 0 \in Nat /\ written' - Unsent' \in Nat /\ Unsent' <= written'
       /\ k <= Unsent
  BY <1>2, <1>3, <1>5, <1>6, <1>8, <1>9
<1>11. u0dbuf' = Run(written' - rbTxBuf'.nBytes - 0, 0) /\ shift' = Run(written' - Unsent', 0)
  BY <1>2, <1>10, RunEnds
<1>12. TxData'
  BY <1>2, <1>3, <1>4, <1>8, <1>10, <1>11 DEF TxData
<1>13. TxControl'
  BY <1>2 DEF TxInv, TxControl
<1> QED
  BY <1>2, <1>5, <1>6, <1>8, <1>10, <1>12, <1>13, TxGet DEF TxInv

LEMMA TxStep ==
  ASSUME TxInv, Transmit \/ UNCHANGED <<driver, txVars>>
  PROVE  TxInv' /\ [Tx!Next]_(Tx!vars)
<1>1. ASSUME NEW p \in Prints, Call(p) PROVE TxInv' /\ [Tx!Next]_(Tx!vars)
  <2>1. TxData' /\ Unsent' = Unsent /\ written' = written /\ left' = left
    BY <1>1, TxStill DEF Call
  <2>2. p \in Seq(1 .. BUF_SIZE - 1) /\ p # <<>>
    BY PrintsAssumption
  <2>3. TxControl'
    BY <1>1, <2>2 DEF Call, Idle, TxInv, TxControl
  <2> QED
    BY <2>1, <2>3, TxSame DEF TxInv
<1>2. CASE UNCHANGED <<driver, txVars>>
  <2>1. TxData' /\ Unsent' = Unsent /\ written' = written /\ left' = left
    BY <1>2, TxStill DEF txVars
  <2>2. TxControl'
    BY <1>2 DEF txVars, TxInv, TxControl
  <2> QED
    BY <2>1, <2>2, TxSame DEF TxInv
<1> QED
  BY <1>1, <1>2, TxWriteStep, TxPolls, TxInterrupt, TxLeaves, TxUsb DEF Transmit, Write

LEMMA TxStart == Init => TxInv /\ Tx!Init
<1> SUFFICES ASSUME Init PROVE TxInv /\ Tx!Init
  OBVIOUS
<1>1. /\ rbTxBuf = bufInit /\ written = 0 /\ left = <<>> /\ u0dbuf = <<>> /\ shift = <<>>
      /\ todo = <<>> /\ pc = "idle"
  BY DEF Init, halUartInit
<1>2. InReg(u0dbuf) = 0 /\ InReg(shift) = 0
  BY <1>1 DEF InReg
<1>3. rbTxBuf.nBytes = 0 /\ BufHolds(rbTxBuf, 0)
  BY <1>1, 0 \in Nat, InitIs
<1>4. Unsent = 0
  BY <1>2, <1>3 DEF Unsent
<1>5. Run(0, 0) = <<>> /\ 0 - 0 = 0 /\ 0 - 0 - 0 = 0
  BY RunEnds
<1>6. TxData
  BY <1>1, <1>2, <1>3, <1>4, <1>5 DEF TxData
<1>7. TxControl
  BY <1>1, <1>3, EmptySeq DEF TxControl, Init, halUartInit
<1>8. TxQueue = Run(0, 0)
  BY <1>1, <1>4, <1>5, <1>6, <1>7, TxNumbers DEF TxRight, TxInv
<1> QED
  BY <1>1, <1>5, <1>6, <1>7, <1>8 DEF TxInv, Tx!Init, TxQueue

------------------------------------------------------------------------------
LEMMA Directions ==
  ASSUME [MCNext]_<<which, vars, ringVars>>
  PROVE  /\ [Ring!Next]_(Ring!vars)
         /\ Transmit \/ UNCHANGED <<driver, txVars>>
         /\ Receive \/ UNCHANGED rxVars
<1>1. UNCHANGED ringVars <=> UNCHANGED Ring!vars
  BY DEF ringVars, Ring!vars
<1>2. Transmit => UNCHANGED rxVars
  BY Zenon DEF Transmit, Call, Write, BufferedPut, EnableTx, PollingStart, PollingStore, PollingWait,
     UsbWrite, uart0TxISR, Load, ShiftOut, UsbTake, rxVars
<1>3. Receive => UNCHANGED <<driver, txVars>>
  BY DEF Receive, Arrive, uart0RxISR, UsbGive, bufFlush, halUartRead, Look, halUartEnableRxFlow
<1>4. UNCHANGED vars => UNCHANGED <<driver, txVars>> /\ UNCHANGED rxVars
  BY DEF vars
<1> QED
  BY <1>1, <1>2, <1>3, <1>4 DEF MCNext

(* The ring buffer, what a serial port sends and what it receives are queues:    *)
(* for buffers of any size, calls of any length and every order of the steps of  *)
(* the program, the interrupts, the DMA controller and the wire, each byte goes  *)
(* in once, leaves once and in its order, if a transfer is done before it counts *)
(* (DmaLate = FALSE, which is what the run buffers checks too).                  *)
THEOREM BuffersAreQueues == DmaLate = FALSE => (MCSpec => EveryBufferIsQueue)
<1> SUFFICES ASSUME DmaLate = FALSE PROVE MCSpec => EveryBufferIsQueue
  OBVIOUS
<1>1. MCInit => /\ Ring!Init /\ TxInv /\ Tx!Init /\ RxInv /\ Rx!Init
  BY TxStart, RxStart DEF MCInit
<1>2. [MCNext]_<<which, vars, ringVars>> => [Ring!Next]_(Ring!vars)
  BY Directions
<1>3. TxInv /\ [MCNext]_<<which, vars, ringVars>> => TxInv' /\ [Tx!Next]_(Tx!vars)
  BY Directions, TxStep
<1>4. RxInv /\ [MCNext]_<<which, vars, ringVars>> => RxInv' /\ [Rx!Next]_(Rx!vars)
  BY Directions, RxStep
<1>5. MCSpec => Ring!IsQueue
  BY <1>1, <1>2, RingIsQueue, PTL DEF MCSpec
<1>6. MCSpec => TxIsQueue
  BY <1>1, <1>3, PTL DEF MCSpec, TxIsQueue, Tx!Spec
<1>7. MCSpec => RxIsQueue
  BY <1>1, <1>4, PTL DEF MCSpec, RxIsQueue, Rx!Spec
<1> QED
  BY <1>5, <1>6, <1>7 DEF EveryBufferIsQueue
==============================================================================
