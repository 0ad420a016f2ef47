--------------------------- MODULE ModbusProofs ---------------------------
(* Theorems about the master, ModbusRtu, for every set of boards and calls, *)
(* every fault and every way the bytes come in; and about the gateway over  *)
(* it, ModbusGateway, for any boards, requests and number of bought boards  *)
(* whose coils are kept in the copy.                                        *)
EXTENDS ModbusGateway, SequenceTheorems, TLAPS

(* SubSeq of bytes is made of bytes, each of which the sequence had.        *)
LEMMA SubSeqBytes ==
  ASSUME NEW S, NEW s \in Seq(S), NEW m \in Nat \ {0}, NEW n \in Int, n <= Len(s)
  PROVE  /\ SubSeq(s, m, n) \in Seq(S)
         /\ \A i \in 1..Len(SubSeq(s, m, n)) :
               /\ m + i - 1 \in 1..Len(s)
               /\ SubSeq(s, m, n)[i] = s[m + i - 1]
<1>1. \A i \in m..n : s[i] \in S
  BY ElementOfSeq, LenProperties
<1>2. /\ SubSeq(s, m, n) \in Seq(S)
      /\ Len(SubSeq(s, m, n)) = IF m <= n THEN n - m + 1 ELSE 0
      /\ \A i \in 1..n - m + 1 : SubSeq(s, m, n)[i] = s[m + i - 1]
  BY <1>1, SubSeqProperties
<1>3. Len(s) \in Nat
  BY LenProperties
<1> QED
  BY <1>2, <1>3

(* The bytes of a frame are its own. *)
LEMMA BytesOfFrame ==
  ASSUME NEW f \in Frame
  PROVE  /\ Bytes(f) \in Seq(Byte)
         /\ Len(Bytes(f)) = f.len
         /\ \A i \in 1..Len(Bytes(f)) : Bytes(f)[i][1] = f
<1>1. f.len \in Nat
  BY DEF Frame
<1>2. \A i \in 1..f.len : <<f, i>> \in Byte
  BY <1>1 DEF Byte
<1> QED
  BY <1>1, <1>2 DEF Bytes

(* No frame is a frame, and so is an answer, damaged or not. *)
LEMMA NoiseIsFrame ==
  ASSUME NEW n \in Nat \ {0}
  PROVE  Noise(n) \in Frame /\ ~Noise(n).good
<1>1. 0 \in Nat /\ {} \in SUBSET Nat /\ FALSE \in BOOLEAN
  OBVIOUS
<1>2. Noise(n) \in Frame
  BY <1>1, Zenon DEF Frame, Noise
<1> QED
  BY <1>2 DEF Noise

LEMMA AnswerIsFrame ==
  ASSUME NEW a \in Nat, NEW on \in SUBSET Nat, NEW q \in Request
  PROVE  /\ Answer(a, on, q) \in Frame
         /\ Damaged(Answer(a, on, q)) \in Frame
         /\ ~Damaged(Answer(a, on, q)).good
<1>1. Answer(a, on, q) \in Frame
  BY DEF Answer, Payload, Frame, Request, WRITE_COIL, READ_COILS
<1>2. ASSUME NEW f \in Frame
      PROVE  Damaged(f) \in Frame /\ ~Damaged(f).good
  <2>1. f.len \in Nat \ {0}
    BY DEF Frame
  <2> QED
    BY <2>1, NoiseIsFrame DEF Damaged
<1> QED
  BY <1>1, <1>2

(* What a call sends is a request. *)
LEMMA RequestIsTyped ==
  ASSUME NEW c \in CallType, NEW n \in Nat
  PROVE  RequestOf(c, n) \in Request
<1>1. Func(c) \in Nat
  BY DEF Func, READ_COILS, READ_INPUTS, WRITE_COIL, WRITE_REGISTER
<1> QED
  BY <1>1 DEF RequestOf, Request, CallType

(* Every answer has at least the five bytes of address, function, size and  *)
(* CRC.                                                                     *)
LEMMA ExpectedTyped ==
  ASSUME NEW c \in CallType
  PROVE  Expected(c) \in Nat /\ Expected(c) >= 5
<1>1. CountOf(c) \in Nat
  BY DEF CountOf, CallType
<1>2. CountOf(c) \div 8 \in Nat
  BY <1>1
<1> QED
  BY <1>2 DEF Expected

(* Switching a relay leaves a set of relay numbers. *)
LEMMA RelaysAfterTyped ==
  ASSUME NEW a \in Addr, NEW on \in SUBSET Nat, NEW q \in Request
  PROVE  RelaysAfter(a, on, q) \in SUBSET Nat
<1>1. RelayIds(a) \subseteq Nat
  BY DEF RelayIds
<1>2. \A r : (on \cup {r}) \cap RelayIds(a) \in SUBSET Nat /\ on \ {r} \in SUBSET Nat
  BY <1>1
<1>3. Switched(a, on, q.reg, q.data) \in SUBSET Nat
  BY <1>2 DEF Switched
<1> QED
  BY <1>3 DEF RelaysAfter

(* So does making a state word of a payload. *)
LEMMA StateOfTyped ==
  ASSUME NEW c \in CallType, NEW bits \in SUBSET Nat
  PROVE  StateOf(c, bits) \in SUBSET Nat
<1>1. \A b \in bits : (b + 8) % 16 \in Nat
  OBVIOUS
<1> QED
  BY <1>1 DEF StateOf, HighFirst

-----------------------------------------------------------------------------
(* Types *)

LEMMA ReturnTyped ==
  ASSUME TypeOK, NEW ok \in BOOLEAN, NEW coils \in SUBSET Nat, Return(ok, coils)
  PROVE  /\ mpc' = "idle"
         /\ res' \in [ok : BOOLEAN, coils : SUBSET Nat]
         /\ call' = call /\ retry' = retry /\ acc' = acc
  BY DEF Return

LEMMA AttemptFailsTyped ==
  ASSUME TypeOK, AttemptFails
  PROVE  /\ mpc' \in {"idle", "send"}
         /\ res' \in [ok : BOOLEAN, coils : SUBSET Nat]
         /\ call' = call /\ retry' \in Nat /\ acc' \in SUBSET Nat
<1> DEFINE again == call.op # "read_coils_fix" /\ retry + 1 < CFG_REQUST_RETRY_CNT
<1>1. CASE again
  <2>1. /\ mpc' = "send" /\ retry' = retry + 1
        /\ call' = call /\ acc' = acc /\ res' = res
    BY <1>1, Zenon DEF AttemptFails
  <2> QED
    BY <2>1 DEF TypeOK
<1>2. CASE ~again
  <2>1. Return(FALSE, acc) /\ acc \in SUBSET Nat
    BY <1>2 DEF AttemptFails, TypeOK
  <2> QED
    BY <2>1, ReturnTyped DEF TypeOK
<1> QED
  BY <1>1, <1>2

LEMMA AttemptSucceedsTyped ==
  ASSUME TypeOK, NEW f \in Frame, AttemptSucceeds(f)
  PROVE  /\ mpc' \in {"idle", "send"}
         /\ res' \in [ok : BOOLEAN, coils : SUBSET Nat]
         /\ call' = call /\ retry' \in Nat /\ acc' \in SUBSET Nat
         /\ ans' \in Frame
<1>1. f.coils \in SUBSET Nat
  BY DEF Frame
<1>2. acc \cup {retry} \in SUBSET Nat
  BY DEF TypeOK
<1>5. StateOf(call, f.coils) \in SUBSET Nat
  BY <1>1, StateOfTyped DEF TypeOK
<1> DEFINE more == call.op = "read_coils_fix" /\ retry + 1 < call.arg
<1>3. CASE more
  <2>1. /\ mpc' = "send" /\ retry' = retry + 1 /\ call' = call /\ res' = res
        /\ ans' = f /\ acc' = IF f.coils = {} THEN acc ELSE acc \cup {retry}
    BY <1>3, Zenon DEF AttemptSucceeds
  <2> QED
    BY <1>2, <2>1 DEF TypeOK
<1>4. CASE ~more
  <2>1. PICK coils \in SUBSET Nat : Return(TRUE, coils)
    BY <1>1, <1>2, <1>4, <1>5 DEF AttemptSucceeds, TypeOK
  <2> QED
    BY <1>4, <2>1, ReturnTyped DEF AttemptSucceeds, TypeOK
<1> QED
  BY <1>3, <1>4

(* The type invariant, for every step. *)
THEOREM TypeInvariant == Spec => []TypeOK
<1>1. Init => TypeOK
  <2>1. NoFrame \in Frame
    <3>1. 1 \in Nat \ {0}
      OBVIOUS
    <3> QED
      BY <3>1, NoiseIsFrame DEF NoFrame
  <2>2. [ok |-> FALSE, coils |-> {}] \in [ok : BOOLEAN, coils : SUBSET Nat]
    BY Zenon
  <2> SUFFICES ASSUME Init PROVE TypeOK
    OBVIOUS
  <2>3. /\ call \in CallType /\ retry \in Nat /\ acc \in SUBSET Nat
        /\ relays \in [Addr -> SUBSET Nat]
    BY InitAssumption DEF Init, serial_open, CallType, Ops
  <2>4. /\ got \in Seq(Byte) /\ rx \in Seq(Byte) /\ tx \in Seq(Byte)
        /\ pend \in Seq(Request)
    BY EmptySeq DEF Init, serial_open
  <2> QED
    BY <2>1, <2>2, <2>3, <2>4 DEF Init, serial_open, TypeOK
<1>2. TypeOK /\ [Next]_vars => TypeOK'
  <2> SUFFICES ASSUME TypeOK, [Next]_vars PROVE TypeOK'
    OBVIOUS
  <2> USE DEF TypeOK, line, master
  <2>1. ASSUME NEW c \in Calls, Begin(c) PROVE TypeOK'
    BY <2>1, CallsAssumption DEF Begin
  <2>2. CASE SendRequest
    <3>1. RequestOf(call, retry) \in Request
      BY RequestIsTyped
    <3>2. pend' \in Seq(Request)
      BY <2>2, <3>1, AppendProperties DEF SendRequest
    <3>3. got' \in Seq(Byte) /\ call' = call /\ Len(got') < Expected(call)
      BY <2>2, EmptySeq, ExpectedTyped DEF SendRequest
    <3>4. stale' \in BOOLEAN
      BY <2>2 DEF SendRequest
    <3> QED
      BY <2>2, <3>2, <3>3, <3>4 DEF SendRequest
  <2>3. CASE SendFails
    BY <2>3, ReturnTyped DEF SendFails
  <2>4. CASE ReadSome
    <3>1. got' \in Seq(Byte) /\ rx' \in Seq(Byte)
      BY <2>4, ConcatProperties, EmptySeq DEF ReadSome
    <3>2. Len(got') < Expected(call)
      BY <2>4, ConcatProperties, LenProperties, ExpectedTyped DEF ReadSome, Wanted
    <3> QED
      BY <2>4, <3>1, <3>2 DEF ReadSome
  <2>5. CASE ReadAll
    <3>1. Len(rx) \in Nat /\ Len(got) \in Nat /\ Wanted \in Int
      BY LenProperties, ExpectedTyped DEF Wanted
    <3>0. Wanted \in Nat /\ Wanted > 0 /\ Len(rx) >= Wanted /\ rx' = SubSeq(rx, Wanted + 1, Len(rx))
      BY <2>5, <3>1, ExpectedTyped DEF ReadAll, Wanted
    <3> DEFINE all == got \o SubSeq(rx, 1, Wanted)
    <3>2. all \in Seq(Byte)
      BY <3>0, <3>1, SubSeqBytes, ConcatProperties
    <3>3. rx' \in Seq(Byte)
      BY <3>0, <3>1, SubSeqBytes
    <3>4. CrcGood(all) => all[1][1] \in Frame
      <4>1. ASSUME CrcGood(all) PROVE Len(all) >= 1
        BY <3>2, <4>1, EmptySeq, LenProperties DEF CrcGood
      <4> QED
        BY <3>2, <4>1, ElementOfSeq DEF Byte
    <3> HIDE DEF all
    <3>5. CASE CrcGood(all) /\ ~split
      BY <2>5, <3>2, <3>3, <3>4, <3>5, AttemptSucceedsTyped DEF ReadAll, all
    <3>6. CASE ~(CrcGood(all) /\ ~split)
      BY <2>5, <3>2, <3>3, <3>6, AttemptFailsTyped DEF ReadAll, all
    <3> QED
      BY <3>5, <3>6
  <2>6. CASE ReadTimeout
    BY <2>6, AttemptFailsTyped DEF ReadTimeout
  <2>7. CASE ReadFails
    BY <2>7, AttemptFailsTyped DEF ReadFails
  <2>8. CASE ReadNothing
    BY <2>8 DEF ReadNothing, vars
  <2>9. CASE Serve
    <3> DEFINE q == Head(pend)
    <3>1. q \in Request /\ pend' \in Seq(Request)
      BY <2>9, HeadTailProperties DEF Serve
    <3>2. q.addr \in Addr /\ q.addr \in Nat
      BY <2>9, AddrAssumption DEF Serve
    <3>3. relays' \in [Addr -> SUBSET Nat]
      BY <2>9, <3>1, <3>2, RelaysAfterTyped DEF Serve
    <3>4. tx' \in Seq(Byte)
      <4>1. ASSUME NEW f \in Frame
            PROVE  tx \o Bytes(f) \in Seq(Byte)
        BY <4>1, BytesOfFrame, ConcatProperties
      <4>2. /\ Answer(q.addr, relays[q.addr], q) \in Frame
            /\ Damaged(Answer(q.addr, relays[q.addr], q)) \in Frame
        BY <3>1, <3>2, AnswerIsFrame
      <4> QED
        BY <2>9, <4>1, <4>2 DEF Serve
    <3> QED
      BY <2>9, <3>1, <3>3, <3>4 DEF Serve
  <2>10. CASE LoseRequest
    BY <2>10, HeadTailProperties DEF LoseRequest
  <2>11. ASSUME NEW k \in Chunks, LoseBytes(k) PROVE TypeOK'
    BY <2>11, ChunksAssumption, SubSeqBytes, LenProperties DEF LoseBytes
  <2>12. ASSUME NEW k \in Chunks, Arrive(k) PROVE TypeOK'
    <3>1. tx' \in Seq(Byte)
      BY <2>12, ChunksAssumption, SubSeqBytes, LenProperties DEF Arrive
    <3>2. rx' \in Seq(Byte)
      <4> DEFINE n == Least(Least(k, Len(tx)), RxSize - Len(rx))
      <4>1. n \in Int /\ n <= Len(tx)
        BY ChunksAssumption, BoundAssumption, LenProperties DEF Least
      <4>2. SubSeq(tx, 1, n) \in Seq(Byte)
        BY <4>1, SubSeqBytes
      <4> QED
        BY <2>12, <4>2, ConcatProperties DEF Arrive
    <3> QED
      BY <2>12, <3>1, <3>2 DEF Arrive
  <2>13. CASE Hangup
    BY <2>13, EmptySeq DEF Hangup
  <2>14. CASE UNCHANGED vars
    BY <2>14 DEF vars
  <2> QED
    BY <2>1, <2>2, <2>3, <2>4, <2>5, <2>6, <2>7, <2>8, <2>9, <2>10, <2>11,
       <2>12, <2>13, <2>14 DEF Next, Master, Line
<1> QED
  BY <1>1, <1>2, PTL DEF Spec

-----------------------------------------------------------------------------
(* SuccessIsRight *)

(* Writing a relay twice is writing it once: retries do no harm. *)
LEMMA WriteIdempotent ==
  ASSUME NEW a, NEW on \in SUBSET Nat, NEW q
  PROVE  RelaysAfter(a, RelaysAfter(a, on, q), q) = RelaysAfter(a, on, q)
<1>1. \A r, S : (on \ {r}) \ {r} = on \ {r}
                /\ (((on \cup {r}) \cap S) \cup {r}) \cap S = (on \cup {r}) \cap S
  OBVIOUS
<1> QED
  BY <1>1 DEF RelaysAfter, Switched

(* The answer to a write shows the same relays before and after it.         *)
LEMMA AnswerAfterWrite ==
  ASSUME NEW a, NEW on \in SUBSET Nat, NEW q
  PROVE  Answer(a, RelaysAfter(a, on, q), q).coils = Answer(a, on, q).coils
<1>1. CASE q.func = READ_COILS
  <2>1. q.func # WRITE_COIL
    BY <1>1 DEF READ_COILS, WRITE_COIL
  <2>2. RelaysAfter(a, on, q) = on
    BY <2>1, Zenon DEF RelaysAfter
  <2> QED
    BY <2>2
<1>2. CASE q.func # READ_COILS
  BY <1>2 DEF Answer, Payload
<1> QED
  BY <1>1, <1>2

(* Taking bytes away, or putting bytes together, leaves bytes that fit.     *)
LEMMA AllFitSubSeq ==
  ASSUME NEW s \in Seq(Byte), AllFit(s),
         NEW m \in Nat \ {0}, NEW n \in Int, n <= Len(s)
  PROVE  AllFit(SubSeq(s, m, n))
  BY SubSeqBytes DEF AllFit

LEMMA AllFitConcat ==
  ASSUME NEW s \in Seq(Byte), NEW t \in Seq(Byte), AllFit(s), AllFit(t)
  PROVE  AllFit(s \o t)
<1>1. Len(s) \in Nat /\ Len(t) \in Nat
  BY LenProperties
<1>2. \A i \in 1..Len(s) + Len(t) :
        (s \o t)[i] = IF i <= Len(s) THEN s[i] ELSE t[i - Len(s)]
  BY ConcatProperties
<1>3. Len(s \o t) = Len(s) + Len(t)
  BY ConcatProperties
<1> QED
  BY <1>1, <1>2, <1>3 DEF AllFit

LEMMA AllFitEmpty == AllFit(<<>>)
  BY DEF AllFit

(* An attempt without a good answer claims nothing. *)
LEMMA AttemptFailsKeeps ==
  ASSUME TypeOK, InCall, mpc = "read", AttemptFails
  PROVE  InCall' /\ Exchange' /\ SuccessIsRight'
<1> DEFINE again == call.op # "read_coils_fix" /\ retry + 1 < CFG_REQUST_RETRY_CNT
<1>1. CASE again
  <2>1. /\ mpc' = "send" /\ retry' = retry + 1 /\ call' = call /\ acc' = acc
        /\ call.op # "read_coils_fix"
    BY <1>1, Zenon DEF AttemptFails
  <2>2. retry \in Nat
    BY DEF TypeOK
  <2> QED
    BY <2>1, <2>2 DEF InCall, Exchange, SuccessIsRight
<1>2. CASE ~again
  <2>1. Return(FALSE, acc)
    BY <1>2, Zenon DEF AttemptFails
  <2>2. mpc' = "idle" /\ ~res'.ok
    BY <2>1 DEF Return
  <2> QED
    BY <2>2 DEF InCall, Exchange, SuccessIsRight
<1> QED
  BY <1>1, <1>2

(* A good answer that fits makes a call that returns 0 right. *)
LEMMA AttemptSucceedsKeeps ==
  ASSUME TypeOK, InCall, mpc = "read", stale' = stale, relays' = relays,
         pend' = pend, ~stale => pend = <<>> /\ Collected,
         NEW f \in Frame, ~stale => Fits(f), AttemptSucceeds(f)
  PROVE  InCall' /\ Exchange' /\ SuccessIsRight'
<1> DEFINE q == RequestOf(call, retry)
           coils == IF f.coils = {} THEN acc ELSE acc \cup {retry}
           more == call.op = "read_coils_fix" /\ retry + 1 < call.arg
<1>0. /\ retry \in Nat /\ call \in CallType /\ call \in Calls
      /\ relays \in [Addr -> SUBSET Nat]
      /\ call.op = "read_coils_fix" => retry < call.arg
  BY DEF TypeOK, InCall
<1>1. ASSUME ~stale, call.op = "read_coils_fix", call.addr \in Addr,
             Kind[call.addr] = "fix"
      PROVE  coils = {i \in 0..retry : call.reg + i \in relays[call.addr]}
  <2>1. acc = {i \in 0..retry - 1 : call.reg + i \in relays[call.addr]}
    BY <1>1 DEF Collected
  <2>2. f.coils = relays[call.addr] \cap {call.reg + retry}
    BY <1>1 DEF Fits, Answer, Payload, RequestOf, Func, READ_COILS
  <2>3. 0..retry = (0..retry - 1) \cup {retry}
    BY <1>0
  <2> QED
    BY <2>1, <2>2, <2>3, <1>0
<1>2. CASE more
  <2>1. /\ mpc' = "send" /\ retry' = retry + 1 /\ call' = call /\ acc' = coils
    BY <1>2, Zenon DEF AttemptSucceeds
  <2>2. ~stale' => pend' = <<>> /\ Collected'
    BY <1>0, <1>1, <2>1 DEF Collected
  <2> QED
    BY <1>0, <1>2, <2>1, <2>2 DEF InCall, Exchange, SuccessIsRight
<1>3. CASE ~more
  <2>1. /\ mpc' = "idle" /\ call' = call /\ ans' = f
        /\ res' = [ok |-> TRUE,
                   coils |-> IF call.op = "read_coils_fix" THEN coils
                                          ELSE StateOf(call, f.coils)]
    <3>1. CASE call.op = "read_coils_fix"
      BY <1>3, <3>1 DEF AttemptSucceeds, Return
    <3>2. CASE call.op # "read_coils_fix"
      BY <1>3, <3>2 DEF AttemptSucceeds, Return
    <3> QED
      BY <3>1, <3>2
  <2>2. ASSUME ~stale PROVE Right'
    <3>1. Fits(f) /\ Collected
      BY <2>2
    <3>2. AnswerIsOurs' /\ call'.addr \in Addr
      BY <2>1, <3>1 DEF AnswerIsOurs, Fits, RequestOf
    <3>3. ReadIsCurrent'
      BY <2>1, <3>1 DEF ReadIsCurrent, Fits, Answer, Payload, RequestOf, Func, READ_COILS
    <3>4. ReadFixIsCurrent'
      <4>1. ASSUME call.op = "read_coils_fix" PROVE retry = call.arg - 1
        BY <1>0, <1>3, <4>1 DEF CallType
      <4> QED
        BY <1>1, <2>1, <2>2, <3>2, <4>1 DEF ReadFixIsCurrent
    <3>5. WriteIsDone'
      <4> SUFFICES ASSUME call.op = "write_coil",
                          Target(call.addr, call.reg) \in RelayIds(call.addr)
                   PROVE  Target(call.addr, call.reg) \in relays[call.addr]
                            <=> call.arg # 0
        BY <2>1 DEF WriteIsDone
      <4>1. q.func = WRITE_COIL /\ q.reg = call.reg /\ q.data = call.arg
        BY DEF RequestOf, Func
      <4>2. relays[call.addr] = Switched(call.addr, relays[call.addr], call.reg, call.arg)
        BY <3>1, <4>1 DEF Fits, RelaysAfter
      <4> QED
        BY <4>2 DEF Switched
    <3> QED
      BY <3>2, <3>3, <3>4, <3>5 DEF Right
  <2> QED
    BY <2>1, <2>2 DEF InCall, Exchange, SuccessIsRight
<1> QED
  BY <1>2, <1>3

(* What a board answers fits the request it answers. *)
LEMMA ServedFits ==
  ASSUME TypeOK, Serve, pend = <<RequestOf(call, retry)>>,
         call' = call, retry' = retry,
         Answers(call.addr, RequestOf(call, retry)),
         NEW f, f = Answer(call.addr, relays[call.addr], RequestOf(call, retry))
  PROVE  Fits(f)'
<1> DEFINE q == RequestOf(call, retry)
           a == call.addr
           on == relays[a]
<1>1. Head(pend) = q /\ q.addr = a /\ q \in Request
  BY RequestIsTyped DEF TypeOK, RequestOf
<1>2. a \in Addr /\ a \in Nat /\ on \in SUBSET Nat
  BY <1>1, AddrAssumption DEF Serve, TypeOK
<1>3. relays'[a] = RelaysAfter(a, on, q)
  BY <1>1, <1>2 DEF Serve, TypeOK
<1>4. /\ f.addr = a /\ f.func = q.func
      /\ f.coils = Answer(a, on, q).coils
  BY DEF Answer
<1>5. f.coils = Answer(a, relays'[a], q).coils
  BY <1>2, <1>3, <1>4, AnswerAfterWrite
<1>6. relays'[a] = RelaysAfter(a, relays'[a], q)
  BY <1>2, <1>3, WriteIdempotent
<1>7. q.func = WRITE_COIL => Accepts(a, q.reg)
  BY DEF Answers, WRITE_COIL, READ_COILS, READ_INPUTS
<1>8. RequestOf(call, retry)' = q /\ call'.addr = a
  BY DEF RequestOf, Func
<1> QED
  BY <1>2, <1>4, <1>5, <1>6, <1>7, <1>8 DEF Fits

(* The answer that the last read() accepts fits the request, if any is.     *)
Accepted == (got \o SubSeq(rx, 1, Wanted))[1][1]

LEMMA AcceptsWhatFits ==
  ASSUME TypeOK, IInv, ReadAll
  PROVE  \/ /\ Accepted \in Frame
            /\ AttemptSucceeds(Accepted)
            /\ ~stale => pend = <<>> /\ Collected /\ Fits(Accepted)
         \/ AttemptFails
<1> DEFINE all == got \o SubSeq(rx, 1, Wanted)
<1>0. /\ Exchange /\ mpc = "read"
      /\ got \in Seq(Byte) /\ rx \in Seq(Byte) /\ call \in CallType
  BY DEF IInv, TypeOK, ReadAll
<1>1. Wanted \in Nat /\ Wanted > 0 /\ Wanted <= Len(rx)
  <2>1. Len(rx) >= Wanted
    BY DEF ReadAll
  <2>2. Len(got) < Expected(call) /\ Len(got) \in Nat /\ Len(rx) \in Nat
    BY <1>0, LenProperties DEF TypeOK
  <2> QED
    BY <1>0, <2>1, <2>2, ExpectedTyped DEF Wanted
<1>2. SubSeq(rx, 1, Wanted) \in Seq(Byte)
  BY <1>0, <1>1, SubSeqBytes
<1>3. all \in Seq(Byte)
  BY <1>0, <1>2, ConcatProperties
<1>4. ASSUME ~stale
      PROVE  pend = <<>> /\ Collected /\ AllFit(all)
  <2>1. rx # <<>>
    BY <1>1, EmptySeq
  <2>2. pend = <<>> /\ AllFit(got) /\ AllFit(rx) /\ Collected
    BY <1>0, <1>4, <2>1 DEF Exchange, OneExchange
  <2>3. AllFit(SubSeq(rx, 1, Wanted))
    BY <1>0, <1>1, <2>2, AllFitSubSeq
  <2> QED
    BY <1>0, <1>2, <2>2, <2>3, AllFitConcat
<1>5. CrcGood(all) => all[1][1] \in Frame /\ all[1][1].good /\ Len(all) >= 1
  <2> SUFFICES ASSUME CrcGood(all) PROVE all[1][1] \in Frame /\ Len(all) >= 1
    BY DEF CrcGood
  <2>1. Len(all) >= 1
    BY <1>3, EmptySeq, LenProperties DEF CrcGood
  <2> QED
    BY <1>3, <2>1, ElementOfSeq DEF Byte
<1>6. IF CrcGood(all) /\ ~split THEN AttemptSucceeds(all[1][1]) ELSE AttemptFails
  BY DEF ReadAll
<1>8. all[1][1] = Accepted
  BY DEF Accepted
<1> HIDE DEF all
<1>7. CASE CrcGood(all) /\ ~split
  <2>1. ~stale => pend = <<>> /\ Collected /\ Fits(all[1][1])
    BY <1>4, <1>5, <1>7 DEF AllFit
  <2> QED
    BY <1>5, <1>6, <1>7, <1>8, <2>1
<1> QED
  BY <1>6, <1>7

(* The invariant is kept by every step. *)
LEMMA IInvStep ==
  ASSUME TypeOK, IInv, [Next]_vars
  PROVE  IInv'
<1> USE DEF line, master
<1>0. /\ InCall /\ Exchange /\ SuccessIsRight
      /\ got \in Seq(Byte) /\ rx \in Seq(Byte) /\ tx \in Seq(Byte)
      /\ pend \in Seq(Request) /\ retry \in Nat /\ call \in CallType
  BY DEF IInv, TypeOK
<1>1. ASSUME NEW c \in Calls, Begin(c) PROVE IInv'
  BY <1>1, CallsAssumption DEF Begin, IInv, InCall, Exchange, SuccessIsRight, CallType
<1>2. CASE SendRequest
  <2>1. ASSUME ~stale' PROVE OneExchange' /\ Collected'
    <3>1. ~stale /\ Quiet
      BY <1>2, <2>1 DEF SendRequest
    <3>2. OneExchange'
      BY <1>2, <3>1 DEF SendRequest, OneExchange, Quiet
    <3>3. Collected'
      <4>1. CASE retry = 0
        BY <1>0, <1>2, <4>1 DEF SendRequest, InCall, Collected
      <4>2. CASE retry # 0
        BY <1>0, <1>2, <3>1, <4>2 DEF SendRequest, Exchange, Collected
      <4> QED
        BY <4>1, <4>2
    <3> QED
      BY <3>2, <3>3
  <2> QED
    BY <1>0, <1>2, <2>1 DEF SendRequest, IInv, InCall, Exchange, SuccessIsRight
<1>3. CASE SendFails
  <2>1. mpc' = "idle" /\ ~res'.ok
    BY <1>3 DEF SendFails, Return
  <2> QED
    BY <2>1 DEF IInv, InCall, Exchange, SuccessIsRight
<1>4. ASSUME mpc' = mpc, call' = call, retry' = retry, acc' = acc, res' = res,
             ans' = ans, stale' = stale, relays' = relays,
             ~stale /\ mpc = "read" => OneExchange',
             pend = <<>> => pend' = <<>>
      PROVE  IInv'
  <2>1. InCall'
    BY <1>0, <1>4 DEF InCall
  <2>2. Collected' = Collected /\ Right' = Right
    BY <1>4 DEF Collected, Right, AnswerIsOurs, ReadIsCurrent, ReadFixIsCurrent, WriteIsDone
  <2> QED
    BY <1>0, <1>4, <2>1, <2>2 DEF IInv, Exchange, SuccessIsRight
<1>5. CASE ReadSome
  <2>1. ASSUME ~stale PROVE OneExchange'
    <3>1. pend = <<>> /\ AllFit(got) /\ AllFit(rx) /\ AllFit(tx)
      BY <1>0, <1>5, <2>1 DEF ReadSome, Exchange, OneExchange
    <3>2. AllFit(got \o rx)
      BY <1>0, <3>1, AllFitConcat
    <3>3. /\ got' = got \o rx /\ rx' = <<>> /\ tx' = tx /\ pend' = pend
          /\ call' = call /\ retry' = retry /\ relays' = relays
      BY <1>5 DEF ReadSome
    <3> QED
      BY <3>1, <3>2, <3>3, AllFitEmpty DEF OneExchange, AllFit, Fits
  <2> QED
    BY <1>4, <1>5, <2>1 DEF ReadSome
<1>6. CASE ReadAll
  <2>1. /\ mpc = "read" /\ stale' = stale /\ relays' = relays /\ pend' = pend
    BY <1>6 DEF ReadAll
  <2>2. ASSUME NEW f \in Frame, AttemptSucceeds(f),
               ~stale => pend = <<>> /\ Collected /\ Fits(f)
        PROVE  IInv'
    BY <1>0, <2>1, <2>2, AttemptSucceedsKeeps DEF IInv
  <2>3. CASE AttemptFails
    BY <1>0, <2>1, <2>3, AttemptFailsKeeps DEF IInv
  <2> QED
    BY <1>6, <2>2, <2>3, AcceptsWhatFits
<1>7. CASE ReadTimeout
  BY <1>0, <1>7, AttemptFailsKeeps DEF ReadTimeout, IInv
<1>8. CASE ReadFails
  BY <1>0, <1>8, AttemptFailsKeeps DEF ReadFails, IInv
<1>9. CASE Serve
  <2>1. pend # <<>> /\ pend' = Tail(pend)
    BY <1>9 DEF Serve
  <2>2. ~stale => mpc # "idle" \/ ~res.ok
    BY <1>0, <2>1 DEF Exchange
  <2>3. ASSUME ~stale, mpc = "read"
        PROVE  OneExchange' /\ Collected' /\ pend' = <<>>
    <3> DEFINE q == RequestOf(call, retry)
    <3>1. pend = <<q>> /\ got = <<>> /\ rx = <<>> /\ tx = <<>> /\ Collected
      BY <1>0, <2>1, <2>3 DEF Exchange, OneExchange
    <3>2. pend' = <<>> /\ Head(pend) = q
      BY <2>1, <3>1
    <3>3. call' = call /\ retry' = retry /\ got' = <<>> /\ rx' = <<>> /\ acc' = acc
      BY <1>9, <3>1 DEF Serve
    <3>4. AllFit(tx)'
      <4>1. CASE ~Answers(call.addr, q)
        <5>1. q.addr = call.addr
          BY DEF RequestOf
        <5>2. tx' = <<>>
          BY <1>9, <3>1, <3>2, <4>1, <5>1 DEF Serve
        <5> QED
          BY <5>2 DEF AllFit
      <4>2. CASE Answers(call.addr, q)
        <5>1. q.addr = call.addr /\ call.addr \in Addr /\ call.addr \in Nat
              /\ q \in Request /\ relays[call.addr] \in SUBSET Nat
          <6>1. q.addr = call.addr
            BY DEF RequestOf
          <6>2. q.addr \in Addr
            BY <1>9, <3>2 DEF Serve
          <6> QED
            BY <1>0, <6>1, <6>2, AddrAssumption, RequestIsTyped DEF TypeOK
        <5>2. PICK a : a = Answer(q.addr, relays[q.addr], q)
          OBVIOUS
        <5>3. a \in Frame /\ Damaged(a) \in Frame /\ ~Damaged(a).good
          BY <5>1, <5>2, AnswerIsFrame
        <5>4. Fits(a)'
          BY <1>9, <3>1, <3>3, <4>2, <5>1, <5>2, ServedFits
        <5>7. PICK f \in {a, Damaged(a)} : tx' = tx \o Bytes(f)
          BY <1>9, <3>2, <4>2, <5>1, <5>2 DEF Serve
        <5>5. f \in Frame /\ tx' = Bytes(f)
          BY <3>1, <5>3, <5>7, BytesOfFrame, ConcatEmptySeq
        <5>6. \A i \in 1..Len(tx') : tx'[i][1] = f
          BY <5>5, BytesOfFrame
        <5>8. f.good => f = a
          BY <5>3, <5>7
        <5> QED
          BY <5>4, <5>6, <5>8 DEF AllFit
      <4> QED
        BY <4>1, <4>2
    <3>5. Collected'
      <4> SUFFICES ASSUME call.op = "read_coils_fix" PROVE Collected'
        BY <3>3 DEF Collected
      <4>1. q.func = READ_COILS
        BY DEF RequestOf, Func
      <4>2. q.func # WRITE_COIL
        BY <4>1 DEF READ_COILS, WRITE_COIL
      <4>3. \A a, on : RelaysAfter(a, on, q) = on
        BY <4>2, Zenon DEF RelaysAfter
      <4>4. relays' = relays
        BY <1>9, <3>2, <4>3 DEF Serve, TypeOK
      <4> QED
        BY <3>1, <3>3, <4>4 DEF Collected
    <3> QED
      BY <3>2, <3>3, <3>4, <3>5 DEF OneExchange, AllFit
  <2>4. ~stale /\ mpc = "send" => ~(call.op = "read_coils_fix" /\ retry > 0)
    BY <1>0, <2>1 DEF Exchange
  <2>5. /\ mpc' = mpc /\ call' = call /\ retry' = retry /\ acc' = acc
        /\ res' = res /\ stale' = stale
    BY <1>9 DEF Serve
  <2> QED
    BY <1>0, <2>2, <2>3, <2>4, <2>5 DEF IInv, InCall, Exchange, SuccessIsRight
<1>10. CASE LoseRequest
  <2>1. ASSUME ~stale, mpc = "read" PROVE OneExchange'
    <3>1. pend = <<RequestOf(call, retry)>> /\ got = <<>> /\ rx = <<>> /\ tx = <<>>
      BY <1>0, <1>10, <2>1 DEF LoseRequest, Exchange, OneExchange
    <3>2. pend' = <<>> /\ got' = <<>> /\ rx' = <<>> /\ tx' = <<>>
      BY <1>10, <3>1 DEF LoseRequest
    <3> QED
      BY <3>2 DEF OneExchange, AllFit
  <2> QED
    BY <1>4, <1>10, <2>1 DEF LoseRequest
<1>11. ASSUME NEW k \in Chunks, LoseBytes(k) PROVE IInv'
  <2>1. ASSUME ~stale, mpc = "read" PROVE OneExchange'
    <3>1. pend = <<>> /\ AllFit(got) /\ AllFit(rx) /\ AllFit(tx)
      BY <1>0, <1>11, <2>1 DEF LoseBytes, Exchange, OneExchange
    <3>2. AllFit(SubSeq(tx, k + 1, Len(tx)))
      BY <1>0, <3>1, AllFitSubSeq, ChunksAssumption, LenProperties
    <3>3. /\ got' = got /\ rx' = rx /\ tx' = SubSeq(tx, k + 1, Len(tx)) /\ pend' = pend
          /\ call' = call /\ retry' = retry /\ relays' = relays
      BY <1>11 DEF LoseBytes
    <3> QED
      BY <3>1, <3>2, <3>3 DEF OneExchange, AllFit, Fits
  <2> QED
    BY <1>4, <1>11, <2>1 DEF LoseBytes
<1>12. ASSUME NEW k \in Chunks, Arrive(k) PROVE IInv'
  <2>1. ASSUME ~stale, mpc = "read" PROVE OneExchange'
    <3> DEFINE n == Least(Least(k, Len(tx)), RxSize - Len(rx))
    <3>1. pend = <<>> /\ AllFit(got) /\ AllFit(rx) /\ AllFit(tx)
      BY <1>0, <1>12, <2>1 DEF Arrive, Exchange, OneExchange
    <3>2. n \in Int /\ n <= Len(tx)
      BY <1>0, ChunksAssumption, BoundAssumption, LenProperties DEF Least
    <3>3. /\ AllFit(SubSeq(tx, k + 1, Len(tx)))
          /\ AllFit(SubSeq(tx, 1, n)) /\ SubSeq(tx, 1, n) \in Seq(Byte)
      BY <1>0, <3>1, <3>2, AllFitSubSeq, SubSeqBytes, ChunksAssumption, LenProperties
    <3>4. AllFit(rx \o SubSeq(tx, 1, n))
      BY <1>0, <3>1, <3>3, AllFitConcat
    <3>5. /\ got' = got /\ rx' = rx \o SubSeq(tx, 1, n)
          /\ tx' = SubSeq(tx, k + 1, Len(tx)) /\ pend' = pend
          /\ call' = call /\ retry' = retry /\ relays' = relays
      BY <1>12 DEF Arrive
    <3> HIDE DEF n
    <3> QED
      BY <3>1, <3>3, <3>4, <3>5 DEF OneExchange, AllFit, Fits
  <2> QED
    BY <1>4, <1>12, <2>1 DEF Arrive
<1>13. CASE Hangup
  <2>1. ASSUME ~stale, mpc = "read" PROVE OneExchange'
    <3>1. AllFit(got)
      BY <1>0, <2>1, AllFitEmpty DEF Exchange, OneExchange
    <3>2. /\ got' = got /\ rx' = <<>> /\ tx' = <<>> /\ pend' = <<>>
          /\ call' = call /\ retry' = retry /\ relays' = relays
      BY <1>13 DEF Hangup
    <3> QED
      BY <3>1, <3>2 DEF OneExchange, AllFit, Fits
  <2> QED
    BY <1>4, <1>13, <2>1 DEF Hangup
<1>14. CASE UNCHANGED vars
  BY <1>14 DEF vars, IInv, InCall, Exchange, SuccessIsRight, OneExchange, AllFit, Fits,
     Collected, Right, AnswerIsOurs, ReadIsCurrent, ReadFixIsCurrent, WriteIsDone
<1>15. CASE ReadNothing
  BY <1>14, <1>15 DEF ReadNothing
<1> QED
  BY <1>1, <1>2, <1>3, <1>5, <1>6, <1>7, <1>8, <1>9, <1>10, <1>11, <1>12, <1>13,
     <1>14, <1>15 DEF Next, Master, Line

LEMMA AttemptsAreRight == Spec => []IInv
<1>1. Init => IInv
  BY DEF Init, serial_open, IInv, InCall, Exchange, SuccessIsRight
<1>2. TypeOK /\ IInv /\ [Next]_vars => IInv'
  BY IInvStep
<1> QED
  BY <1>1, <1>2, TypeInvariant, PTL DEF Spec

(* A call each of whose attempts began on a quiet line and that returned 0  *)
(* is right, whatever the line does to requests and answers.                *)
THEOREM SuccessRight == Spec => []SuccessIsRight
<1>1. IInv => SuccessIsRight
  BY DEF IInv
<1> QED
  BY <1>1, AttemptsAreRight, PTL

------------------------------------------------------------------------------
(* A line on which nothing is late and nothing breaks, ...                  *)
OnTime == Faults \subseteq {"loss", "garble"}

(* ... and calls that ask for as many coils as the board sends.             *)
AskForAll ==
  \A c \in Calls : c.addr \in Addr =>
    /\ c.op = "read_coils" => c.arg >= IF Kind[c.addr] = "relay16" THEN 16 ELSE 8
    /\ c.op = "read_coils_fix" => Kind[c.addr] # "relay16"
    /\ c.op = "read_inputs" => Kind[c.addr] = "relay16" \/ c.arg = 0 \/ c.arg >= 8

(* Outside of a read nothing is under way; within one, the request alone or *)
(* no more than what is missing of its answer.                              *)
QInv ==
  /\ ~hung /\ ~stale
  /\ mpc # "idle" => call \in Calls
  /\ mpc # "read" => Quiet
  /\ mpc = "read" =>
       \/ pend = <<RequestOf(call, retry)>> /\ got = <<>> /\ rx = <<>> /\ tx = <<>>
       \/ pend = <<>> /\ Len(got) + Len(rx) + Len(tx) <= Expected(call)

(* An answer is no longer than what the call reads.                         *)
LEMMA AnswerFits ==
  ASSUME AskForAll, NEW c \in Calls, c.addr \in Addr, NEW n \in Nat, NEW on,
         Answers(c.addr, RequestOf(c, n))
  PROVE  Answer(c.addr, on, RequestOf(c, n)).len <= Expected(c)
<1> DEFINE q == RequestOf(c, n)
<1>1. c \in CallType /\ c.arg \in Nat
  BY CallsAssumption DEF CallType
<1>2. q.func = Func(c)
  BY DEF RequestOf
<1>3. Answer(c.addr, on, q).len =
        IF q.func = WRITE_COIL THEN 8
        ELSE IF q.func = READ_COILS /\ Kind[c.addr] = "relay16" THEN 7 ELSE 6
  BY DEF Answer, READ_COILS, WRITE_COIL
<1> HIDE DEF q
<1>4. CASE c.op = "read_coils"
  <2>1. q.func = READ_COILS /\ q.func # WRITE_COIL
    BY <1>2, <1>4 DEF Func, READ_COILS, WRITE_COIL
  <2>2. Answer(c.addr, on, q).len = IF Kind[c.addr] = "relay16" THEN 7 ELSE 6
    BY <1>3, <2>1
  <2>3. Expected(c) = 5 + (c.arg \div 8)
    BY <1>1, <1>4 DEF Expected, CountOf
  <2>4. c.arg >= IF Kind[c.addr] = "relay16" THEN 16 ELSE 8
    BY <1>4 DEF AskForAll
  <2> QED
    BY <1>1, <2>2, <2>3, <2>4 DEF q
<1>5. CASE c.op = "read_coils_fix"
  <2>1. q.func = READ_COILS /\ q.func # WRITE_COIL
    BY <1>2, <1>5 DEF Func, READ_COILS, WRITE_COIL
  <2>2. Answer(c.addr, on, q).len = 6
    BY <1>3, <1>5, <2>1 DEF AskForAll
  <2> QED
    BY <1>5, <2>2 DEF Expected, q
<1>6. CASE c.op = "read_inputs"
  <2>1. q.func = READ_INPUTS /\ q.func # READ_COILS /\ q.func # WRITE_COIL
    BY <1>2, <1>6 DEF Func, READ_COILS, READ_INPUTS, WRITE_COIL
  <2>2. Kind[c.addr] # "relay16"
    BY <2>1 DEF Answers, q
  <2>3. Answer(c.addr, on, q).len = 6
    BY <1>3, <2>1
  <2> QED
    BY <1>1, <1>6, <2>2, <2>3 DEF AskForAll, Expected, CountOf, q
<1>7. CASE c.op \in {"write_coil", "write_register"}
  <2>1. Expected(c) = 8
    BY <1>7 DEF Expected
  <2>2. Answer(c.addr, on, q).len \in {6, 7, 8}
    BY <1>3
  <2> QED
    BY <2>1, <2>2 DEF q
<1> QED
  BY <1>1, <1>4, <1>5, <1>6, <1>7 DEF CallType, Ops, q

LEMMA SumsOfLengths ==
  /\ \A r, n \in Nat : r + n \in Nat
  /\ \A r, n, t, u \in Nat : n + u <= t => (r + n) + u <= r + t
  /\ \A r, t, u \in Nat : u <= t => r + u <= r + t
OBVIOUS

(* The next attempt, or the end of the call, when nothing is under way.     *)
LEMMA QuietGoesOn ==
  ASSUME QInv, mpc = "read", Quiet', hung' = hung, stale' = stale, call' = call,
         mpc' \in {"idle", "send"}
  PROVE  QInv'
BY DEF QInv

LEMMA QInvStep ==
  ASSUME OnTime, AskForAll, TypeOK, QInv, [Next]_vars
  PROVE  QInv'
<1> USE DEF line, master
<1>0. /\ got \in Seq(Byte) /\ rx \in Seq(Byte) /\ tx \in Seq(Byte)
      /\ pend \in Seq(Request) /\ retry \in Nat /\ call \in CallType
      /\ Len(got) \in Nat /\ Len(rx) \in Nat /\ Len(tx) \in Nat
      /\ ~hung /\ ~stale
  BY LenProperties DEF TypeOK, QInv
<1>b. Len(got) \in Nat /\ Len(rx) \in Nat /\ Len(tx) \in Nat
  BY <1>0
<1>a. Expected(call) \in Nat
  BY <1>0, ExpectedTyped
<1>1. ASSUME NEW c \in Calls, Begin(c) PROVE QInv'
  BY <1>1 DEF Begin, QInv, Quiet
<1>2. CASE SendRequest
  <2>1. Quiet /\ mpc = "send"
    BY <1>2 DEF SendRequest, QInv
  <2>2. pend' = <<RequestOf(call, retry)>> /\ got' = <<>> /\ rx' = <<>> /\ tx' = <<>>
    BY <1>2, <2>1 DEF SendRequest, Quiet
  <2>3. ~stale'
    BY <1>0, <1>2, <2>1 DEF SendRequest
  <2> QED
    BY <1>0, <1>2, <2>2, <2>3 DEF SendRequest, QInv, RequestOf, Func
<1>3. CASE SendFails
  BY <1>0, <1>3 DEF SendFails, OnTime
<1>4. CASE ReadSome
  <2>1. pend = <<>> /\ Len(got) + Len(rx) + Len(tx) <= Expected(call)
    BY <1>4 DEF ReadSome, QInv
  <2>2. Len(got \o rx) = Len(got) + Len(rx) /\ Len(<<>>) = 0
    BY <1>0, ConcatProperties, EmptySeq
  <2>3. /\ got' = got \o rx /\ rx' = <<>> /\ tx' = tx /\ pend' = pend /\ hung' = hung
        /\ stale' = stale /\ call' = call /\ mpc' = mpc /\ mpc = "read"
    BY <1>4 DEF ReadSome
  <2>4. Len(got') + Len(rx') + Len(tx') <= Expected(call)
    BY <1>0, <2>1, <2>2, <2>3
  <2> QED
    BY <1>0, <2>1, <2>3, <2>4 DEF QInv, Expected, CountOf
<1>5. CASE ReadAll
  <2>1. mpc = "read" /\ Len(rx) >= Wanted /\ rx' = SubSeq(rx, Wanted + 1, Len(rx))
    BY <1>5 DEF ReadAll
  <2>2. Wanted \in Nat /\ Wanted > 0
    BY <1>0, <1>a, <2>1 DEF Wanted, TypeOK
  <2>3. pend = <<>> /\ Len(got) + Len(rx) + Len(tx) <= Expected(call)
    BY <1>0, <2>1, <2>2, EmptySeq DEF QInv
  <2>4. Len(rx) = Wanted /\ Len(tx) = 0
    BY <1>0, <1>a, <2>1, <2>3 DEF Wanted
  <2>5. tx = <<>>
    BY <1>0, <2>4, EmptySeq
  <2>6. rx' = <<>>
    BY <1>0, <2>1, <2>2, <2>4, SubSeqProperties, EmptySeq
  <2>7. mpc' \in {"idle", "send"} /\ call' = call
    BY <1>5 DEF ReadAll, AttemptFails, AttemptSucceeds, Return
  <2>8. tx' = tx /\ pend' = pend /\ hung' = hung /\ stale' = stale
    BY <1>5 DEF ReadAll
  <2> QED
    BY <2>1, <2>3, <2>5, <2>6, <2>7, <2>8, QuietGoesOn DEF Quiet
<1>6. CASE ReadTimeout
  <2>1. Quiet /\ mpc = "read"
    BY <1>6 DEF ReadTimeout, OnTime
  <2>2. mpc' \in {"idle", "send"} /\ call' = call
    BY <1>6 DEF ReadTimeout, AttemptFails, Return
  <2>3. Quiet' /\ hung' = hung /\ stale' = stale
    BY <1>6, <2>1 DEF ReadTimeout, Quiet
  <2> QED
    BY <2>1, <2>2, <2>3, QuietGoesOn
<1>7. CASE ReadFails
  BY <1>7 DEF ReadFails, OnTime
<1>8. CASE ReadNothing
  BY <1>0, <1>8 DEF ReadNothing
<1>9. CASE Serve
  <2> DEFINE q == RequestOf(call, retry)
             a == Answer(call.addr, relays[call.addr], q)
  <2>1. mpc = "read" /\ pend = <<q>> /\ got = <<>> /\ rx = <<>> /\ tx = <<>>
    BY <1>9 DEF Serve, QInv, Quiet
  <2>2. Head(pend) = q /\ Tail(pend) = <<>> /\ q.addr = call.addr
    BY <2>1 DEF RequestOf
  <2>3. q.addr \in Addr /\ call \in Calls /\ q \in Request
    BY <1>0, <1>9, <2>1, <2>2, RequestIsTyped DEF Serve, QInv
  <2>4. /\ got' = <<>> /\ rx' = <<>> /\ pend' = <<>> /\ mpc' = mpc /\ call' = call
        /\ retry' = retry /\ hung' = hung /\ stale' = stale
    BY <1>9, <2>1, <2>2 DEF Serve
  <2>5. Len(tx') <= Expected(call) /\ Len(tx') \in Nat
    <3>1. CASE Answers(call.addr, q)
      <4>1. relays[call.addr] \in SUBSET Nat /\ call.addr \in Nat
        BY <2>2, <2>3, AddrAssumption DEF TypeOK
      <4>2. a \in Frame /\ Damaged(a) \in Frame
        BY <2>3, <4>1, AnswerIsFrame
      <4>3. PICK f \in {a, Damaged(a)} : tx' = tx \o Bytes(f)
        BY <1>9, <2>2, <3>1 DEF Serve
      <4>4. f.len = a.len
        BY <4>3 DEF Damaged, Noise
      <4>5. tx' = Bytes(f) /\ Len(Bytes(f)) = f.len
        BY <2>1, <4>2, <4>3, BytesOfFrame, ConcatEmptySeq
      <4>6. a.len <= Expected(call)
        BY <1>0, <2>2, <2>3, <3>1, AnswerFits
      <4> QED
        BY <4>2, <4>3, <4>4, <4>5, <4>6 DEF Frame
    <3>2. CASE ~Answers(call.addr, q)
      <4>1. tx' = <<>>
        BY <1>9, <2>1, <2>2, <3>2 DEF Serve
      <4> QED
        BY <1>a, <4>1, EmptySeq
    <3> QED
      BY <3>1, <3>2
  <2>6. Expected(call)' = Expected(call)
    BY <2>4 DEF Expected, CountOf
  <2>7. Len(got') + Len(rx') + Len(tx') <= Expected(call)
    BY <2>4, <2>5, EmptySeq
  <2> QED
    BY <1>0, <2>1, <2>3, <2>4, <2>6, <2>7 DEF QInv
<1>10. ASSUME mpc = "read" => got' = got /\ pend' = <<>> /\ Len(rx') + Len(tx') <= Len(rx) + Len(tx),
              mpc # "read" => Quiet',
              Len(rx') \in Nat, Len(tx') \in Nat,
              mpc' = mpc, call' = call, hung' = hung, stale' = stale,
              mpc = "read" => pend = <<>> \/ Len(got) + Len(rx) + Len(tx) = 0
       PROVE  QInv'
  <2>1. Expected(call)' = Expected(call)
    BY <1>10 DEF Expected, CountOf
  <2>2. mpc = "read" => Len(got) + Len(rx) + Len(tx) <= Expected(call)
    BY <1>0, <1>a, <1>10, EmptySeq DEF QInv
  <2>3. mpc = "read" => Len(got') + Len(rx') + Len(tx') <= Expected(call)
    BY <1>0, <1>a, <1>10, <2>2
  <2> QED
    BY <1>0, <1>10, <2>1, <2>3 DEF QInv
<1>11. CASE LoseRequest
  <2>1. mpc = "read" /\ pend = <<RequestOf(call, retry)>> /\ got = <<>> /\ rx = <<>> /\ tx = <<>>
    BY <1>11 DEF LoseRequest, QInv, Quiet
  <2>2. pend' = <<>> /\ got' = got /\ rx' = rx /\ tx' = tx
    BY <1>11, <2>1 DEF LoseRequest
  <2>3. Len(got) + Len(rx) + Len(tx) = 0
    BY <2>1, EmptySeq
  <2> QED
    BY <1>0, <1>10, <1>11, <2>1, <2>2, <2>3 DEF LoseRequest
<1>12. ASSUME NEW k \in Chunks, LoseBytes(k) PROVE QInv'
  <2>1. mpc = "read" /\ pend = <<>>
    BY <1>12 DEF LoseBytes, QInv, Quiet
  <2>2. /\ got' = got /\ rx' = rx /\ pend' = pend
        /\ tx' = SubSeq(tx, k + 1, Len(tx))
    BY <1>12 DEF LoseBytes
  <2>3. Len(tx') \in Nat /\ Len(tx') <= Len(tx)
    BY <1>0, <2>2, ChunksAssumption
  <2>4. Len(rx') \in Nat /\ Len(rx') + Len(tx') <= Len(rx) + Len(tx)
    <3>1. Len(rx') = Len(rx)
      BY <2>2
    <3> QED
      BY <1>b, <2>3, <3>1, SumsOfLengths, Zenon
  <2>5. mpc' = mpc /\ call' = call /\ hung' = hung /\ stale' = stale
    BY <1>12 DEF LoseBytes
  <2> QED
    BY <1>10, <2>1, <2>2, <2>3, <2>4, <2>5
<1>13. ASSUME NEW k \in Chunks, Arrive(k) PROVE QInv'
  <2> DEFINE n == Least(Least(k, Len(tx)), RxSize - Len(rx))
  <2>1. mpc = "read" /\ pend = <<>>
    BY <1>13 DEF Arrive, QInv, Quiet
  <2>2. /\ got' = got /\ pend' = pend
        /\ rx' = rx \o SubSeq(tx, 1, n)
        /\ tx' = SubSeq(tx, k + 1, Len(tx))
    BY <1>13 DEF Arrive
  <2>3. n \in Int /\ n <= Len(tx) /\ n <= k /\ k \in Nat
    BY <1>0, ChunksAssumption, BoundAssumption DEF Least
  <2> HIDE DEF n
  <2>4. SubSeq(tx, 1, n) \in Seq(Byte) /\ Len(SubSeq(tx, 1, n)) = IF 1 <= n THEN n ELSE 0
    BY <1>0, <2>3, SubSeqBytes, SubSeqProperties
  <2>5. Len(rx') = Len(rx) + Len(SubSeq(tx, 1, n))
    BY <1>0, <2>2, <2>4, ConcatProperties
  <2>6. Len(tx') = IF k + 1 <= Len(tx) THEN Len(tx) - k ELSE 0
    BY <1>0, <2>2, <2>3
  <2>7. Len(SubSeq(tx, 1, n)) \in Nat /\ Len(SubSeq(tx, 1, n)) + Len(tx') <= Len(tx)
        /\ Len(tx') \in Nat
    <3>1. CASE k + 1 <= Len(tx)
      BY <1>0, <2>3, <2>4, <2>6, <3>1
    <3>2. CASE ~(k + 1 <= Len(tx))
      BY <1>0, <2>3, <2>4, <2>6, <3>2
    <3> QED
      BY <3>1, <3>2
  <2>8. Len(rx') \in Nat /\ Len(rx') + Len(tx') <= Len(rx) + Len(tx)
    BY <1>b, <2>5, <2>7, SumsOfLengths, Zenon
  <2> QED
    BY <1>0, <1>10, <1>13, <2>1, <2>2, <2>7, <2>8 DEF Arrive
<1>14. CASE Hangup
  BY <1>14 DEF Hangup, OnTime
<1>15. CASE UNCHANGED vars
  BY <1>15 DEF vars, QInv, Quiet, RequestOf, Func, Expected, CountOf
<1> QED
  BY <1>1, <1>2, <1>3, <1>4, <1>5, <1>6, <1>7, <1>8, <1>9, <1>11, <1>12, <1>13,
     <1>14, <1>15 DEF Next, Master, Line

LEMMA LineIsQuiet == OnTime /\ AskForAll => (Spec => []QInv)
<1> SUFFICES ASSUME OnTime, AskForAll PROVE Spec => []QInv
  OBVIOUS
<1>1. Init => QInv
  BY DEF Init, serial_open, QInv, Quiet
<1>2. TypeOK /\ QInv /\ [Next]_vars => QInv'
  BY QInvStep
<1> QED
  BY <1>1, <1>2, TypeInvariant, PTL DEF Spec

(* On a line where boards keep their deadline, no attempt begins with old   *)
(* bytes on the line, whatever is lost or damaged and however often it is   *)
(* tried again: the flush that the code leaves out is not missed, as long   *)
(* as calls ask for as many coils as the board sends.                       *)
THEOREM FlushNotMissed == OnTime /\ AskForAll => (Spec => []NeverStale)
<1> SUFFICES ASSUME OnTime, AskForAll PROVE Spec => []NeverStale
  OBVIOUS
<1>1. Spec => []QInv
  BY LineIsQuiet
<1>2. QInv => NeverStale
  BY DEF QInv, NeverStale
<1> QED
  BY <1>1, <1>2, PTL

(* There, every call that returns 0 is right.                               *)
THEOREM CallsAreRight ==
  OnTime /\ AskForAll => (Spec => [](mpc = "idle" /\ res.ok => Right))
<1> SUFFICES ASSUME OnTime, AskForAll
             PROVE  Spec => [](mpc = "idle" /\ res.ok => Right)
  OBVIOUS
<1>1. NeverStale /\ SuccessIsRight => (mpc = "idle" /\ res.ok => Right)
  BY DEF NeverStale, SuccessIsRight
<1> QED
  BY <1>1, FlushNotMissed, SuccessRight, PTL

------------------------------------------------------------------------------
(* That the calls keep the promise of RelayClient                           *)

(* The user reads a bought board coil by coil.                              *)
ReadsAsMeant == \A c \in Calls : c.op = "read_coils" /\ c.addr \in Addr => Kind[c.addr] # "fix"

(* What the master and the line leave alone, and the one change of a relay. *)
LEMMA LineStep ==
  ASSUME TypeOK, QInv, Master \/ Line
  PROVE  /\ mpc # "idle"
         /\ call' = call
         /\ \/ relays' = relays
            \/ /\ Func(call) = WRITE_COIL /\ call.addr \in Addr
               /\ relays' = [relays EXCEPT ![call.addr] =
                               RelaysAfter(call.addr, @, RequestOf(call, retry))]
<1>1. CASE Master
  BY <1>1 DEF Master, SendRequest, SendFails, ReadSome, ReadAll, ReadTimeout, ReadFails,
     ReadNothing, AttemptFails, AttemptSucceeds, Return, vars, master, line
<1>2. CASE LoseRequest \/ \E k \in Chunks : Arrive(k) \/ LoseBytes(k)
  BY <1>2 DEF LoseRequest, Arrive, LoseBytes, QInv, Quiet, master, line
<1>3. CASE Serve
  <2> DEFINE q == RequestOf(call, retry)
  <2>1. mpc = "read" /\ pend = <<q>> /\ call' = call
    BY <1>3 DEF Serve, QInv, Quiet, master
  <2>2. Head(pend) = q /\ q.addr = call.addr /\ q.func = Func(call)
    BY <2>1 DEF RequestOf
  <2>3. /\ call.addr \in Addr
        /\ relays' = [relays EXCEPT ![call.addr] = RelaysAfter(call.addr, @, q)]
    BY <1>3, <2>2 DEF Serve
  <2>4. CASE Func(call) # WRITE_COIL
    <3>1. RelaysAfter(call.addr, relays[call.addr], q) = relays[call.addr]
      BY <2>2, <2>4 DEF RelaysAfter
    <3>2. relays' = relays
      BY <2>3, <3>1 DEF TypeOK
    <3> QED
      BY <2>1, <3>2
  <2> QED
    BY <2>1, <2>3, <2>4
<1> QED
  BY <1>1, <1>2, <1>3 DEF Line

LEMMA SameEffect ==
  ASSUME NEW n, call.op = "write_coil"
  PROVE  RequestOf(call, n) = RequestOf(call, 0) /\ RequestOf(call, n).func = WRITE_COIL
BY DEF RequestOf, Func

(* A call ends well: what it was to do is done, what it read is there.      *)
LEMMA SucceedsAsPromised ==
  ASSUME TypeOK, IInv, QInv, ReadsAsMeant, mpc = "read", relays' = relays,
         NEW f \in Frame, AttemptSucceeds(f), Fits(f)
  PROVE  Client!Succeed \/ UNCHANGED Client!vars
<1>1. CASE call.op = "read_coils_fix" /\ retry + 1 < call.arg
  BY <1>1 DEF AttemptSucceeds, Client!vars
<1>2. CASE call.op = "read_coils_fix" /\ ~(retry + 1 < call.arg)
  BY <1>2 DEF AttemptSucceeds, Return, Client!Succeed, EffectOf
<1>3. CASE call.op # "read_coils_fix"
  <2>1. mpc' = "idle" /\ res' = [ok |-> TRUE, coils |-> StateOf(call, f.coils)] /\ call' = call
    BY <1>3 DEF AttemptSucceeds, Return
  <2>2. call \in Calls /\ call.addr \in Addr
    BY DEF IInv, InCall, Fits
  <2>3. relays = EffectOf(call, relays)
    <3>1. CASE call.op = "write_coil"
      <4>1. relays[call.addr] = RelaysAfter(call.addr, relays[call.addr], RequestOf(call, 0))
        BY <3>1, SameEffect DEF Fits
      <4> QED
        BY <2>2, <3>1, <4>1 DEF EffectOf, TypeOK
    <3>2. CASE call.op # "write_coil"
      BY <3>2 DEF EffectOf
    <3> QED
      BY <3>1, <3>2
  <2>4. call.op = "read_coils" => res'.coils = ReadingOf(call, relays)
    BY <2>1, <2>2 DEF ReadsAsMeant, ReadingOf, Fits, Answer, Payload, RequestOf, Func, READ_COILS
  <2> QED
    BY <2>1, <2>2, <2>3, <2>4 DEF Client!Succeed
<1> QED
  BY <1>1, <1>2, <1>3

LEMMA FailsAsPromised ==
  ASSUME mpc = "read", relays' = relays, AttemptFails
  PROVE  Client!Fail \/ UNCHANGED Client!vars
<1>1. CASE call.op # "read_coils_fix" /\ retry + 1 < CFG_REQUST_RETRY_CNT
  BY <1>1 DEF AttemptFails, Client!vars
<1>2. CASE ~(call.op # "read_coils_fix" /\ retry + 1 < CFG_REQUST_RETRY_CNT)
  BY <1>2 DEF AttemptFails, Return, Client!Fail
<1> QED
  BY <1>1, <1>2

LEMMA StepAsPromised ==
  ASSUME OnTime, ReadsAsMeant, TypeOK, IInv, QInv, [Next]_vars
  PROVE  [Client!Next]_Client!vars
<1>1. ASSUME NEW c \in Calls, Begin(c) PROVE Client!Begin(c)
  BY <1>1 DEF Begin, Client!Begin
<1>2. CASE SendRequest \/ ReadSome \/ ReadNothing \/ UNCHANGED vars
  BY <1>2 DEF SendRequest, ReadSome, ReadNothing, vars, master, Client!vars
<1>3. CASE SendFails
  <2>1. Client!Fail
    BY <1>3 DEF SendFails, Return, Client!Fail
  <2> QED
    BY <2>1 DEF Client!Next
<1>4. CASE ReadAll
  <2>1. mpc = "read" /\ relays' = relays /\ ~stale
    BY <1>4 DEF ReadAll, QInv
  <2>2. CASE AttemptFails
    BY <2>1, <2>2, FailsAsPromised DEF Client!Next
  <2>3. ASSUME NEW f \in Frame, AttemptSucceeds(f), Fits(f)
        PROVE  [Client!Next]_Client!vars
    BY <2>1, <2>3, SucceedsAsPromised DEF Client!Next
  <2> QED
    BY <1>4, <2>1, <2>2, <2>3, AcceptsWhatFits
<1>5. CASE ReadTimeout \/ ReadFails
  BY <1>5, FailsAsPromised DEF ReadTimeout, ReadFails, Client!Next
<1>6. CASE Line
  <2>1. mpc' = mpc /\ res' = res
    BY <1>6 DEF Line, Serve, LoseRequest, LoseBytes, Arrive, master
  <2>2. mpc # "idle" /\ call' = call
    BY <1>6, LineStep
  <2>3. CASE relays' = relays
    BY <2>1, <2>2, <2>3 DEF Client!vars
  <2>4. CASE /\ Func(call) = WRITE_COIL /\ call.addr \in Addr
             /\ relays' = [relays EXCEPT ![call.addr] =
                             RelaysAfter(call.addr, @, RequestOf(call, retry))]
    <3>1. call.op = "write_coil"
      BY <2>4 DEF Func, READ_COILS, READ_INPUTS, WRITE_COIL, WRITE_REGISTER
    <3>2. relays' = EffectOf(call, relays)
      BY <2>4, <3>1, SameEffect DEF EffectOf
    <3> QED
      BY <2>1, <2>2, <3>2 DEF Client!Next, Client!Apply
  <2> QED
    BY <1>6, <2>3, <2>4, LineStep
<1>7. CASE Hangup
  BY <1>7 DEF Hangup, OnTime
<1> QED
  BY <1>1, <1>2, <1>3, <1>4, <1>5, <1>6, <1>7 DEF Next, Master, Client!Next

(* The master keeps the promise of RelayClient on such a line: a relay only *)
(* changes while a call that writes it runs, whatever the retries, and a    *)
(* call that returns 0 has had its effect and tells the relays as they are. *)
THEOREM MasterKeepsPromise ==
  OnTime /\ AskForAll /\ ReadsAsMeant => (Spec => ImplementsClient)
<1> SUFFICES ASSUME OnTime, AskForAll, ReadsAsMeant PROVE Spec => Client!Spec
  BY DEF ImplementsClient
<1>1. Spec => [](TypeOK /\ IInv /\ QInv)
  BY TypeInvariant, AttemptsAreRight, LineIsQuiet, PTL
<1>2. Init => Client!Init
  BY InitAssumption DEF Init, serial_open, Client!Init
<1>3. TypeOK /\ IInv /\ QInv /\ [Next]_vars => [Client!Next]_Client!vars
  BY StepAsPromised
<1> QED
  BY <1>1, <1>2, <1>3, PTL DEF Spec, Client!Spec

-----------------------------------------------------------------------------
(* The gateway.                                                             *)

Coils == 0 .. 7

(* What the theorems suppose: boards keep their deadline and the device     *)
(* stays; -a names bought boards; a client switches a coil with the two     *)
(* states Modbus has for it; and the calls of the master are those of main. *)
GatewayAssumed ==
  /\ OnTime /\ AskForAll
  /\ \A i \in Servers : Kind[FixServers[i]] = "fix"
  /\ \A q \in TcpRequests : q.func = WRITE_COIL => q.data \in {0, ON}
  /\ {Call("write_coil", 3, 0, 255), Call("write_coil", 3, 0, 0),
      Call("write_register", 3, 0, 1)} \subseteq Calls
  /\ \A i \in Servers : Call("read_coils_fix", FixServers[i], 0, 8) \in Calls
  /\ \A q \in TcpRequests :
       /\ q.func = READ_COILS => Call("read_coils", q.addr, q.reg, q.data) \in Calls
                                 \/ IsFix(q.addr)
       /\ q.func = WRITE_COIL => WriteCall(q) \in Calls
       /\ q.func = READ_INPUTS => (IF IsFix(q.addr) THEN Call("read_inputs", q.addr, 0, 0)
                                   ELSE Call("read_inputs", q.addr, q.reg, q.data)) \in Calls

(* The copy of a coil is the relay, unless its last write failed.           *)
Agrees(i, c) ==
  ServerOf(FixServers[i]) = i /\ <<i, c>> \notin doubt
  => (c \in cache[i] <=> c \in relays[FixServers[i]])

AllAgree == \A i \in Servers, c \in Coils : Agrees(i, c)

(* A write to a bought board is under way: its coil is in the copy already. *)
Writing == req.func = WRITE_COIL /\ IsFix(req.addr)

WriteUnderWay ==
  /\ req \in TcpRequests
  /\ call = WriteCall(req)
  /\ \A i \in Servers, c \in Coils :
       ~(i = ServerOf(req.addr) /\ c = req.reg) => Agrees(i, c)
  /\ req.reg \in Coils => (req.reg \in cache[ServerOf(req.addr)] <=> req.data = ON)

(* The boards before the next one agree with their copy already.            *)
Starting ==
  /\ next \in Nat \ {0}
  /\ \A i \in Servers, c \in Coils : i < next => Agrees(i, c)

GInv ==
  /\ cache \in [Servers -> SUBSET Nat]
  /\ gpc \in {"init", "oneshot", "accept", "recv"} => mpc = "idle"
  /\ gpc \in {"init", "init_wait"} => Starting
  /\ gpc = "init_wait" => /\ next \in Servers
                          /\ call = Call("read_coils_fix", FixServers[next], 0, 8)
  /\ Serving => AllAgree
  /\ gpc = "rtu" /\ ~Writing => AllAgree /\ ~(Func(call) = WRITE_COIL /\ IsFix(call.addr))
  /\ gpc = "rtu" /\ Writing => WriteUnderWay

(* Of several servers with the address, the first is found.                 *)
LEMMA FirstServer ==
  ASSUME NEW a, IsFix(a)
  PROVE  ServerOf(a) \in Servers /\ FixServers[ServerOf(a)] = a
<1> DEFINE First(i) == FixServers[i] = a /\ \A j \in 1 .. i - 1 : FixServers[j] # a
           Found(n) == (\E i \in 1 .. n : FixServers[i] = a) => \E i \in 1 .. n : First(i)
<1>1. Found(0)
  OBVIOUS
<1>2. ASSUME NEW n \in Nat, Found(n) PROVE Found(n + 1)
  <2>1. CASE \E i \in 1 .. n : FixServers[i] = a
    BY <1>2, <2>1
  <2>2. CASE FixServers[n + 1] = a /\ ~\E i \in 1 .. n : FixServers[i] = a
    <3>1. First(n + 1)
      BY <2>2
    <3> QED
      BY <3>1
  <2> QED
    BY <2>1, <2>2
<1> HIDE DEF Found
<1>3. Found(1) /\ Found(2) /\ Found(3) /\ Found(4)
  BY <1>1, <1>2
<1>4. Found(5) /\ Found(6) /\ Found(7) /\ Found(8)
  BY <1>2, <1>3
<1>5. \E n \in 0 .. 8 : Len(FixServers) = n
  <2>1. Len(FixServers) \in Nat /\ Len(FixServers) <= 8
    BY FixAssumption DEF MAX_SERVERS_COUNT
  <2>2. \A n \in Nat : n <= 8 => n \in 0 .. 8
    OBVIOUS
  <2>3. Len(FixServers) \in 0 .. 8
    BY <2>1, <2>2, Zenon
  <2> QED
    BY <2>3, Zenon
<1>6. Found(Len(FixServers))
  <2>1. PICK n \in 0 .. 8 : Len(FixServers) = n
    BY <1>5
  <2>2. n = 0 \/ n = 1 \/ n = 2 \/ n = 3 \/ n = 4 \/ n = 5 \/ n = 6 \/ n = 7 \/ n = 8
    BY <2>1
  <2>3. Found(n)
    BY <1>1, <1>3, <1>4, <2>2, Zenon
  <2> QED
    BY <2>1, <2>3, Zenon
<1>7. \E i \in Servers : First(i)
  BY <1>6 DEF Found, IsFix, Servers
<1> QED
  BY <1>7 DEF ServerOf

(* Every step of the gateway is one of the master and the line, or none.    *)
LEMMA StepIsStep == GatewayAssumed /\ [GNext]_allvars => [Next]_vars
<1> SUFFICES ASSUME GatewayAssumed, [GNext]_allvars PROVE [Next]_vars
  OBVIOUS
<1>1. CASE UNCHANGED vars
  BY <1>1
<1>2. ASSUME NEW c \in Calls, Begin(c) PROVE [Next]_vars
  BY <1>2 DEF Next
<1>3. CASE Gateway
  <2>1. CASE BenchWrite
    BY <1>2, <2>1 DEF BenchWrite, GatewayAssumed
  <2>2. CASE OneShot
    BY <1>2, <2>2 DEF OneShot, GatewayAssumed
  <2>3. CASE InitRead
    BY <1>2, <2>3 DEF InitRead, GatewayAssumed
  <2>4. CASE \/ OneShotDone \/ InitDone \/ Listen \/ Accept \/ AcceptFails
             \/ RtuDone \/ Gone
    BY <1>1, <2>4 DEF OneShotDone, InitDone, Listen, Accept, AcceptFails, RtuDone,
       Gone, allvars
  <2> QED
    BY <1>3, <2>1, <2>2, <2>3, <2>4 DEF Gateway
<1>4. ASSUME NEW q \in TcpRequests, Recv(q) PROVE [Next]_vars
  <2>1. CASE RecvCached(q) \/ RecvOther(q)
    BY <1>1, <2>1 DEF RecvCached, RecvOther
  <2>2. CASE RecvReadCoils(q)
    BY <1>2, <2>2 DEF RecvReadCoils, GatewayAssumed
  <2>3. CASE RecvWriteCoil(q)
    BY <1>2, <2>3 DEF RecvWriteCoil, GatewayAssumed
  <2>4. CASE RecvReadInputs(q)
    BY <1>2, <2>4 DEF RecvReadInputs, GatewayAssumed
  <2> QED
    BY <1>4, <2>1, <2>2, <2>3, <2>4 DEF Recv
<1>5. CASE RecvClosed \/ ClientCloses \/ ClientResets
  BY <1>1, <1>5 DEF RecvClosed, ClientCloses, ClientResets
<1>6. CASE (Master \/ Line) /\ UNCHANGED gvars
  BY <1>6 DEF Next
<1>7. CASE UNCHANGED allvars
  BY <1>1, <1>7 DEF allvars
<1> QED
  BY <1>3, <1>4, <1>5, <1>6, <1>7 DEF GNext

(* Nothing agrees less when the relays, the copy and the doubt stay.        *)
LEMMA SameAgrees ==
  ASSUME relays' = relays, cache' = cache, doubt' = doubt
  PROVE  \A i, c : Agrees(i, c)' = Agrees(i, c)
BY DEF Agrees, ServerOf

(* Switching one relay of a bought board disturbs no other.                 *)
LEMMA OthersStay ==
  ASSUME NEW on, NEW q, NEW a, Kind[a] = "fix", q.reg \in Nat, NEW c \in Coils, c # q.reg - 1
  PROVE  c \in RelaysAfter(a, on, q) <=> c \in on
<1>1. c \in RelayIds(a)
  BY DEF RelayIds, Coils
<1>2. Target(a, q.reg) = q.reg - 1
  BY DEF Target
<1>3. c # Target(a, q.reg)
  BY <1>2
<1> QED
  BY <1>1, <1>3, Zenon DEF RelaysAfter, Switched

(* A step of the line or the master keeps the invariant: of the coils in    *)
(* the copy only the one that is being written can change.                  *)
LEMMA LineKeeps ==
  ASSUME GatewayAssumed, TypeOK, QInv, GInv, Master \/ Line, UNCHANGED gvars
  PROVE  GInv'
<1>1. /\ gpc' = gpc /\ next' = next /\ req' = req /\ cache' = cache /\ doubt' = doubt
  BY DEF gvars
<1>2. mpc # "idle" /\ call' = call
  BY LineStep
<1>3. gpc \notin {"init", "oneshot", "accept", "recv"}
  BY <1>2 DEF GInv
<1>4. cache' \in [Servers -> SUBSET Nat]
  BY <1>1 DEF GInv
<1>5. Writing' = Writing /\ Func(call)' = Func(call) /\ ~Serving'
  BY <1>1, <1>2, <1>3 DEF Writing, IsFix, Func, Serving
<1>6. CASE relays' = relays
  <2>1. \A i, c : Agrees(i, c)' = Agrees(i, c)
    BY <1>1, <1>6, SameAgrees
  <2>2. Starting' = Starting /\ AllAgree' = AllAgree
    BY <1>1, <2>1 DEF Starting, AllAgree
  <2>3. WriteUnderWay' = WriteUnderWay
    BY <1>1, <1>2, <2>1 DEF WriteUnderWay, WriteCall, IsFix, ServerOf
  <2> QED
    BY <1>1, <1>2, <1>3, <1>4, <1>5, <2>2, <2>3 DEF GInv
<1>7. CASE /\ Func(call) = WRITE_COIL /\ call.addr \in Addr
           /\ relays' = [relays EXCEPT ![call.addr] =
                           RelaysAfter(call.addr, @, RequestOf(call, retry))]
  <2>1. \A a \in Addr : a # call.addr => relays'[a] = relays[a]
    BY <1>7 DEF TypeOK
  <2>2. \A i \in Servers, c \in Coils : FixServers[i] # call.addr => Agrees(i, c)' = Agrees(i, c)
    <3> SUFFICES ASSUME NEW i \in Servers, NEW c \in Coils, FixServers[i] # call.addr
                 PROVE  Agrees(i, c)' = Agrees(i, c)
      OBVIOUS
    <3>1. FixServers[i] \in Addr
      BY FixAssumption DEF Servers
    <3>2. relays'[FixServers[i]] = relays[FixServers[i]]
      BY <2>1, <3>1
    <3> QED
      BY <1>1, <3>2 DEF Agrees, ServerOf
  <2>3. gpc # "init_wait"
    BY <1>7 DEF GInv, Call, Func, READ_COILS, WRITE_COIL
  <2>4. gpc = "rtu" /\ ~Writing => AllAgree'
    <3> SUFFICES ASSUME gpc = "rtu", ~Writing PROVE AllAgree'
      OBVIOUS
    <3>1. AllAgree /\ ~IsFix(call.addr)
      BY <1>7 DEF GInv
    <3>2. \A i \in Servers : FixServers[i] # call.addr
      BY <3>1 DEF IsFix
    <3> QED
      BY <2>2, <3>1, <3>2 DEF AllAgree
  <2>5. gpc = "rtu" /\ Writing => WriteUnderWay'
    <3> SUFFICES ASSUME gpc = "rtu", Writing PROVE WriteUnderWay'
      OBVIOUS
    <3>1. WriteUnderWay
      BY DEF GInv
    <3>2. call.addr = req.addr /\ call.reg = req.reg + 1 /\ call.op = "write_coil"
      BY <3>1 DEF WriteUnderWay, WriteCall, Writing, Call
    <3>3. req.reg \in Nat
      BY <3>1, RequestAssumption DEF WriteUnderWay, Request
    <3>4. ASSUME NEW i \in Servers, NEW c \in Coils,
                 ~(i = ServerOf(req.addr) /\ c = req.reg)
          PROVE  Agrees(i, c)'
      <4>1. Agrees(i, c)
        BY <3>1, <3>4 DEF WriteUnderWay
      <4>2. CASE FixServers[i] # call.addr
        BY <2>2, <4>1, <4>2
      <4>3. CASE FixServers[i] = call.addr /\ ServerOf(FixServers[i]) = i
        <5>1. c # req.reg
          BY <3>2, <3>4, <4>3
        <5>2. /\ RequestOf(call, retry).reg = req.reg + 1
              /\ Kind[call.addr] = "fix"
          BY <3>2, <4>3 DEF RequestOf, GatewayAssumed
        <5>3. c # RequestOf(call, retry).reg - 1 /\ RequestOf(call, retry).reg \in Nat
          BY <3>3, <5>1, <5>2 DEF Coils
        <5>4. c \in RelaysAfter(call.addr, relays[call.addr], RequestOf(call, retry))
              <=> c \in relays[call.addr]
          BY <5>2, <5>3, OthersStay
        <5>5. relays'[call.addr] = RelaysAfter(call.addr, relays[call.addr], RequestOf(call, retry))
          BY <1>7 DEF TypeOK
        <5> QED
          BY <1>1, <4>1, <4>3, <5>4, <5>5 DEF Agrees, ServerOf
      <4>4. CASE ServerOf(FixServers[i]) # i
        BY <4>4 DEF Agrees, ServerOf
      <4> QED
        BY <4>2, <4>3, <4>4
    <3> QED
      BY <1>1, <1>2, <3>1, <3>4 DEF WriteUnderWay, WriteCall, IsFix, ServerOf
  <2> QED
    BY <1>1, <1>2, <1>3, <1>4, <1>5, <2>3, <2>4, <2>5 DEF GInv
<1> QED
  BY <1>6, <1>7, LineStep

(* The gateway's own steps touch no relay.                                  *)
LEMMA GatewayTouchesNoRelay ==
  ASSUME \/ Gateway \/ RecvClosed \/ ClientCloses \/ ClientResets
         \/ \E q \in TcpRequests : Recv(q)
  PROVE  relays' = relays
BY DEF Gateway, RecvClosed, ClientCloses, ClientResets, Recv, BenchWrite, OneShot,
   OneShotDone, InitRead, InitDone, Listen, Accept, AcceptFails, RtuDone, Gone,
   RecvCached, RecvReadCoils, RecvWriteCoil, RecvReadInputs, RecvOther, Begin, vars, allvars

(* The reads of the initial coils: what succeeded is in the copy.           *)
LEMMA InitKeeps ==
  ASSUME GatewayAssumed, TypeOK, QInv, SuccessIsRight, GInv,
         InitRead \/ InitDone \/ Listen
  PROVE  GInv'
<1>0. relays' = relays
  BY GatewayTouchesNoRelay DEF Gateway
<1>1. CASE InitRead
  <2>1. /\ gpc = "init" /\ gpc' = "init_wait" /\ next \in Servers /\ next' = next
        /\ cache' = cache /\ doubt' = doubt
        /\ call' = Call("read_coils_fix", FixServers[next], 0, 8)
    BY <1>1 DEF InitRead, Begin
  <2>2. Starting'
    BY <1>0, <2>1, SameAgrees DEF GInv, Starting
  <2> QED
    BY <2>1, <2>2 DEF GInv, Serving
<1>2. CASE InitDone
  <2>1. /\ gpc = "init_wait" /\ gpc' = "init" /\ mpc = "idle" /\ mpc' = mpc
        /\ cache' = [cache EXCEPT ![next] = res.coils] /\ doubt' = doubt
        /\ next' = IF res.ok THEN next + 1 ELSE next
    BY <1>2 DEF InitDone, vars, master
  <2>2. /\ next \in Servers /\ Starting /\ cache \in [Servers -> SUBSET Nat]
        /\ call = Call("read_coils_fix", FixServers[next], 0, 8)
    BY <2>1 DEF GInv
  <2>3. next \in Nat \ {0}
    BY <2>2 DEF Starting
  <2>4. cache' \in [Servers -> SUBSET Nat]
    BY <2>1, <2>2 DEF TypeOK
  <2>5. \A i \in Servers : i # next => cache'[i] = cache[i]
    BY <2>1, <2>2
  <2>6. \A i \in Servers, c \in Coils : i < next => Agrees(i, c)'
    <3> SUFFICES ASSUME NEW i \in Servers, NEW c \in Coils, i < next PROVE Agrees(i, c)'
      OBVIOUS
    <3>1. Agrees(i, c) /\ i # next
      BY <2>2, <2>3 DEF Starting
    <3> QED
      BY <1>0, <2>1, <2>5, <3>1 DEF Agrees, ServerOf
  <2>7. CASE ~res.ok
    <3>1. Starting'
      BY <2>1, <2>3, <2>6, <2>7 DEF Starting
    <3> QED
      BY <2>1, <2>4, <3>1 DEF GInv, Serving
  <2>8. CASE res.ok
    <3>1. ReadFixIsCurrent /\ Kind[FixServers[next]] = "fix"
      BY <2>1, <2>2, <2>8 DEF SuccessIsRight, Right, QInv, GatewayAssumed
    <3>2. res.coils = {i \in 0 .. 7 : 0 + i \in relays[FixServers[next]]}
      BY <2>2, <3>1 DEF ReadFixIsCurrent, Call
    <3>3. \A c \in Coils : c \in res.coils <=> c \in relays[FixServers[next]]
      BY <3>2 DEF Coils
    <3>4. cache'[next] = res.coils
      BY <2>1, <2>2
    <3>5. \A i \in Servers, c \in Coils : i = next => Agrees(i, c)'
      <4> SUFFICES ASSUME NEW i \in Servers, NEW c \in Coils, i = next
                   PROVE  c \in cache'[i] <=> c \in relays'[FixServers[i]]
        BY <2>1 DEF Agrees, ServerOf
      <4> QED
        BY <1>0, <3>3, <3>4
    <3>6. next' = next + 1
      BY <2>1, <2>8
    <3>7. \A i \in Servers : i < next + 1 => i < next \/ i = next
      BY <2>3 DEF Servers
    <3>8. \A i \in Servers, c \in Coils : i < next + 1 => Agrees(i, c)'
      BY <2>6, <3>5, <3>7, Zenon
    <3>9. Starting'
      BY <2>3, <3>6, <3>8 DEF Starting
    <3> QED
      BY <2>1, <2>4, <3>9 DEF GInv, Serving
  <2> QED
    BY <2>7, <2>8
<1>3. CASE Listen
  <2>1. /\ gpc = "init" /\ next \notin Servers /\ gpc' \in {"accept", "exit1"}
        /\ cache' = cache /\ doubt' = doubt /\ mpc' = mpc
    BY <1>3 DEF Listen, vars, master
  <2>2. Starting /\ mpc = "idle"
    BY <2>1 DEF GInv
  <2>3. \A i \in Servers : i < next
    BY <2>1, <2>2 DEF Starting, Servers
  <2>4. AllAgree'
    BY <1>0, <2>1, <2>2, <2>3, SameAgrees DEF Starting, AllAgree
  <2> QED
    BY <2>1, <2>2, <2>4 DEF GInv, Serving
<1> QED
  BY <1>1, <1>2, <1>3

(* Requests that call nobody, and clients that come and go.                 *)
LEMMA ClientKeeps ==
  ASSUME GInv,
         \/ BenchWrite \/ OneShot \/ OneShotDone
         \/ Accept \/ AcceptFails \/ Gone \/ RecvClosed \/ ClientCloses \/ ClientResets
         \/ \E q \in TcpRequests : RecvCached(q) \/ RecvOther(q)
  PROVE  GInv'
<1>0. relays' = relays
  BY GatewayTouchesNoRelay DEF Gateway, Recv
<1>1. cache' = cache /\ doubt' = doubt
  BY DEF BenchWrite, OneShot, OneShotDone, Accept, AcceptFails, Gone, RecvClosed,
     ClientCloses, ClientResets, RecvCached, RecvOther, allvars, gvars
<1>2. \A i, c : Agrees(i, c)' = Agrees(i, c)
  BY <1>0, <1>1, SameAgrees
<1>3. AllAgree' = AllAgree /\ (next' = next => Starting' = Starting)
  BY <1>2 DEF AllAgree, Starting
<1>4. CASE BenchWrite \/ OneShot \/ OneShotDone
  BY <1>1, <1>4 DEF BenchWrite, OneShot, OneShotDone, GInv, Serving
<1>5. CASE \/ Accept \/ RecvClosed \/ \E q \in TcpRequests : RecvCached(q) \/ RecvOther(q)
  BY <1>1, <1>3, <1>5
  DEF Accept, RecvClosed, RecvCached, RecvOther, Receives, Send, GInv, Serving, vars, master
<1>6. CASE AcceptFails \/ Gone \/ ClientCloses \/ ClientResets
  <2>1. UNCHANGED <<gpc, next, req, cache, doubt, mpc, call>>
    BY <1>6 DEF AcceptFails, Gone, ClientCloses, ClientResets, allvars, gvars, vars, master
  <2>2. WriteUnderWay' = WriteUnderWay /\ Writing' = Writing /\ Serving' = Serving
    BY <1>2, <2>1 DEF WriteUnderWay, Writing, Serving, WriteCall, IsFix, ServerOf
  <2> QED
    BY <1>1, <1>3, <2>1, <2>2 DEF GInv, Func, IsFix
<1> QED
  BY <1>4, <1>5, <1>6

(* A request begins a call: of a write the copy has the coil already.       *)
LEMMA RequestKeeps ==
  ASSUME GatewayAssumed, GInv, NEW q \in TcpRequests,
         RecvReadCoils(q) \/ RecvWriteCoil(q) \/ RecvReadInputs(q)
  PROVE  GInv'
<1>0. relays' = relays
  BY GatewayTouchesNoRelay DEF Recv
<1>1. gpc = "recv" /\ gpc' = "rtu" /\ req' = q /\ doubt' = doubt /\ next' = next
  BY DEF RecvReadCoils, RecvWriteCoil, RecvReadInputs, Receives
<1>2. AllAgree /\ cache \in [Servers -> SUBSET Nat]
  BY <1>1 DEF GInv, Serving
<1>3. CASE RecvReadCoils(q) \/ RecvReadInputs(q)
  <2>1. cache' = cache /\ q.func # WRITE_COIL
    BY <1>3 DEF RecvReadCoils, RecvReadInputs, READ_COILS, READ_INPUTS, WRITE_COIL
  <2>2. AllAgree'
    BY <1>0, <1>1, <1>2, <2>1, SameAgrees DEF AllAgree
  <2>3. call'.op \in {"read_coils", "read_inputs"}
    BY <1>3 DEF RecvReadCoils, RecvReadInputs, Begin, Call
  <2>4. Func(call)' # WRITE_COIL
    BY <2>3 DEF Func, READ_COILS, READ_INPUTS, WRITE_COIL
  <2>5. ~Writing'
    BY <1>1, <2>1 DEF Writing
  <2> QED
    BY <1>1, <1>2, <2>1, <2>2, <2>4, <2>5 DEF GInv, Serving
<1>4. CASE RecvWriteCoil(q)
  <2>1. q.func = WRITE_COIL /\ call' = WriteCall(q)
    BY <1>4 DEF RecvWriteCoil, Begin
  <2>2. CASE ~IsFix(q.addr)
    <3>1. cache' = cache /\ call'.addr = q.addr
      BY <1>4, <2>1, <2>2 DEF RecvWriteCoil, WriteCall, Call
    <3>2. AllAgree'
      BY <1>0, <1>1, <1>2, <3>1, SameAgrees DEF AllAgree
    <3>3. ~Writing' /\ ~IsFix(call.addr)'
      BY <1>1, <2>2, <3>1 DEF Writing, IsFix
    <3> QED
      BY <1>1, <1>2, <3>1, <3>2, <3>3 DEF GInv, Serving
  <2>3. CASE IsFix(q.addr)
    <3> DEFINE s == ServerOf(q.addr)
    <3>1. s \in Servers
      BY <2>3, FirstServer
    <3>2. cache' = [cache EXCEPT ![s] = IF q.data = ON THEN (@ \cup {q.reg}) \cap 0 .. 15
                                                     ELSE @ \ {q.reg}]
      BY <1>4, <2>3 DEF RecvWriteCoil
    <3> HIDE DEF s
    <3>3. q.reg \in Nat
      BY RequestAssumption DEF Request
    <3>4. /\ \A i \in Servers : i # s => cache'[i] = cache[i]
          /\ cache'[s] = IF q.data = ON THEN (cache[s] \cup {q.reg}) \cap 0 .. 15
                                        ELSE cache[s] \ {q.reg}
      BY <1>2, <3>1, <3>2
    <3>5. cache' \in [Servers -> SUBSET Nat]
      <4>1. (cache[s] \cup {q.reg}) \cap 0 .. 15 \in SUBSET Nat
            /\ cache[s] \ {q.reg} \in SUBSET Nat
        BY <1>2, <3>1
      <4> QED
        BY <1>2, <3>2, <4>1
    <3>6. \A c \in Coils : c # q.reg => (c \in cache'[s] <=> c \in cache[s])
      BY <3>4 DEF Coils
    <3>7. \A i \in Servers, c \in Coils :
            ~(i = s /\ c = q.reg) => (c \in cache'[i] <=> c \in cache[i])
      BY <3>4, <3>6, Zenon
    <3>8. \A i \in Servers, c \in Coils : ~(i = s /\ c = q.reg) => Agrees(i, c)'
      BY <1>0, <1>1, <1>2, <3>7 DEF AllAgree, Agrees, ServerOf
    <3>9. q.reg \in Coils => (q.reg \in cache'[s] <=> q.data = ON)
      BY <3>4 DEF Coils
    <3>10. WriteUnderWay'
      BY <1>1, <2>1, <3>8, <3>9 DEF WriteUnderWay, WriteCall, IsFix, ServerOf, s
    <3>11. Writing'
      BY <1>1, <2>1, <2>3 DEF Writing, IsFix
    <3> QED
      BY <1>1, <3>5, <3>10, <3>11 DEF GInv, Serving
  <2> QED
    BY <2>2, <2>3
<1> QED
  BY <1>3, <1>4

(* The call returned: a write that was answered is done, another in doubt.  *)
LEMMA ReplyKeeps ==
  ASSUME GatewayAssumed, TypeOK, QInv, SuccessIsRight, GInv, RtuDone
  PROVE  GInv'
<1>0. relays' = relays
  BY GatewayTouchesNoRelay DEF Gateway
<1>1. /\ gpc = "rtu" /\ mpc = "idle" /\ mpc' = mpc /\ gpc' \in {"recv", "killed"}
      /\ next' = next /\ req' = req /\ cache' = cache /\ call' = call
  BY DEF RtuDone, Send, vars, master
<1>2. cache \in [Servers -> SUBSET Nat]
  BY DEF GInv
<1>3. CASE ~Writing
  <2>1. doubt' = doubt
    BY <1>3 DEF RtuDone, Writing
  <2>2. AllAgree'
    BY <1>0, <1>1, <1>3, <2>1, SameAgrees DEF GInv, AllAgree
  <2> QED
    BY <1>1, <1>2, <2>2 DEF GInv
<1>4. CASE Writing
  <2> DEFINE s == ServerOf(req.addr)
             w == <<s, req.reg>>
  <2>1. doubt' = IF res.ok THEN doubt \ {w} ELSE doubt \cup {w}
    BY <1>4 DEF RtuDone, Writing
  <2>2. WriteUnderWay
    BY <1>1, <1>4 DEF GInv
  <2>3. s \in Servers /\ FixServers[s] = req.addr
    BY <1>4, FirstServer DEF Writing
  <2> HIDE DEF s
  <2>4. ASSUME NEW i \in Servers, NEW c \in Coils, ~(i = s /\ c = req.reg)
        PROVE  Agrees(i, c)'
    <3>1. Agrees(i, c)
      BY <2>2, <2>4 DEF WriteUnderWay, s
    <3>2. <<i, c>> \in doubt' <=> <<i, c>> \in doubt
      BY <2>1, <2>4
    <3> QED
      BY <1>0, <1>1, <3>1, <3>2 DEF Agrees, ServerOf
  <2>5. ASSUME NEW i \in Servers, NEW c \in Coils, i = s, c = req.reg, res.ok
        PROVE  Agrees(i, c)'
    <3>1. /\ call.op = "write_coil" /\ call.addr = req.addr /\ call.reg = req.reg + 1
          /\ call.arg = IF req.data = ON THEN 256 ELSE req.data
      BY <1>4, <2>2 DEF WriteUnderWay, WriteCall, Writing, Call
    <3>2. Kind[req.addr] = "fix" /\ WriteIsDone
      BY <1>1, <2>3, <2>5 DEF GatewayAssumed, SuccessIsRight, Right, QInv
    <3>3. Target(call.addr, call.reg) = req.reg /\ req.reg \in RelayIds(call.addr)
      BY <2>5, <3>1, <3>2 DEF Target, RelayIds, Coils
    <3>4. req.reg \in relays[req.addr] <=> call.arg # 0
      BY <3>1, <3>2, <3>3 DEF WriteIsDone
    <3>5. call.arg # 0 <=> req.data = ON
      BY <1>4, <2>2, <3>1 DEF GatewayAssumed, WriteUnderWay, Writing, ON
    <3>6. req.reg \in cache[s] <=> req.data = ON
      BY <2>2, <2>5 DEF WriteUnderWay, s
    <3>7. req.reg \in cache'[s] <=> req.reg \in relays'[FixServers[s]]
      BY <1>0, <1>1, <2>3, <3>4, <3>5, <3>6
    <3> QED
      BY <1>1, <2>5, <3>7 DEF Agrees
  <2>6. ~res.ok => <<s, req.reg>> \in doubt'
    BY <2>1
  <2>7. ASSUME NEW i \in Servers, NEW c \in Coils PROVE Agrees(i, c)'
    <3>1. CASE ~(i = s /\ c = req.reg)
      BY <2>4, <3>1
    <3>2. CASE i = s /\ c = req.reg /\ res.ok
      BY <2>5, <3>2
    <3>3. CASE i = s /\ c = req.reg /\ ~res.ok
      BY <2>6, <3>3 DEF Agrees
    <3> QED
      BY <3>1, <3>2, <3>3
  <2>8. AllAgree'
    BY <2>7 DEF AllAgree
  <2> QED
    BY <1>1, <1>2, <2>8 DEF GInv
<1> QED
  BY <1>3, <1>4

(* The gateway uses the master as it is meant to be used, so that the       *)
(* promise of RelayClient is kept to it.                                    *)
THEOREM PromiseIsKept == GatewayAssumed /\ ReadsAsMeant => (GSpec => ImplementsClient)
<1> SUFFICES ASSUME GatewayAssumed, ReadsAsMeant PROVE GSpec => ImplementsClient
  OBVIOUS
<1>1. GSpec => Spec
  BY StepIsStep, PTL DEF GSpec, GInit, Spec
<1>2. Spec => ImplementsClient
  BY MasterKeepsPromise DEF GatewayAssumed
<1> QED
  BY <1>1, <1>2, PTL

(* The invariants of the master and of the gateway, together.               *)
LEMMA GatewayIsRight ==
  GatewayAssumed => (GSpec => [](TypeOK /\ QInv /\ SuccessIsRight /\ GInv))
<1> SUFFICES ASSUME GatewayAssumed
             PROVE  GSpec => [](TypeOK /\ QInv /\ SuccessIsRight /\ GInv)
  OBVIOUS
<1>1. GSpec => Spec
  BY StepIsStep, PTL DEF GSpec, GInit, Spec
<1>2. Spec => [](TypeOK /\ QInv /\ SuccessIsRight)
  BY TypeInvariant, LineIsQuiet, SuccessRight, PTL DEF GatewayAssumed
<1>3. GInit => GInv
  <2> SUFFICES ASSUME GInit PROVE GInv
    OBVIOUS
  <2>1. /\ mpc = "idle" /\ gpc \in Starts /\ next = 1
        /\ cache = [i \in Servers |-> {}]
    BY DEF GInit, Init, serial_open
  <2>2. gpc \in {"bench", "init", "oneshot"}
    BY <2>1, StartsAssumption
  <2>3. \A i \in Servers : ~(i < 1)
    BY DEF Servers
  <2>4. Starting
    BY <2>1, <2>3 DEF Starting
  <2> QED
    BY <2>1, <2>2, <2>4 DEF GInv, Serving
<1>4. TypeOK /\ QInv /\ SuccessIsRight /\ GInv /\ [GNext]_allvars => GInv'
  <2> SUFFICES ASSUME TypeOK, QInv, SuccessIsRight, GInv, [GNext]_allvars
               PROVE  GInv'
    OBVIOUS
  <2>1. CASE InitRead \/ InitDone \/ Listen
    BY <2>1, InitKeeps
  <2>2. CASE RtuDone
    BY <2>2, ReplyKeeps
  <2>3. CASE \E q \in TcpRequests : RecvReadCoils(q) \/ RecvWriteCoil(q) \/ RecvReadInputs(q)
    BY <2>3, RequestKeeps
  <2>4. CASE \/ BenchWrite \/ OneShot \/ OneShotDone
             \/ Accept \/ AcceptFails \/ Gone \/ RecvClosed \/ ClientCloses \/ ClientResets
             \/ \E q \in TcpRequests : RecvCached(q) \/ RecvOther(q)
    BY <2>4, ClientKeeps
  <2>5. CASE (Master \/ Line) /\ UNCHANGED gvars
    BY <2>5, LineKeeps
  <2>6. CASE UNCHANGED allvars
    BY <2>6 DEF allvars, gvars, vars, master, GInv, Starting, AllAgree, Agrees, Writing,
       WriteUnderWay, WriteCall, IsFix, ServerOf, Serving, Func
  <2> QED
    BY <2>1, <2>2, <2>3, <2>4, <2>5, <2>6 DEF GNext, Gateway, Recv
<1> QED
  BY <1>1, <1>2, <1>3, <1>4, PTL DEF GSpec

(* The copy of the coils agrees with the relays of the boards, whatever is  *)
(* lost or damaged on the line and however many boards, clients and         *)
(* requests there are, but for coils whose last write was answered with an  *)
(* error.                                                                   *)
THEOREM CacheStaysBoard == GatewayAssumed => (GSpec => []CacheIsBoard)
<1> SUFFICES ASSUME GatewayAssumed PROVE GSpec => []CacheIsBoard
  OBVIOUS
<1>1. GSpec => []GInv
  BY GatewayIsRight, PTL
<1>2. GInv => CacheIsBoard
  BY DEF GInv, CacheIsBoard, AllAgree, Agrees, Coils
<1> QED
  BY <1>1, <1>2, PTL

------------------------------------------------------------------------------
(* For the replies also: no relay is on that the board does not have,       *)
(* and every bought board that a client reads is one that -a names.         *)
RelaysAssumed ==
  /\ \A r \in InitRelays, a \in Addr : r[a] \subseteq RelayIds(a)
  /\ ReadsAsMeant

RelaysExist == \A a \in Addr : relays[a] \subseteq RelayIds(a)

(* A read under way is the one the client asked for.                        *)
ReadUnderWay ==
  gpc = "rtu" /\ req.func = READ_COILS =>
    /\ req \in TcpRequests /\ ~IsFix(req.addr)
    /\ call = Call("read_coils", req.addr, req.reg, req.data)

NoReplyYet == gpc \in {"init", "init_wait"} => ~rsp.ok

ReplyInv == RelaysExist /\ ReadUnderWay /\ ReplyIsRelays /\ NoReplyYet

(* A board of n relays is asked for n coils: 8 or 16.                       *)
LEMMA WholeBoard ==
  ASSUME NEW a, NEW n \in Nat, RelayIds(a) = 0 .. n - 1
  PROVE  n = IF Kind[a] = "relay16" THEN 16 ELSE 8
<1>1. CASE Kind[a] = "relay16"
  <2>1. 15 \in 0 .. n - 1 /\ 16 \notin 0 .. n - 1
    BY <1>1 DEF RelayIds
  <2> QED
    BY <1>1, <2>1
<1>2. CASE Kind[a] # "relay16"
  <2>1. 7 \in 0 .. n - 1 /\ 8 \notin 0 .. n - 1
    BY <1>2 DEF RelayIds
  <2> QED
    BY <1>2, <2>1
<1> QED
  BY <1>1, <1>2

(* The swap of the bytes of a state word undoes itself.                     *)
LEMMA SwapTwice ==
  ASSUME NEW S \in SUBSET (0 .. 15), NEW c \in 0 .. 15
  PROVE  c \in HighFirst(HighFirst(S) \cap 0 .. 15) <=> c \in S
<1>1. \A b \in 0 .. 15 : (b + 8) % 16 \in 0 .. 15 /\ (((b + 8) % 16) + 8) % 16 = b
  OBVIOUS
<1>2. ASSUME c \in S PROVE c \in HighFirst(HighFirst(S) \cap 0 .. 15)
  <2>1. (c + 8) % 16 \in HighFirst(S) \cap 0 .. 15
    BY <1>1, <1>2, Zenon DEF HighFirst
  <2> QED
    BY <1>1, <2>1, Zenon DEF HighFirst
<1>3. ASSUME c \in HighFirst(HighFirst(S) \cap 0 .. 15) PROVE c \in S
  <2>1. PICK b \in HighFirst(S) \cap 0 .. 15 : c = (b + 8) % 16
    BY <1>3, Zenon DEF HighFirst
  <2>2. PICK d \in S : b = (d + 8) % 16
    BY <2>1, Zenon DEF HighFirst
  <2>3. d \in 0 .. 15
    BY <2>2
  <2>4. c = d
    BY <1>1, <2>1, <2>2, <2>3, Zenon
  <2> QED
    BY <2>2, <2>4
<1> QED
  BY <1>2, <1>3

(* What the master read of a whole board arrives as the client expects it.  *)
LEMMA PayloadIsRelays ==
  ASSUME NEW a \in Addr, NEW n \in Nat, RelayIds(a) = 0 .. n - 1,
         NEW on \in SUBSET RelayIds(a),
         NEW c \in RelayIds(a), NEW call0, call0.op = "read_coils", call0.arg = n
  PROVE  c \in PayloadOf(StateOf(call0, on), n) <=> c \in on
<1>1. CASE Kind[a] = "relay16"
  <2>1. n = 16 /\ RelayIds(a) = 0 .. 15 /\ CountOf(call0) = 16
    BY <1>1, WholeBoard DEF RelayIds, CountOf
  <2>2. StateOf(call0, on) = HighFirst(on)
    BY <2>1 DEF StateOf
  <2>3. PayloadOf(HighFirst(on), n) = HighFirst(HighFirst(on) \cap 0 .. 15)
    BY <2>1 DEF PayloadOf
  <2> QED
    BY <2>1, <2>2, <2>3, SwapTwice
<1>2. CASE Kind[a] # "relay16"
  <2>1. n = 8 /\ RelayIds(a) = 0 .. 7 /\ CountOf(call0) = 8
    BY <1>2, WholeBoard DEF RelayIds, CountOf
  <2>2. StateOf(call0, on) = on
    BY <2>1 DEF StateOf
  <2>3. PayloadOf(on, n) = on \cap 0 .. 7
    BY <2>1 DEF PayloadOf
  <2> QED
    BY <2>1, <2>2, <2>3
<1> QED
  BY <1>1, <1>2

(* A step that leaves the relays and the reply, and starts no service.      *)
LEMMA SameReply ==
  ASSUME ReplyInv, relays' = relays, req' = req, rsp' = rsp, doubt' = doubt,
         gpc' # "rtu" \/ (gpc = "rtu" /\ call' = call),
         Serving' => Serving, gpc' \in {"init", "init_wait"} => gpc \in {"init", "init_wait"}
  PROVE  ReplyInv'
<1>1. RelaysExist' /\ NoReplyYet'
  BY DEF ReplyInv, RelaysExist, NoReplyYet
<1>2. ReadUnderWay'
  BY DEF ReplyInv, ReadUnderWay, IsFix
<1>3. ReplyIsRelays'
  BY DEF ReplyInv, ReplyIsRelays, IsFix, ServerOf
<1> QED
  BY <1>1, <1>2, <1>3 DEF ReplyInv

(* A step of the line, during a call.                                       *)
LEMMA ReplyWaits ==
  ASSUME TypeOK, QInv, GInv, ReplyInv, Master \/ Line, UNCHANGED gvars
  PROVE  ReplyInv'
<1>1. /\ gpc' = gpc /\ req' = req /\ rsp' = rsp /\ doubt' = doubt
  BY DEF gvars
<1>2. mpc # "idle" /\ call' = call
  BY LineStep
<1>3. ~Serving'
  BY <1>1, <1>2 DEF GInv, Serving
<1>4. ReadUnderWay' /\ NoReplyYet'
  BY <1>1, <1>2 DEF ReplyInv, ReadUnderWay, NoReplyYet, IsFix
<1>5. ReplyIsRelays'
  BY <1>3 DEF ReplyIsRelays
<1>6. CASE relays' = relays
  BY <1>4, <1>5, <1>6 DEF ReplyInv, RelaysExist
<1>7. CASE /\ call.addr \in Addr
           /\ relays' = [relays EXCEPT ![call.addr] =
                           RelaysAfter(call.addr, @, RequestOf(call, retry))]
  <2>1. \A on, q : on \subseteq RelayIds(call.addr)
                  => RelaysAfter(call.addr, on, q) \subseteq RelayIds(call.addr)
    BY Zenon DEF RelaysAfter, Switched
  <2>2. RelaysAfter(call.addr, relays[call.addr], RequestOf(call, retry))
          \subseteq RelayIds(call.addr)
    BY <1>7, <2>1 DEF ReplyInv, RelaysExist
  <2>3. RelaysExist'
    BY <1>7, <2>2 DEF ReplyInv, RelaysExist, TypeOK, RelayIds
  <2> QED
    BY <1>4, <1>5, <2>3 DEF ReplyInv
<1> QED
  BY <1>6, <1>7, LineStep

(* The reply to a read that the master has done.                            *)
LEMMA ReplyIsRead ==
  ASSUME GatewayAssumed, RelaysAssumed, TypeOK, QInv, SuccessIsRight, ReplyInv, RtuDone
  PROVE  ReplyInv'
<1>1. /\ gpc = "rtu" /\ mpc = "idle" /\ gpc' \in {"recv", "killed"} /\ req' = req
      /\ relays' = relays
      /\ rsp' = [ok |-> res.ok,
                 coils |-> IF res.ok /\ req.func = READ_COILS
                           THEN PayloadOf(res.coils, req.data) ELSE {}]
  BY DEF RtuDone, Send, vars
<1>2. ASSUME res.ok, req.func = READ_COILS, RelayIds(req.addr) = 0 .. req.data - 1,
             NEW c \in RelayIds(req.addr)
      PROVE  c \in rsp'.coils <=> c \in relays'[req.addr]
  <2>1. req \in TcpRequests /\ ~IsFix(req.addr) /\ call = Call("read_coils", req.addr, req.reg, req.data)
    BY <1>1, <1>2 DEF ReplyInv, ReadUnderWay
  <2>2. /\ call.op = "read_coils" /\ call.addr = req.addr /\ call.arg = req.data
    BY <2>1 DEF Call
  <2>3. call.addr \in Addr /\ ReadIsCurrent
    BY <1>1, <1>2 DEF SuccessIsRight, Right, QInv
  <2>4. Kind[call.addr] # "fix"
    BY <1>2, <2>1, <2>2, <2>3 DEF GatewayAssumed, RelaysAssumed, ReadsAsMeant
  <2>5. req.data \in Nat
    BY <2>2 DEF TypeOK, CallType
  <2>6. res.coils = StateOf(call, relays[req.addr])
    BY <2>2, <2>3, <2>4 DEF ReadIsCurrent
  <2>7. rsp'.coils = PayloadOf(StateOf(call, relays[req.addr]), req.data)
    BY <1>1, <1>2, <2>6
  <2>8. relays[req.addr] \in SUBSET RelayIds(req.addr) /\ req.addr \in Addr
    BY <2>2, <2>3 DEF ReplyInv, RelaysExist
  <2>9. c \in PayloadOf(StateOf(call, relays[req.addr]), req.data) <=> c \in relays[req.addr]
    BY <1>2, <2>2, <2>5, <2>8, PayloadIsRelays
  <2> QED
    BY <1>1, <2>7, <2>9
<1>3. ReplyIsRelays'
  <2> SUFFICES ASSUME rsp'.ok, req'.func = READ_COILS,
                      RelayIds(req'.addr) = 0 .. req'.data - 1, NEW c \in RelayIds(req'.addr)
               PROVE  c \in rsp'.coils <=> c \in relays'[req'.addr]
    BY DEF ReplyIsRelays
  <2>1. rsp'.ok = res.ok
    BY <1>1
  <2> QED
    BY <1>1, <1>2, <2>1
<1> QED
  BY <1>1, <1>3 DEF ReplyInv, RelaysExist, ReadUnderWay, NoReplyYet

(* The reply from the copy.                                                 *)
LEMMA ReplyIsCopy ==
  ASSUME GatewayAssumed, GInv, ReplyInv, NEW q \in TcpRequests, RecvCached(q)
  PROVE  ReplyInv'
<1>1. /\ Serving /\ gpc' \in {"recv", "killed"} /\ req' = q /\ IsFix(q.addr)
      /\ relays' = relays /\ doubt' = doubt
      /\ rsp'.coils = PayloadOf(cache[ServerOf(q.addr)], q.data)
  BY DEF RecvCached, Receives, Send, vars, Serving
<1> DEFINE s == ServerOf(q.addr)
<1>2. s \in Servers /\ FixServers[s] = q.addr
  BY <1>1, FirstServer
<1>3. Kind[q.addr] = "fix" /\ RelayIds(q.addr) = Coils
  BY <1>2 DEF GatewayAssumed, RelayIds, Coils
<1>4. ReplyIsRelays'
  <2> SUFFICES ASSUME RelayIds(q.addr) = 0 .. q.data - 1, NEW c \in RelayIds(q.addr)
               PROVE  \/ c \in rsp'.coils <=> c \in relays[q.addr]
                      \/ IsFix(q.addr) /\ <<s, c>> \in doubt
    BY <1>1 DEF ReplyIsRelays, IsFix, ServerOf
  <2>1. q.data \in Nat
    BY RequestAssumption DEF Request
  <2>2. q.data = 8
    BY <1>3, <2>1, WholeBoard
  <2>3. c \in rsp'.coils <=> c \in cache[s]
    BY <1>1, <1>3, <2>2 DEF PayloadOf, Coils
  <2>4. Agrees(s, c)
    BY <1>1, <1>2, <1>3 DEF GInv, AllAgree
  <2> QED
    BY <1>1, <1>2, <2>3, <2>4 DEF Agrees
<1> QED
  BY <1>1, <1>4 DEF ReplyInv, RelaysExist, ReadUnderWay, NoReplyYet

LEMMA ReplyStep ==
  ASSUME GatewayAssumed, RelaysAssumed, TypeOK, QInv, SuccessIsRight, GInv, ReplyInv,
         [GNext]_allvars
  PROVE  ReplyInv'
<1>1. CASE (Master \/ Line) /\ UNCHANGED gvars
  BY <1>1, ReplyWaits
<1>2. CASE RtuDone
  BY <1>2, ReplyIsRead
<1>3. ASSUME NEW q \in TcpRequests, Recv(q) PROVE ReplyInv'
  <2>1. CASE RecvCached(q)
    BY <2>1, ReplyIsCopy
  <2>2. CASE RecvOther(q)
    BY <2>2 DEF RecvOther, Receives, Send, vars, ReplyInv, RelaysExist, ReadUnderWay,
       ReplyIsRelays, NoReplyYet
  <2>3. CASE RecvReadCoils(q) \/ RecvWriteCoil(q) \/ RecvReadInputs(q)
    <3>1. gpc' = "rtu" /\ relays' = relays /\ req' = q
      BY <2>3 DEF RecvReadCoils, RecvWriteCoil, RecvReadInputs, Begin, Receives
    <3>2. q.func = READ_COILS => ~IsFix(q.addr) /\ call' = Call("read_coils", q.addr, q.reg, q.data)
      BY <2>3 DEF RecvReadCoils, RecvWriteCoil, RecvReadInputs, Begin, READ_COILS,
         WRITE_COIL, READ_INPUTS
    <3> QED
      BY <3>1, <3>2 DEF ReplyInv, RelaysExist, ReadUnderWay, NoReplyYet, ReplyIsRelays,
         Serving, IsFix
  <2> QED
    BY <1>3, <2>1, <2>2, <2>3 DEF Recv
<1>4. CASE Listen
  BY <1>4 DEF Listen, vars, ReplyInv, RelaysExist, ReadUnderWay, NoReplyYet, ReplyIsRelays
<1>5. CASE BenchWrite \/ OneShot \/ InitRead
  BY <1>5, SameReply DEF BenchWrite, OneShot, InitRead, Begin, Serving
<1>6. CASE \/ OneShotDone \/ InitDone \/ Accept \/ AcceptFails \/ Gone
           \/ RecvClosed \/ ClientCloses \/ ClientResets \/ UNCHANGED allvars
  BY <1>6, SameReply DEF OneShotDone, InitDone, Accept, AcceptFails, Gone, RecvClosed,
     ClientCloses, ClientResets, allvars, gvars, vars, master, Serving
<1> QED
  BY <1>1, <1>2, <1>3, <1>4, <1>5, <1>6 DEF GNext, Gateway

(* A reply to a read of a whole board that does not say error tells how the *)
(* relays are, whatever is lost or damaged on the line and however many     *)
(* boards, clients and requests there are.                                  *)
THEOREM RepliesAreRelays == GatewayAssumed /\ RelaysAssumed => (GSpec => []ReplyIsRelays)
<1> SUFFICES ASSUME GatewayAssumed, RelaysAssumed PROVE GSpec => []ReplyIsRelays
  OBVIOUS
<1>1. GSpec => [](TypeOK /\ QInv /\ SuccessIsRight /\ GInv)
  BY GatewayIsRight
<1>2. GInit => ReplyInv
  BY StartsAssumption DEF GInit, Init, serial_open, RelaysAssumed, ReplyInv, RelaysExist, ReadUnderWay,
     NoReplyYet, ReplyIsRelays
<1>3. TypeOK /\ QInv /\ SuccessIsRight /\ GInv /\ ReplyInv /\ [GNext]_allvars => ReplyInv'
  BY ReplyStep
<1>4. ReplyInv => ReplyIsRelays
  BY DEF ReplyInv
<1> QED
  BY <1>1, <1>2, <1>3, <1>4, PTL DEF GSpec
=============================================================================
