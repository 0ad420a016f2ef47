----------------------------- MODULE ModbusRtu -----------------------------
(***************************************************************************)
(* The Modbus RTU master of modbusd (modbus.c over serial.c) and the half  *)
(* duplex line it shares with the relay boards.                            *)
(*                                                                         *)
(* The master runs one blocking call at a time: it writes a request, waits *)
(* 50 ms, reads exactly as many bytes as the answer should have, checks    *)
(* the CRC, and tries again up to three times.  Nothing else of the answer *)
(* is looked at, and the input buffer of the kernel is never flushed, so   *)
(* what a late or a longer answer leaves behind is read by a later         *)
(* attempt.  The line is a stream of bytes: byte i of frame f is <<f, i>>, *)
(* and a buffer has a good CRC iff it is the bytes of one whole frame.     *)
(*                                                                         *)
(* The boards are the firmware of modbus-relay8 and modbus-relay16 and the *)
(* bought 8 relay board ("fix"), known only from how main.c talks to it.   *)
(***************************************************************************)
EXTENDS Naturals, Sequences

CONSTANTS
  Addr,        (* Addresses of the boards on the line.                     *)
  Kind,        (* Kind[a] says which firmware answers at address a.        *)
  InitRelays,  (* What the relays may be when the master starts.           *)
  Calls,       (* The calls the user of modbus.c makes.                    *)
  Faults,      (* What may go wrong on the line, a subset of AllFaults.    *)
  Chunks,      (* How many bytes may come, or get lost, at a time.         *)
  RxSize,      (* Bytes the kernel keeps for the reader; the rest is lost. *)
  MaxUnderWay  (* Bound: requests and bytes under way when a call begins.  *)

AllFaults == {"loss", "garble", "late", "ioerror", "hangup"}

Kinds == {"relay8", "relay16", "fix"}
Ops   == {"read_coils", "read_coils_fix", "write_coil", "read_inputs",
          "write_register"}

(* arg is the coil count of a read, the state (0 is off) of a write. *)
CallType == [op : Ops, addr : Nat, reg : Nat, arg : Nat]

ASSUME AddrAssumption   == Addr \subseteq Nat
ASSUME KindAssumption   == Kind \in [Addr -> Kinds]
ASSUME InitAssumption   == InitRelays \subseteq [Addr -> SUBSET Nat]
(* Counts of three bytes and more are left out: no board has that many.     *)
ASSUME CallsAssumption  == /\ Calls \subseteq CallType
                           /\ \A c \in Calls : c.op \in {"read_coils", "read_inputs"}
                                               => c.arg < 24
                           /\ \A c \in Calls : c.op = "read_coils_fix" => c.arg > 0
ASSUME FaultsAssumption == Faults \subseteq AllFaults
ASSUME ChunksAssumption == Chunks \subseteq Nat \ {0}
ASSUME BoundAssumption  == RxSize \in Nat /\ MaxUnderWay \in Nat

CFG_REQUST_RETRY_CNT == 3

READ_COILS      == 1
READ_INPUTS     == 2
WRITE_COIL      == 5
WRITE_REGISTER  == 6

VARIABLES
  mpc,     (* Where the master is: "idle", "send" or "read".               *)
  call,    (* The call in progress, or the last one.                       *)
  retry,   (* Attempts already made; for read_coils_fix the coil index.    *)
  got,     (* Bytes consumed by the serial_read in progress.               *)
  split,   (* That serial_read needed more than one read().                *)
  acc,     (* Coils collected by read_coils_fix so far.                    *)
  res,     (* Result of the last call: ok and the coils it returned.       *)
  ans,     (* The frame the last successful attempt accepted.              *)
  rx,      (* Bytes in the input buffer of the kernel.                     *)
  tx,      (* Bytes of answers still travelling to the master.             *)
  pend,    (* Requests written that no board has taken yet.                *)
  hung,    (* The serial device is gone (an unplugged USB adapter).        *)
  relays,  (* relays[a]: the relays of board a that are on.                *)
  stale    (* History: an attempt of this call began on a line not quiet.  *)

master == <<mpc, call, retry, got, split, acc, res, ans>>
line   == <<rx, tx, pend, hung>>
vars   == <<master, line, relays, stale>>

-----------------------------------------------------------------------------
(* Frames and bytes *)

Request == [addr : Nat, func : Nat, reg : Nat, data : Nat]

(* An answer: len counts its bytes with the CRC, coils is the payload.      *)
(* An echo carries the register and the state of the request it answers.    *)
Frame == [addr : Nat, func : Nat, reg : Nat, data : Nat,
          coils : SUBSET Nat, len : Nat \ {0}, good : BOOLEAN]

Bytes(f) == [i \in 1..f.len |-> <<f, i>>]

(* crc16 over the buffer: the bytes of one undamaged frame, in order.       *)
CrcGood(s) == s # <<>> /\ s[1][1].good /\ s = Bytes(s[1][1])

Quiet == rx = <<>> /\ tx = <<>> /\ pend = <<>>

-----------------------------------------------------------------------------
(* What the master sends and how much it expects back *)

Func(c) == CASE c.op = "read_coils"     -> READ_COILS
             [] c.op = "read_coils_fix" -> READ_COILS
             [] c.op = "read_inputs"    -> READ_INPUTS
             [] c.op = "write_coil"     -> WRITE_COIL
             [] OTHER                   -> WRITE_REGISTER

(* read_inputs sends the count it was given in its first attempt, but turns *)
(* 0 into 8 before it reads, so that the attempts that follow send 8.       *)
RequestOf_first(c, n) ==
  [addr |-> c.addr, func |-> Func(c), reg |-> c.reg,
   data |-> IF c.op = "read_coils_fix" THEN 4 ELSE c.arg]
RequestOf(c, n) ==
  [addr |-> c.addr,
   func |-> Func(c),
   reg  |-> IF c.op = "read_coils_fix" THEN c.reg + n ELSE c.reg,
   data |-> CASE c.op = "read_coils_fix" -> 4
              [] c.op = "read_inputs" /\ c.arg = 0 /\ n > 0 -> 8
              [] OTHER -> c.arg]

CountOf_asked(c) == c.arg
CountOf(c) == IF c.op = "read_inputs" /\ c.arg = 0 THEN 8 ELSE c.arg

(* Bytes serial_read must deliver, the CRC included. *)
Expected(c) == CASE c.op \in {"read_coils", "read_inputs"} ->
                      3 + (CountOf(c) \div 8) + 2
                 [] c.op = "read_coils_fix" -> 4 + 2
                 [] OTHER -> 6 + 2

(* The state word made of an answer's payload, both as sets of bits: bit j  *)
(* of payload byte k is 8 * k + j.  Of two bytes the first is the high one. *)
HighFirst(bits) == {(b + 8) % 16 : b \in bits}

StateOf(c, bits) ==
  IF c.op \in {"read_coils", "read_inputs"} /\ CountOf(c) \div 8 = 2
  THEN HighFirst(bits) ELSE bits

-----------------------------------------------------------------------------
(* What the boards do with a request *)

RelayIds(a) == IF Kind[a] = "relay16" THEN 0..15 ELSE 0..7

(* Registers whose write the board at a acknowledges. *)
Accepts(a, reg) == CASE Kind[a] = "relay8"  -> reg <= 8
                     [] Kind[a] = "relay16" -> reg <= 15
                     [] OTHER               -> reg \in 1..8

(* The relay that a write to register reg switches; the bought board counts *)
(* its coils from 1 in writes.                                              *)
Target(a, reg) == IF Kind[a] = "fix" THEN reg - 1 ELSE reg

Switched(a, on, reg, data) ==
  IF data = 0 THEN on \ {Target(a, reg)}
              ELSE (on \cup {Target(a, reg)}) \cap RelayIds(a)

Answers(a, q) == \/ q.func = READ_COILS
                 \/ q.func = READ_INPUTS /\ Kind[a] # "relay16"
                 \/ q.func = WRITE_COIL /\ Accepts(a, q.reg)

RelaysAfter(a, on, q) == IF q.func = WRITE_COIL /\ Accepts(a, q.reg)
                         THEN Switched(a, on, q.reg, q.data) ELSE on

(* The payload: the byte of a bought board is of the one coil asked for, a  *)
(* relay16 sends the byte of its relays 0..7 first.  The inputs of a board  *)
(* are left out.                                                            *)
Payload(a, on, q) == IF q.func # READ_COILS THEN {}
                     ELSE IF Kind[a] = "fix" THEN on \cap {q.reg} ELSE on

Answer(a, on, q) ==
  [addr  |-> a, func |-> q.func, good |-> TRUE,
   reg   |-> IF q.func = WRITE_COIL THEN q.reg ELSE 0,
   data  |-> IF q.func = WRITE_COIL THEN q.data ELSE 0,
   coils |-> Payload(a, on, q),
   len   |-> CASE q.func = WRITE_COIL -> 8
               [] q.func = READ_COILS /\ Kind[a] = "relay16" -> 7
               [] OTHER -> 6]

(* What the buffer holds before the first answer, and what damage leaves of *)
(* an answer: anything, but not a good CRC.                                 *)
Noise(n) == [addr |-> 0, func |-> 0, reg |-> 0, data |-> 0, coils |-> {},
             len |-> n, good |-> FALSE]

NoFrame == Noise(1)

Damaged(f) == Noise(f.len)

(* Opened raw, and flushed: nothing that came before is read.               *)
serial_open == rx = <<>> /\ hung = FALSE

Init ==
  /\ mpc = "idle"
  /\ call = [op |-> "read_coils", addr |-> 0, reg |-> 0, arg |-> 0]
  /\ retry = 0
  /\ got = <<>>
  /\ split = FALSE
  /\ acc = {}
  /\ res = [ok |-> FALSE, coils |-> {}]
  /\ ans = NoFrame
  /\ serial_open /\ tx = <<>> /\ pend = <<>>
  /\ relays \in InitRelays
  /\ stale = FALSE

(* Entry of one of the modbus_rtu_ functions. *)
Begin(c) ==
  /\ mpc = "idle"
  /\ Len(tx) + Len(pend) <= MaxUnderWay
  /\ mpc' = "send"
  /\ call' = c
  /\ retry' = 0
  /\ acc' = {}
  /\ stale' = FALSE
  /\ UNCHANGED <<got, split, res, ans, line, relays>>

Return(ok, coils) ==
  /\ mpc' = "idle"
  /\ res' = [ok |-> ok, coils |-> coils]
  /\ UNCHANGED <<call, retry, acc>>

(* write() accepts the request; the wait of 50 ms follows. *)
SendRequest ==
  /\ mpc = "send"
  /\ ~hung
  /\ mpc' = "read"
  /\ pend' = Append(pend, RequestOf(call, retry))
  /\ got' = <<>>
  /\ split' = FALSE
  /\ stale' = (stale \/ ~Quiet)
  /\ UNCHANGED <<call, retry, acc, res, ans, rx, tx, hung, relays>>

(* write() fails: every call gives up at once. *)
SendFails ==
  /\ mpc = "send"
  /\ hung \/ "ioerror" \in Faults
  /\ Return(FALSE, acc)
  /\ UNCHANGED <<got, split, ans, line, relays, stale>>

AttemptFails_zero ==
  IF call.op # "read_coils_fix" /\ retry + 1 < CFG_REQUST_RETRY_CNT
  THEN /\ mpc' = "send"
       /\ retry' = retry + 1
       /\ UNCHANGED <<call, acc, res>>
  ELSE Return(TRUE, acc)
AttemptFails ==
  IF call.op # "read_coils_fix" /\ retry + 1 < CFG_REQUST_RETRY_CNT
  THEN /\ mpc' = "send"
       /\ retry' = retry + 1
       /\ UNCHANGED <<call, acc, res>>
  ELSE Return(FALSE, acc)

(* A good answer f.  read_coils_fix goes on to its next coil. *)
AttemptSucceeds(f) ==
  LET coils == IF f.coils = {} THEN acc ELSE acc \cup {retry}
  IN  /\ ans' = f
      /\ IF call.op = "read_coils_fix"
         THEN IF retry + 1 < call.arg
              THEN /\ mpc' = "send"
                   /\ retry' = retry + 1
                   /\ acc' = coils
                   /\ UNCHANGED <<call, res>>
              ELSE Return(TRUE, coils)
         ELSE Return(TRUE, StateOf(call, f.coils))

Wanted == Expected(call) - Len(got)

(* select() says there is data, read() takes what there is, and more bytes  *)
(* are needed.                                                              *)
ReadSome ==
  /\ mpc = "read"
  /\ rx # <<>>
  /\ Len(rx) < Wanted
  /\ got' = got \o rx
  /\ split' = TRUE
  /\ rx' = <<>>
  /\ UNCHANGED <<mpc, call, retry, acc, res, ans, tx, pend, hung, relays, stale>>

(* The last read() and the check of the CRC.  serial_read never advances    *)
(* its buffer: what a second read() delivers lands on top of the first, and *)
(* the tail of the buffer stays unwritten, so only an answer that came in   *)
(* one piece can pass.                                                      *)
ReadAll ==
  /\ mpc = "read"
  /\ Len(rx) >= Wanted
  /\ LET all == got \o SubSeq(rx, 1, Wanted)
     IN  /\ got' = all
         /\ IF CrcGood(all) /\ ~split
            THEN AttemptSucceeds(all[1][1])
            ELSE AttemptFails /\ UNCHANGED ans
  /\ rx' = SubSeq(rx, Wanted + 1, Len(rx))
  /\ UNCHANGED <<split, tx, pend, hung, relays, stale>>

(* 250 ms without a byte: what was read so far is dropped.  A board that    *)
(* keeps its deadline has nothing under way any more by then.               *)
ReadTimeout ==
  /\ mpc = "read"
  /\ rx = <<>> /\ ~hung
  /\ "late" \in Faults \/ Quiet
  /\ AttemptFails
  /\ UNCHANGED <<got, split, ans, line, relays, stale>>

(* select() or read() fails. *)
ReadFails ==
  /\ mpc = "read"
  /\ "ioerror" \in Faults
  /\ AttemptFails
  /\ UNCHANGED <<got, split, ans, line, relays, stale>>

(* On a device that is gone select() is ready and read() returns 0, for     *)
(* which the loop of serial_read has no case: it asks again.                *)
ReadNothing ==
  /\ mpc = "read"
  /\ hung /\ rx = <<>>
  /\ UNCHANGED vars

-----------------------------------------------------------------------------
(* The boards and the wire *)

(* The board addressed takes the oldest request.  The answer may be damaged *)
(* on its way.                                                              *)
Serve ==
  /\ pend # <<>>
  /\ LET q == Head(pend)
     IN  /\ q.addr \in Addr
         /\ relays' = [relays EXCEPT ![q.addr] = RelaysAfter(q.addr, @, q)]
         /\ IF Answers(q.addr, q)
            THEN LET f == Answer(q.addr, relays[q.addr], q)
                 IN  \/ tx' = tx \o Bytes(f)
                     \/ "garble" \in Faults /\ tx' = tx \o Bytes(Damaged(f))
            ELSE UNCHANGED tx
  /\ pend' = Tail(pend)
  /\ UNCHANGED <<master, rx, hung, stale>>

(* No board has the address, or the request was lost or damaged. *)
LoseRequest ==
  /\ pend # <<>>
  /\ "loss" \in Faults \/ Head(pend).addr \notin Addr
  /\ pend' = Tail(pend)
  /\ UNCHANGED <<master, rx, tx, hung, relays, stale>>

Least(m, n) == IF m <= n THEN m ELSE n

(* The next k bytes, or what is left of them, are lost. *)
LoseBytes(k) ==
  /\ "loss" \in Faults
  /\ tx # <<>>
  /\ tx' = SubSeq(tx, k + 1, Len(tx))
  /\ UNCHANGED <<master, rx, pend, hung, relays, stale>>

(* The next k bytes reach the kernel, which drops what it has no room for. *)
Arrive(k) ==
  /\ tx # <<>>
  /\ ~hung
  /\ rx' = rx \o SubSeq(tx, 1, Least(Least(k, Len(tx)), RxSize - Len(rx)))
  /\ tx' = SubSeq(tx, k + 1, Len(tx))
  /\ UNCHANGED <<master, pend, hung, relays, stale>>

(* The adapter is pulled out. *)
Hangup ==
  /\ "hangup" \in Faults
  /\ ~hung
  /\ hung' = TRUE
  /\ rx' = <<>> /\ tx' = <<>> /\ pend' = <<>>
  /\ UNCHANGED <<master, relays, stale>>

Master == \/ SendRequest \/ SendFails
          \/ ReadSome \/ ReadAll \/ ReadTimeout \/ ReadFails \/ ReadNothing

Line == \/ Serve \/ LoseRequest
        \/ \E k \in Chunks : Arrive(k) \/ LoseBytes(k)

Next == \/ \E c \in Calls : Begin(c)
        \/ Master
        \/ Line
        \/ Hangup

Spec == Init /\ [][Next]_vars

-----------------------------------------------------------------------------
(* Properties *)

Byte == Frame \X (Nat \ {0})

TypeOK ==
  /\ mpc \in {"idle", "send", "read"}
  /\ call \in CallType
  /\ retry \in Nat
  /\ got \in Seq(Byte) /\ rx \in Seq(Byte) /\ tx \in Seq(Byte)
  /\ split \in BOOLEAN /\ stale \in BOOLEAN /\ hung \in BOOLEAN
  /\ acc \in SUBSET Nat
  /\ res \in [ok : BOOLEAN, coils : SUBSET Nat]
  /\ ans \in Frame
  /\ pend \in Seq(Request)
  /\ relays \in [Addr -> SUBSET Nat]
  /\ mpc = "read" => Len(got) < Expected(call)

(* A call that returned 0 is right: the answer it accepted came from the    *)
(* board it asked and answers the function it asked for, a read of coils    *)
(* returned the state of the relays as they are, and a relay written is as  *)
(* written.                                                                 *)
ReadIsCurrent ==
  call.op = "read_coils" /\ Kind[call.addr] # "fix"
  => res.coils = StateOf(call, relays[call.addr])

ReadFixIsCurrent ==
  call.op = "read_coils_fix" /\ Kind[call.addr] = "fix"
  => res.coils = {i \in 0..call.arg - 1 : call.reg + i \in relays[call.addr]}

WriteIsDone ==
  call.op = "write_coil" /\ Target(call.addr, call.reg) \in RelayIds(call.addr)
  => (Target(call.addr, call.reg) \in relays[call.addr] <=> call.arg # 0)

AnswerIsOurs ==
  ans.addr = call.addr /\ ans.func = Func(call)

Right == /\ AnswerIsOurs
         /\ call.addr \in Addr
         /\ ReadIsCurrent
         /\ ReadFixIsCurrent
         /\ WriteIsDone

(* Whatever is lost, damaged, late or cut in pieces: a call each of whose   *)
(* attempts began on a quiet line and that returned 0 is right.             *)
SuccessIsRight == mpc = "idle" /\ res.ok /\ ~stale => Right

(* On a line where boards keep their deadline and reads ask for as many     *)
(* coils as the board has, no attempt begins with old bytes on the line:    *)
(* the flush that the code leaves out is not missed.                        *)
NeverStale == ~stale

(* On such a line the calls keep the promise of RelayClient: a relay only   *)
(* changes while a call that writes it runs, whatever the retries, and a    *)
(* call that returns 0 has had its effect.                                  *)
EffectOf(c, r) ==
  IF c.op = "write_coil" /\ c.addr \in Addr
  THEN [r EXCEPT ![c.addr] = RelaysAfter(c.addr, @, RequestOf(c, 0))]
  ELSE r

ReadingOf(c, r) == StateOf(c, r[c.addr])

Client == INSTANCE RelayClient
            WITH busy <- mpc # "idle", Effect <- EffectOf, Reading <- ReadingOf

ImplementsClient == Client!Spec

(* The invariant behind SuccessIsRight.  While an attempt that began on a   *)
(* quiet line is reading, either its request is all that is under way, or   *)
(* every undamaged byte is of an answer that fits the request.              *)
Fits(f) ==
  LET q == RequestOf(call, retry)
  IN  /\ call.addr \in Addr
      /\ f.addr = call.addr
      /\ f.func = q.func
      /\ f.coils = Answer(call.addr, relays[call.addr], q).coils
      /\ q.func = WRITE_COIL => relays[call.addr] = RelaysAfter(call.addr, relays[call.addr], q)
      /\ q.func = WRITE_COIL => Accepts(call.addr, q.reg)

AllFit(s) == \A i \in 1..Len(s) : s[i][1].good => Fits(s[i][1])

OneExchange ==
  \/ pend = <<RequestOf(call, retry)>> /\ got = <<>> /\ rx = <<>> /\ tx = <<>>
  \/ pend = <<>> /\ AllFit(got) /\ AllFit(rx) /\ AllFit(tx)

Collected ==
  call.op = "read_coils_fix" /\ call.addr \in Addr /\ Kind[call.addr] = "fix" =>
    acc = {i \in 0..retry - 1 : call.reg + i \in relays[call.addr]}

InCall ==
  mpc # "idle" => /\ call \in Calls
                  /\ call.op = "read_coils_fix" => retry < call.arg
                  /\ retry = 0 => acc = {}

Exchange ==
  ~stale => /\ mpc = "read" => OneExchange /\ Collected
            /\ mpc = "send" /\ call.op = "read_coils_fix" /\ retry > 0 =>
                 pend = <<>> /\ Collected
            /\ mpc = "idle" /\ res.ok => pend = <<>>

IInv == InCall /\ Exchange /\ SuccessIsRight

(* An undamaged answer of which serial_read consumed every byte is accepted, *)
(* in however many pieces it came.                                           *)
WholeAnswerAccepted ==
  [][mpc = "read" /\ Len(got') = Expected(call) /\ CrcGood(got')
     => ans' = got'[1][1]]_vars

=============================================================================
