-------------------------- MODULE DirectTestProofs ---------------------------
(* Theorems about DirectTest, for any commands of two bytes.                    *)
EXTENDS DirectTest, SequenceTheorems, TLAPS

(* The status that a command has to be answered with.                           *)
Right(bytes) ==
    LET f == bytes[1] % 64    c == bytes[1] \div 64
        len == bytes[2] \div 4    type == bytes[2] % 4
    IN  CASE c = 1 -> 1
          [] c = 2 /\ ~(f <= 39 /\ len <= 37 /\ type <= 2) -> 18
          [] OTHER -> 0

Good(bytes) == Decode(bytes).cmd = 2 /\ ~BadParameter(Decode(bytes))
Stops(bytes) == Decode(bytes).cmd = 3 \/ Good(bytes)

-------------------------------------------------------------------------------
(* The way of a command: nobody asked yet; its bytes come in; it is carried     *)
(* out; its answer goes out, and has gone.                                      *)
Silent == shift = <<>> /\ u0dbuf = <<>> /\ ~UTX0IE /\ inbox = <<>>

Unasked ==
    /\ command = None /\ toSend = <<>> /\ ~URX0IF /\ Silent
    /\ pc = "loop" /\ ~uartPktReceived /\ uartRxIndex = 0

Coming ==
    /\ command \in Commands /\ pc = "loop" /\ ~uartPktReceived /\ Silent
    /\ \/ uartRxIndex = 0 /\ toSend = command
       \/ uartRxIndex = 1 /\ toSend = <<command[2]>> /\ uartRxBuffer[1] = command[1]

CarriedOut ==
    /\ command \in Commands /\ toSend = <<>> /\ ~URX0IF /\ Silent
    /\ uartPktReceived /\ uartRxIndex = 0
    /\ uartRxBuffer[1] = command[1] /\ uartRxBuffer[2] = command[2]
    /\ pc \in {"loop", "reset", "stop", "clear", "init", "load", "start", "reply"}
    /\ pc \in {"reset", "stop", "clear"} => Stops(command)
    /\ pc \in {"init", "load", "start"} => Good(command)
    /\ pc = "reply" => status = Right(command)

Unsent ==
    /\ UTX0IE /\ u0dbuf = <<>>
    /\ uartTxBuffer = <<0, Right(command)>>
    /\ \/ uartTxIndex = 0 /\ shift = <<>> /\ inbox = <<>>
       \/ uartTxIndex = 1 /\ shift = <<0>> /\ inbox = <<>>
       \/ uartTxIndex = 1 /\ shift = <<>> /\ inbox = <<0>>
Leaving ==
    /\ ~UTX0IE
    /\ \/ shift = <<0>> /\ u0dbuf = <<Right(command)>> /\ inbox = <<>>
       \/ shift = <<Right(command)>> /\ u0dbuf = <<>> /\ inbox = <<0>>
       \/ shift = <<>> /\ u0dbuf = <<>> /\ inbox = <<0, Right(command)>>
Answered ==
    /\ command \in Commands /\ toSend = <<>> /\ ~URX0IF
    /\ pc \in {"restart", "loop"}
    /\ uartRxIndex = 0 /\ (pc = "loop" => ~uartPktReceived)
    /\ Unsent \/ Leaving

CommandInv ==
    /\ uartRxBuffer \in [1..2 -> 0..255]
    /\ Unasked \/ Coming \/ CarriedOut \/ Answered

-------------------------------------------------------------------------------
(* The radio.  What it repeats is the test that was told last, which no answer  *)
(* has ended, or the one that is being answered.                                *)
Loaded(test) ==
    /\ test[1] \in 0..2 /\ test[2] \in 0..37
    /\ fifo = miniBLEPhyLoadDTMPacket(test[1], test[2])
    /\ 2379 + freq = test[3]

Tells == TellsOf(command, None)

Repeats ==
    \/ told # None /\ Loaded(told)
       /\ (Waiting /\ Stops(command) => Coming \/ (CarriedOut /\ pc \in {"loop", "reset"}))
    \/ /\ Waiting /\ Good(command) /\ Loaded(Tells)
       /\ (CarriedOut /\ pc = "reply") \/ Answered

TaskInv ==
    /\ task \in {"none", "transmit", "stopping"}
    /\ task = "stopping" => pc = "stop"
    /\ task = "transmit" => pc \notin {"stop", "clear", "init", "load", "start"}
    /\ "TASKDONE" \in RFIRQF1 => task = "none" /\ pc \in {"stop", "clear"}

(* An event finds the packet at its start, and the handler a flag it expects.   *)
FlagInv ==
    /\ task = "transmit" =>
          /\ RFIE /\ RFIRQM1 = {"TXDONE"}
          /\ \/ unread /\ ~S1CON /\ RFIRQF1 = {}
             \/ S1CON /\ RFIRQF1 = {"TXDONE"}
    /\ task # "transmit" => ~(S1CON /\ RFIE)
    /\ pc \in {"stop", "clear"} => ~RFIE
    /\ pc \in {"init", "load", "start"} => RFIRQF1 = {} /\ ~S1CON
    /\ pc \in {"load", "start"} => RFIE

PacketInv ==
    /\ pc = "start" => Loaded(Tells) /\ unread /\ RFIRQM1 = {"TXDONE"}
    /\ task = "transmit" => Repeats

RadioInv == TaskInv /\ FlagInv /\ PacketInv

IInv == CommandInv /\ RadioInv


-------------------------------------------------------------------------------
(* Commands, decoded.                                                           *)
LEMMA Pairs ==
  ASSUME NEW x, NEW y
  PROVE  /\ Head(<<x, y>>) = x /\ Tail(<<x, y>>) = <<y>> /\ <<x>> \o <<y>> = <<x, y>>
         /\ Len(<<x, y>>) = 2 /\ Len(<<x>>) = 1 /\ Len(<<>>) = 0
<1>1. Head(<<x, y>>) = x
  OBVIOUS
<1>2. Tail(<<x, y>>) = <<y>>
  OBVIOUS
<1>3. <<x>> \o <<y>> = <<x, y>>
  <2> DEFINE s == <<x>>  t == <<y>>  st == <<x, y>>
  <2>1. /\ s \in Seq({x, y}) /\ t \in Seq({x, y}) /\ st \in Seq({x, y})
        /\ Len(s) = 1 /\ Len(t) = 1 /\ Len(st) = 2
        /\ s[1] = x /\ t[1] = y /\ st[1] = x /\ st[2] = y
    OBVIOUS
  <2> HIDE DEF s, t, st
  <2>2. s \o t \in Seq({x, y}) /\ Len(s \o t) = 2 /\ (s \o t)[1] = x /\ (s \o t)[2] = y
    BY <2>1, ConcatProperties
  <2>3. \A n \in 1 .. Len(st) : (s \o t)[n] = st[n]
    BY <2>1, <2>2
  <2>4. s \o t = st
    BY <2>1, <2>2, <2>3, SeqEqual
  <2> QED
    BY <2>4 DEF s, t, st
<1>4. Len(<<x, y>>) = 2 /\ Len(<<x>>) = 1 /\ Len(<<>>) = 0
  OBVIOUS
<1> QED
  BY <1>1, <1>2, <1>3, <1>4

LEMMA Fields ==
  ASSUME NEW b \in Commands
  PROVE  /\ b = <<b[1], b[2]>> /\ b[1] \in 0..255 /\ b[2] \in 0..255 /\ b # None
         /\ Decode(b).cmd = b[1] \div 64 /\ Decode(b).cmd \in 0..3
         /\ Decode(b).txFreq = b[1] % 64 /\ Decode(b).txFreq \in 0..63
         /\ Decode(b).dataLength = b[2] \div 4 /\ Decode(b).dataLength \in 0..63
         /\ Decode(b).payloadType = b[2] % 4 /\ Decode(b).payloadType \in 0..3
<1>1. b \in (0..255) \X (0..255)
  BY CommandsAssumption
<1>2. b = <<b[1], b[2]>> /\ b[1] \in 0..255 /\ b[2] \in 0..255 /\ b # None
  BY <1>1 DEF None
<1>3. \A x \in 0..255 : /\ x \div 64 \in 0..3 /\ x % 64 \in 0..63
                        /\ x \div 4 \in 0..63 /\ (x \div 4) % 64 = x \div 4
                        /\ x % 4 \in 0..3
  OBVIOUS
<1> QED
  BY <1>2, <1>3 DEF Decode

LEMMA StatusRight ==
  ASSUME NEW b \in Commands
  PROVE  /\ Decode(b).cmd = LE_RESET_CMD => Right(b) = CMD_SUCCESS
         /\ Decode(b).cmd = LE_RECEIVER_TEST_CMD => Right(b) = CMD_FAILURE
         /\ Decode(b).cmd = LE_TRANSMITTER_TEST_CMD /\ BadParameter(Decode(b))
              => Right(b) = STATUS_ERROR_BAD_PARAMETER
         /\ Good(b) => Right(b) = CMD_SUCCESS
         /\ Decode(b).cmd = LE_END_TEST_CMD => Right(b) = CMD_SUCCESS
<1> DEFINE c == Decode(b)
<1>1. /\ b[1] \div 64 = c.cmd /\ c.cmd \in 0..3 /\ b[1] % 64 = c.txFreq /\ c.txFreq \in 0..63
      /\ b[2] \div 4 = c.dataLength /\ c.dataLength \in 0..63
      /\ b[2] % 4 = c.payloadType /\ c.payloadType \in 0..3
  BY Fields
<1>2. Right(b) = CASE c.cmd = 1 -> 1
                   [] c.cmd = 2 /\ ~(c.txFreq <= 39 /\ c.dataLength <= 37 /\ c.payloadType <= 2) -> 18
                   [] OTHER -> 0
  BY <1>1, Zenon DEF Right
<1>3. BadParameter(c) <=> ~(c.txFreq <= 39 /\ c.dataLength <= 37 /\ c.payloadType <= 2)
  <2>1. BadParameter(c) <=> c.txFreq >= 40 \/ c.dataLength > 37 \/ c.payloadType = 3
    BY DEF BadParameter, DIRECT_TEST_NUM_RF_CHANS, DIRECT_TEST_MAX_PAYLOAD_LEN,
           DIRECT_TEST_PAYLOAD_VENDOR
  <2> HIDE DEF c
  <2> QED
    BY <1>1, <2>1
<1>4. Good(b) <=> c.cmd = 2 /\ ~BadParameter(c)
  BY DEF Good
<1> HIDE DEF c
<1>5. /\ c.cmd = 0 => Right(b) = 0
      /\ c.cmd = 1 => Right(b) = 1
      /\ c.cmd = 2 /\ BadParameter(c) => Right(b) = 18
      /\ c.cmd = 2 /\ ~BadParameter(c) => Right(b) = 0
      /\ c.cmd = 3 => Right(b) = 0
  BY <1>1, <1>2, <1>3
<1> QED
  BY <1>4, <1>5 DEF c, LE_RESET_CMD, LE_RECEIVER_TEST_CMD, LE_TRANSMITTER_TEST_CMD, LE_END_TEST_CMD,
     CMD_SUCCESS, CMD_FAILURE, STATUS_ERROR_BAD_PARAMETER

(* What the loop decodes is the command.                                        *)
LEMMA DecodesIt ==
  ASSUME CarriedOut
  PROVE  cmd = Decode(command)
BY DEF CarriedOut, cmd, Decode

-------------------------------------------------------------------------------
(* The steps on the way of a command.                                           *)
wayVars == <<command, toSend, inbox, rxVars, txVars, pc, status>>

LEMMA WayStays == CommandInv /\ UNCHANGED wayVars => CommandInv'
BY DEF CommandInv, wayVars, rxVars, txVars, Unasked, Coming, CarriedOut, Answered, Silent, Unsent,
       Leaving, Stops, Good, Right

LEMMA NewKeeps ==
  ASSUME CommandInv, NewCommand
  PROVE  CommandInv' /\ Coming'
<1>1. PICK c \in Commands : command' = c /\ toSend' = c
  BY DEF NewCommand
<1>2. inbox' = <<>> /\ UNCHANGED <<rxVars, txVars, pc>> /\ ~Waiting /\ pc # "restart"
  BY DEF NewCommand, mainVars
<1>3. Unasked \/ (Answered /\ Len(inbox) >= 2)
  <2>1. CASE Coming \/ CarriedOut
    <3>1. command # None /\ Len(inbox) = 0
      BY <2>1, Fields DEF Coming, CarriedOut, Silent
    <3> QED
      BY <1>2, <3>1 DEF Waiting
  <2>2. CASE Answered
    <3>1. command # None /\ Len(inbox) \in Nat
      BY <2>2, Fields DEF Answered, Unsent, Leaving
    <3> QED
      BY <1>2, <2>2, <3>1 DEF Waiting
  <2> QED
    BY <2>1, <2>2 DEF CommandInv
<1>4. /\ pc = "loop" /\ ~uartPktReceived /\ uartRxIndex = 0
      /\ shift = <<>> /\ u0dbuf = <<>> /\ ~UTX0IE
  <2>1. CASE Unasked
    BY <2>1 DEF Unasked, Silent
  <2>2. CASE Answered /\ Len(inbox) >= 2
    <3>1. Len(<<>>) = 0 /\ Len(<<0>>) = 1
      BY Pairs, Zenon
    <3>2. ~(0 >= 2) /\ ~(1 >= 2)
      OBVIOUS
    <3>3. inbox # <<>> /\ inbox # <<0>>
      BY <2>2, <3>1, <3>2, Zenon
    <3> QED
      BY <1>2, <2>2, <3>3 DEF Answered, Unsent, Leaving
  <2> QED
    BY <1>3, <2>1, <2>2
<1>5. Coming'
  BY <1>1, <1>2, <1>4 DEF Coming, Silent, rxVars, txVars
<1> QED
  BY <1>2, <1>5 DEF CommandInv, rxVars

LEMMA SendKeeps ==
  ASSUME CommandInv, SendByte
  PROVE  CommandInv' /\ (Coming => Coming')
<1>1. toSend # <<>> /\ UNCHANGED <<command, toSend, inbox, uartRxBuffer, uartRxIndex,
                                   uartPktReceived, txVars, pc, status>>
  BY DEF SendByte, testerVars, mainVars
<1>2. Coming
  BY <1>1 DEF CommandInv, Unasked, CarriedOut, Answered
<1>3. Coming'
  BY <1>1, <1>2 DEF Coming, Silent, txVars
<1> QED
  BY <1>1, <1>3 DEF CommandInv

LEMMA RxKeeps ==
  ASSUME CommandInv, UART0_RX_ISR
  PROVE  /\ CommandInv'
         /\ Coming' \/ (CarriedOut' /\ pc = "loop")
         /\ Coming
<1> USE DEF SIZE_OF_UART_RX_BUFFER
<1>1. /\ URX0IF /\ ~URX0IF' /\ toSend' = Tail(toSend)
      /\ uartRxBuffer' = [uartRxBuffer EXCEPT ![uartRxIndex + 1] = Head(toSend)]
      /\ UNCHANGED <<command, inbox, txVars, pc, status>>
  BY DEF UART0_RX_ISR, mainVars
<1>2. Coming
  BY <1>1 DEF CommandInv, Unasked, CarriedOut, Answered
<1>3. command = <<command[1], command[2]>> /\ command[1] \in 0..255 /\ command[2] \in 0..255
  BY <1>2, Fields DEF Coming
<1>4. uartRxBuffer \in [1..2 -> 0..255]
  BY DEF CommandInv
<1>5. CASE uartRxIndex = 0 /\ toSend = command
  <2>1. Head(toSend) = command[1] /\ Tail(toSend) = <<command[2]>>
    BY <1>3, <1>5, Pairs, Zenon
  <2>2. uartRxBuffer' \in [1..2 -> 0..255] /\ uartRxBuffer'[1] = command[1]
    BY <1>1, <1>3, <1>4, <1>5, <2>1
  <2>3. uartRxIndex' = 1 /\ uartPktReceived' = uartPktReceived
    BY <1>5 DEF UART0_RX_ISR
  <2>4. Coming'
    BY <1>1, <1>2, <2>1, <2>2, <2>3 DEF Coming, Silent, txVars
  <2> QED
    BY <1>2, <2>2, <2>4 DEF CommandInv
<1>6. CASE uartRxIndex = 1 /\ toSend = <<command[2]>> /\ uartRxBuffer[1] = command[1]
  <2>1. Head(toSend) = command[2] /\ Tail(toSend) = <<>>
    BY <1>6
  <2>2. /\ uartRxBuffer' \in [1..2 -> 0..255]
        /\ uartRxBuffer'[1] = command[1] /\ uartRxBuffer'[2] = command[2]
    BY <1>1, <1>3, <1>4, <1>6, <2>1
  <2>3. uartRxIndex' = 0 /\ uartPktReceived'
    BY <1>6 DEF UART0_RX_ISR
  <2>4. CarriedOut'
    BY <1>1, <1>2, <2>1, <2>2, <2>3 DEF Coming, CarriedOut, Silent, txVars
  <2> QED
    BY <1>2, <2>2, <2>4 DEF CommandInv, Coming
<1> QED
  BY <1>2, <1>5, <1>6 DEF Coming

LEMMA TxKeeps ==
  ASSUME CommandInv, UART0_TX_ISR
  PROVE  CommandInv' /\ Answered /\ Answered' /\ (Waiting <=> Waiting')
<1> USE DEF SIZE_OF_UART_TX_BUFFER
<1>1. /\ UTX0IE /\ UNCHANGED <<command, toSend, inbox, rxVars, uartTxBuffer, pc, status>>
      /\ LET byte == <<uartTxBuffer[uartTxIndex + 1]>>
         IN  IF shift = <<>> THEN shift' = byte /\ UNCHANGED u0dbuf
                             ELSE u0dbuf' = byte /\ UNCHANGED shift
      /\ IF uartTxIndex + 1 >= 2 THEN uartTxIndex' = 0 /\ UTX0IE' = FALSE
                                 ELSE uartTxIndex' = uartTxIndex + 1 /\ UNCHANGED UTX0IE
  BY DEF UART0_TX_ISR, testerVars, mainVars
<1>2. Answered /\ Unsent
  BY <1>1 DEF CommandInv, Unasked, Coming, CarriedOut, Answered, Silent, Leaving
<1>3. uartTxBuffer[1] = 0 /\ uartTxBuffer[2] = Right(command)
  BY <1>2 DEF Unsent
<1>4. Right(command)' = Right(command)
  BY <1>1 DEF Right
<1>5. Unsent' \/ Leaving'
  <2>1. CASE uartTxIndex = 0 /\ shift = <<>> /\ inbox = <<>>
    <3>1. shift' = <<0>> /\ u0dbuf' = <<>> /\ uartTxIndex' = 1 /\ UTX0IE'
      BY <1>1, <1>2, <1>3, <2>1 DEF Unsent
    <3> QED
      BY <1>1, <1>2, <1>4, <2>1, <3>1 DEF Unsent
  <2>2. CASE uartTxIndex = 1 /\ shift = <<0>> /\ inbox = <<>>
    <3>1. shift' = <<0>> /\ u0dbuf' = <<Right(command)>> /\ ~UTX0IE'
      BY <1>1, <1>3, <2>2
    <3> QED
      BY <1>1, <1>4, <2>2, <3>1 DEF Leaving
  <2>3. CASE uartTxIndex = 1 /\ shift = <<>> /\ inbox = <<0>>
    <3>1. shift' = <<Right(command)>> /\ u0dbuf' = <<>> /\ ~UTX0IE'
      BY <1>1, <1>2, <1>3, <2>3 DEF Unsent
    <3> QED
      BY <1>1, <1>4, <2>3, <3>1 DEF Leaving
  <2> QED
    BY <1>2, <2>1, <2>2, <2>3 DEF Unsent
<1>6. Answered'
  BY <1>1, <1>2, <1>5 DEF Answered, rxVars
<1>7. Waiting <=> Waiting'
  BY <1>1 DEF Waiting
<1> QED
  BY <1>1, <1>2, <1>6, <1>7 DEF CommandInv, rxVars

LEMMA ShiftKeeps ==
  ASSUME CommandInv, ShiftOut
  PROVE  /\ CommandInv' /\ Answered /\ Answered' /\ Waiting /\ command' = command
         /\ told' = IF Waiting' THEN told ELSE TellsOf(command, told)
<1>1. /\ shift # <<>> /\ inbox' = inbox \o shift /\ shift' = u0dbuf /\ u0dbuf' = <<>>
      /\ told' = IF Len(inbox') = 2 THEN TellsOf(command, told) ELSE told
      /\ UNCHANGED <<command, toSend, rxVars, uartTxBuffer, uartTxIndex, UTX0IE, pc, status>>
  BY DEF ShiftOut, mainVars
<1>2. Answered
  BY <1>1 DEF CommandInv, Unasked, Coming, CarriedOut, Silent
<1>3. Right(command)' = Right(command)
  BY <1>1 DEF Right
<1>4. command # None
  BY <1>2, Fields DEF Answered
<1>5. /\ Unsent' \/ Leaving'
      /\ Len(inbox) < 2 /\ Len(inbox') \in 1..2
  <2>1. CASE Unsent
    <3>1. shift = <<0>> /\ inbox = <<>> /\ uartTxIndex = 1
      BY <1>1, <2>1 DEF Unsent
    <3>2. inbox' = <<0>> /\ Len(inbox') = 1
      BY <1>1, <3>1
    <3>3. Unsent'
      BY <1>1, <1>3, <2>1, <3>1, <3>2 DEF Unsent
    <3> QED
      BY <3>1, <3>2, <3>3
  <2>2. CASE Leaving
    <3>1. CASE shift = <<0>> /\ u0dbuf = <<Right(command)>> /\ inbox = <<>>
      <4>1. inbox' = <<0>> /\ Len(inbox') = 1
        BY <1>1, <3>1
      <4>2. Leaving'
        BY <1>1, <1>3, <2>2, <3>1, <4>1 DEF Leaving
      <4> QED
        BY <3>1, <4>1, <4>2
    <3>2. CASE shift = <<Right(command)>> /\ u0dbuf = <<>> /\ inbox = <<0>>
      <4>1. inbox' = <<0, Right(command)>> /\ Len(inbox') = 2 /\ Len(inbox) = 1
        BY <1>1, <3>2, Pairs, Zenon
      <4>2. Leaving'
        BY <1>1, <1>3, <2>2, <3>2, <4>1 DEF Leaving
      <4> QED
        BY <4>1, <4>2
    <3> QED
      BY <1>1, <2>2, <3>1, <3>2 DEF Leaving
  <2> QED
    BY <1>2, <2>1, <2>2 DEF Answered
<1>6. Answered'
  BY <1>1, <1>2, <1>5 DEF Answered, rxVars
<1>7. Waiting /\ (Waiting' <=> Len(inbox') # 2)
  BY <1>1, <1>4, <1>5 DEF Waiting
<1> QED
  BY <1>1, <1>2, <1>6, <1>7 DEF CommandInv, rxVars

LEMMA UartRadio ==
  ASSUME CommandInv, RadioInv, NewCommand \/ SendByte \/ UART0_RX_ISR \/ UART0_TX_ISR
  PROVE  CommandInv' /\ RadioInv'
<1>1. UNCHANGED <<told, pc, irqVars, radioVars>>
  BY DEF NewCommand, SendByte, UART0_RX_ISR, UART0_TX_ISR, testerVars, mainVars
<1>2. TaskInv' /\ FlagInv'
  BY <1>1 DEF RadioInv, TaskInv, FlagInv, irqVars, radioVars
<1>3. CASE NewCommand
  <2>1. CommandInv' /\ Coming' /\ ~Waiting
    BY <1>3, NewKeeps DEF NewCommand
  <2>2. pc = "loop"
    BY <1>1, <2>1 DEF Coming
  <2>3. PacketInv'
    BY <1>1, <2>1, <2>2 DEF RadioInv, PacketInv, Repeats, Loaded, radioVars
  <2> QED
    BY <1>2, <2>1, <2>3 DEF RadioInv
<1>4. CASE SendByte \/ UART0_RX_ISR
  <2>1. CommandInv' /\ Coming /\ (Coming' \/ (CarriedOut' /\ pc = "loop"))
    <3>1. CASE SendByte
      <4>1. toSend # <<>>
        BY <3>1 DEF SendByte
      <4>2. Coming
        BY <4>1 DEF CommandInv, Unasked, CarriedOut, Answered
      <4> QED
        BY <3>1, <4>2, SendKeeps
    <3>2. CASE UART0_RX_ISR
      BY <3>2, RxKeeps
    <3> QED
      BY <1>4, <3>1, <3>2
  <2>2. pc = "loop" /\ command' = command /\ inbox' = inbox
    BY <1>4, <2>1 DEF Coming, SendByte, UART0_RX_ISR, testerVars
  <2>3. ~Answered /\ ~(CarriedOut /\ pc = "reply")
    <3>1. command \in Commands /\ (toSend = command \/ toSend = <<command[2]>>)
      BY <2>1 DEF Coming
    <3>2. command # <<>>
      BY <3>1, Fields DEF None
    <3>3. toSend # <<>>
      BY <3>1, <3>2
    <3> QED
      BY <3>3 DEF Answered, CarriedOut
  <2>4. PacketInv'
    BY <1>1, <2>1, <2>2, <2>3 DEF RadioInv, PacketInv, Repeats, Loaded, radioVars
  <2> QED
    BY <1>2, <2>1, <2>4 DEF RadioInv
<1>5. CASE UART0_TX_ISR
  <2>1. CommandInv' /\ Answered /\ Answered' /\ (Waiting <=> Waiting') /\ command' = command
    BY <1>5, TxKeeps DEF UART0_TX_ISR, testerVars
  <2>2. ~Coming /\ ~CarriedOut
    BY <1>5 DEF UART0_TX_ISR, Coming, CarriedOut, Silent
  <2>3. pc # "start" /\ pc' # "start"
    BY <1>1, <2>1 DEF Answered
  <2>4. Stops(command)' = Stops(command) /\ Good(command)' = Good(command) /\ Tells' = Tells
    BY <2>1 DEF Stops, Good, Tells
  <2>5. PacketInv'
    BY <1>1, <2>1, <2>2, <2>3, <2>4 DEF RadioInv, PacketInv, Repeats, Loaded, radioVars
  <2> QED
    BY <1>2, <2>1, <2>5 DEF RadioInv
<1> QED
  BY <1>3, <1>4, <1>5

(* What an answer tells of the radio.                                           *)
LEMMA TellsWhat ==
  ASSUME NEW b \in Commands, NEW t
  PROVE  /\ ~Stops(b) => TellsOf(b, t) = t
         /\ Good(b) => TellsOf(b, t) = TellsOf(b, None)
         /\ Good(b) => /\ TellsOf(b, t)[1] = Decode(b).payloadType
                       /\ TellsOf(b, t)[2] = Decode(b).dataLength
                       /\ TellsOf(b, t)[3] = 2402 + 2 * Decode(b).txFreq
                       /\ TellsOf(b, t) # None
BY DEF TellsOf, Stops, Good, LE_END_TEST_CMD, LE_TRANSMITTER_TEST_CMD, None

LEMMA ShiftRadio ==
  ASSUME CommandInv, RadioInv, ShiftOut
  PROVE  CommandInv' /\ RadioInv'
<1>1. UNCHANGED <<pc, irqVars, radioVars>>
  BY DEF ShiftOut, mainVars
<1>2. TaskInv' /\ FlagInv'
  BY <1>1 DEF RadioInv, TaskInv, FlagInv, irqVars, radioVars
<1>3. /\ CommandInv' /\ Answered /\ Answered' /\ Waiting /\ command' = command
      /\ told' = IF Waiting' THEN told ELSE TellsOf(command, told)
  BY ShiftKeeps
<1>4. ~Coming /\ ~CarriedOut
  BY DEF ShiftOut, Coming, CarriedOut, Silent
<1>5. pc # "start" /\ pc' # "start" /\ command \in Commands
  BY <1>1, <1>3 DEF Answered
<1>6. Stops(command)' = Stops(command) /\ Good(command)' = Good(command) /\ Tells' = Tells
  BY <1>3 DEF Stops, Good, Tells
<1>7. ASSUME task = "transmit" PROVE Repeats'
  <2>1. Repeats
    BY <1>7 DEF RadioInv, PacketInv
  <2>2. CASE Waiting'
    BY <1>1, <1>3, <1>4, <1>6, <2>1, <2>2 DEF Repeats, Loaded, radioVars
  <2>3. CASE ~Waiting'
    <3>1. told' = TellsOf(command, told)
      BY <1>3, <2>3
    <3>2. CASE told # None /\ Loaded(told) /\ ~Stops(command)
      <4>1. told' = told
        BY <1>5, <3>1, <3>2, TellsWhat
      <4> QED
        BY <1>1, <2>3, <3>2, <4>1 DEF Repeats, Loaded, radioVars
    <3>3. CASE Good(command) /\ Loaded(Tells)
      <4>1. told' = Tells /\ told' # None
        BY <1>5, <3>1, <3>3, TellsWhat DEF Tells
      <4> QED
        BY <1>1, <2>3, <3>3, <4>1 DEF Repeats, Loaded, radioVars
    <3> QED
      BY <1>3, <1>4, <2>1, <3>2, <3>3 DEF Repeats
  <2> QED
    BY <2>2, <2>3
<1>8. PacketInv'
  BY <1>1, <1>5, <1>7 DEF PacketInv, radioVars
<1> QED
  BY <1>2, <1>3, <1>8 DEF RadioInv

-------------------------------------------------------------------------------
(* The main loop.                                                               *)
LEMMA DispatchKeeps ==
  ASSUME CommandInv, RadioInv, Dispatch
  PROVE  CommandInv' /\ RadioInv'
<1> USE DEF LE_RESET_CMD, LE_RECEIVER_TEST_CMD, LE_TRANSMITTER_TEST_CMD, LE_END_TEST_CMD
<1>1. /\ pc = "loop" /\ uartPktReceived
      /\ UNCHANGED <<testerVars, rxVars, txVars, irqVars, radioVars>>
  BY DEF Dispatch
<1>2. CarriedOut /\ command \in Commands
  BY <1>1 DEF CommandInv, Unasked, Coming, Answered, CarriedOut
<1>3. /\ Decode(command).cmd \in 0..3
      /\ \/ Decode(command).cmd = 0 /\ Answers(CMD_SUCCESS)
         \/ Decode(command).cmd = 1 /\ Answers(CMD_FAILURE)
         \/ Decode(command).cmd = 2 /\ BadParameter(Decode(command))
                                    /\ Answers(STATUS_ERROR_BAD_PARAMETER)
         \/ Good(command) /\ pc' = "reset" /\ UNCHANGED status
         \/ Decode(command).cmd = 3 /\ pc' = "reset" /\ UNCHANGED status
  <2>1. cmd = Decode(command)
    BY <1>2, DecodesIt
  <2> QED
    BY <1>2, <2>1, Fields DEF Dispatch, Good
<1>4. /\ Stops(command)' = Stops(command) /\ Good(command)' = Good(command) /\ Tells' = Tells
      /\ Right(command)' = Right(command) /\ command' = command
  BY <1>1 DEF Stops, Good, Tells, Right, testerVars
<1>5. \/ pc' = "reply" /\ status' = Right(command) /\ ~Stops(command)
      \/ pc' = "reset" /\ Stops(command)
  BY <1>2, <1>3, StatusRight DEF Answers, Stops, Good
<1>6. CarriedOut'
  BY <1>1, <1>2, <1>4, <1>5 DEF CarriedOut, Silent, testerVars, rxVars, txVars
<1>7. CommandInv'
  BY <1>1, <1>6 DEF CommandInv, rxVars
<1>8. TaskInv' /\ FlagInv'
  BY <1>1, <1>5 DEF RadioInv, TaskInv, FlagInv, irqVars, radioVars
<1>9. ~Answered
  BY <1>1 DEF Answered
<1>10. Waiting' <=> Waiting
  BY <1>1 DEF Waiting, testerVars
<1>11. PacketInv'
  BY <1>1, <1>4, <1>5, <1>6, <1>9, <1>10
  DEF RadioInv, PacketInv, Repeats, Loaded, testerVars, radioVars
<1> QED
  BY <1>7, <1>8, <1>11 DEF RadioInv

(* The steps of miniBlePhyReset, miniBlePhyInit and the load.                   *)
LEMMA RadioStepsKeep ==
  ASSUME CommandInv, RadioInv,
         StopRadio \/ AwaitStop \/ ClearRadio \/ InitRadio \/ LoadPacket \/ StartTransmitter
  PROVE  CommandInv' /\ RadioInv'
<1>1. /\ pc \in {"reset", "stop", "clear", "init", "load", "start"}
      /\ UNCHANGED <<testerVars, rxVars, txVars>>
  BY DEF StopRadio, AwaitStop, ClearRadio, InitRadio, LoadPacket, StartTransmitter
<1>2. CarriedOut /\ command \in Commands /\ Stops(command)
  <2>1. CarriedOut
    BY <1>1 DEF CommandInv, Unasked, Coming, Answered
  <2> QED
    BY <1>1, <2>1 DEF CarriedOut, Stops
<1>3. cmd = Decode(command)
  BY <1>2, DecodesIt
<1>4. /\ Stops(command)' = Stops(command) /\ Good(command)' = Good(command) /\ Tells' = Tells
      /\ Right(command)' = Right(command) /\ command' = command /\ (Waiting' <=> Waiting)
  BY <1>1 DEF Stops, Good, Tells, Right, testerVars, Waiting
<1>5. /\ Good(command) => Right(command) = CMD_SUCCESS /\ Decode(command).cmd # LE_END_TEST_CMD
      /\ Decode(command).cmd = LE_END_TEST_CMD => Right(command) = CMD_SUCCESS
  BY <1>2, StatusRight DEF Good, LE_END_TEST_CMD
<1>6. Waiting
  BY <1>2, Fields DEF CarriedOut, Silent, Waiting
<1>7. ~Coming /\ ~Answered
  BY <1>1 DEF Coming, Answered
<1>8. ASSUME pc' \in {"reset", "stop", "clear", "init", "load", "start", "reply"},
             pc' \in {"init", "load", "start"} => Good(command),
             pc' = "reply" => status' = Right(command)
      PROVE  CommandInv' /\ CarriedOut'
  <2>1. CarriedOut'
    BY <1>1, <1>2, <1>4, <1>8 DEF CarriedOut, Silent, testerVars, rxVars, txVars
  <2> QED
    BY <1>1, <2>1 DEF CommandInv, rxVars
<1>9. CASE StopRadio
  <2>1. /\ pc = "reset" /\ ~RFIE' /\ UNCHANGED <<RFIRQM1, RFIRQF1, S1CON, fifo, freq, told>>
        /\ IF task # "none" THEN task' = "stopping" /\ pc' = "stop"
                            ELSE pc' = "clear" /\ UNCHANGED task
    BY <1>9 DEF StopRadio, testerVars
  <2>2. TaskInv' /\ FlagInv' /\ PacketInv'
    BY <2>1 DEF RadioInv, TaskInv, FlagInv, PacketInv
  <2> QED
    BY <1>8, <2>1, <2>2 DEF RadioInv
<1>10. CASE AwaitStop
  <2>1. /\ pc = "stop" /\ pc' = IF "TASKDONE" \in RFIRQF1 THEN "clear" ELSE pc
        /\ UNCHANGED <<irqVars, radioVars>>
    BY <1>10 DEF AwaitStop
  <2>2. TaskInv' /\ FlagInv' /\ PacketInv'
    BY <2>1 DEF RadioInv, TaskInv, FlagInv, PacketInv, irqVars, radioVars
  <2> QED
    BY <1>8, <2>1, <2>2 DEF RadioInv
<1>11. CASE ClearRadio
  <2>1. /\ pc = "clear" /\ RFIRQF1' = {} /\ ~S1CON' /\ UNCHANGED <<RFIE, RFIRQM1, task>>
        /\ IF Decode(command).cmd = LE_END_TEST_CMD THEN Answers(CMD_SUCCESS)
                                                    ELSE pc' = "init" /\ UNCHANGED status
    BY <1>3, <1>11 DEF ClearRadio
  <2>2. pc' = "init" => Good(command)
    BY <1>2, <2>1 DEF Answers, Stops, LE_END_TEST_CMD
  <2>3. pc' \in {"init", "reply"} /\ (pc' = "reply" => status' = Right(command))
    BY <1>5, <2>1 DEF Answers
  <2>4. TaskInv' /\ FlagInv' /\ PacketInv'
    BY <2>1, <2>3 DEF RadioInv, TaskInv, FlagInv, PacketInv
  <2> QED
    BY <1>8, <2>2, <2>3, <2>4 DEF RadioInv
<1>12. CASE InitRadio
  <2>1. /\ pc = "init" /\ pc' = "load" /\ RFIE'
        /\ UNCHANGED <<RFIRQF1, S1CON, radioVars>>
    BY <1>12 DEF InitRadio
  <2>2. TaskInv' /\ FlagInv' /\ PacketInv'
    BY <2>1 DEF RadioInv, TaskInv, FlagInv, PacketInv, radioVars
  <2>3. Good(command)
    BY <1>2, <2>1 DEF CarriedOut
  <2> QED
    BY <1>8, <2>1, <2>2, <2>3 DEF RadioInv
<1>13. CASE LoadPacket
  <2>1. /\ pc = "load" /\ pc' = "start" /\ unread' /\ RFIRQM1' = {"TXDONE"}
        /\ fifo' = miniBLEPhyLoadDTMPacket(Decode(command).payloadType, Decode(command).dataLength)
        /\ freq' = Decode(command).txFreq * 2 + 23
        /\ UNCHANGED <<RFIE, RFIRQF1, S1CON, task>>
    BY <1>3, <1>13 DEF LoadPacket
  <2>2. Good(command)
    BY <1>2, <2>1 DEF CarriedOut
  <2>3. Loaded(Tells)'
    <3>1. /\ Decode(command).payloadType \in 0..2 /\ Decode(command).dataLength \in 0..37
          /\ Decode(command).txFreq \in 0..63
      <4>1. /\ Decode(command).payloadType \in 0..3 /\ Decode(command).dataLength \in 0..63
            /\ Decode(command).txFreq \in 0..63
        BY <1>2, Fields
      <4>2. ~(Decode(command).dataLength > 37) /\ Decode(command).payloadType # 3
        BY <2>2 DEF Good, BadParameter, DIRECT_TEST_MAX_PAYLOAD_LEN, DIRECT_TEST_PAYLOAD_VENDOR
      <4> QED
        BY <4>1, <4>2
    <3>2. /\ Tells[1] = Decode(command).payloadType /\ Tells[2] = Decode(command).dataLength
          /\ Tells[3] = 2402 + 2 * Decode(command).txFreq
      BY <1>2, <2>2, TellsWhat DEF Tells
    <3>3. 2379 + freq' = Tells[3]
      BY <2>1, <3>1, <3>2
    <3> QED
      BY <1>4, <2>1, <3>1, <3>2, <3>3 DEF Loaded
  <2>4. TaskInv' /\ FlagInv'
    BY <2>1 DEF RadioInv, TaskInv, FlagInv
  <2>5. PacketInv'
    BY <2>1, <2>3 DEF RadioInv, PacketInv, TaskInv
  <2> QED
    BY <1>8, <2>1, <2>2, <2>4, <2>5 DEF RadioInv
<1>14. CASE StartTransmitter
  <2>1. /\ pc = "start" /\ task' = "transmit" /\ Answers(CMD_SUCCESS)
        /\ UNCHANGED <<irqVars, fifo, unread, freq>>
    BY <1>14 DEF StartTransmitter
  <2>2. Good(command)
    BY <1>2, <2>1 DEF CarriedOut
  <2>3. CommandInv' /\ CarriedOut'
    BY <1>5, <1>8, <2>1, <2>2 DEF Answers
  <2>4. TaskInv' /\ FlagInv'
    BY <2>1 DEF RadioInv, TaskInv, FlagInv, PacketInv, Answers, irqVars
  <2>5. Repeats'
    BY <1>4, <1>6, <2>1, <2>2, <2>3 DEF RadioInv, PacketInv, Repeats, Loaded, Answers
  <2>6. PacketInv'
    BY <2>1, <2>5 DEF PacketInv, Answers
  <2> QED
    BY <2>3, <2>4, <2>6 DEF RadioInv
<1> QED
  BY <1>9, <1>10, <1>11, <1>12, <1>13, <1>14

LEMMA ReplyKeeps ==
  ASSUME CommandInv, RadioInv, cmdCompleteEvent
  PROVE  CommandInv' /\ RadioInv'
<1>1. /\ pc = "reply" /\ pc' = "restart"
      /\ uartTxBuffer' = <<0, status>> /\ uartTxIndex' = 0 /\ UTX0IE'
      /\ UNCHANGED <<testerVars, rxVars, u0dbuf, shift, irqVars, radioVars>>
  BY DEF cmdCompleteEvent
<1>2. CarriedOut /\ status = Right(command)
  BY <1>1 DEF CommandInv, Unasked, Coming, Answered, CarriedOut
<1>3. /\ Stops(command)' = Stops(command) /\ Good(command)' = Good(command) /\ Tells' = Tells
      /\ Right(command)' = Right(command) /\ command' = command /\ (Waiting' <=> Waiting)
  BY <1>1 DEF Stops, Good, Tells, Right, testerVars, Waiting
<1>4. Answered'
  BY <1>1, <1>2, <1>3 DEF CarriedOut, Answered, Unsent, Silent, testerVars, rxVars
<1>5. CommandInv'
  BY <1>1, <1>4 DEF CommandInv, rxVars
<1>6. TaskInv' /\ FlagInv'
  BY <1>1 DEF RadioInv, TaskInv, FlagInv, irqVars, radioVars
<1>7. ~Coming
  BY <1>1 DEF Coming
<1>8. PacketInv'
  BY <1>1, <1>3, <1>4, <1>7 DEF RadioInv, PacketInv, Repeats, Loaded, testerVars, radioVars
<1> QED
  BY <1>5, <1>6, <1>8 DEF RadioInv

LEMMA RestartKeeps ==
  ASSUME CommandInv, RadioInv, uart0StartRxForIsr
  PROVE  CommandInv' /\ RadioInv'
<1>1. /\ pc = "restart" /\ pc' = "loop" /\ ~uartPktReceived' /\ uartRxIndex' = 0 /\ ~URX0IF'
      /\ toSend' = IF URX0IF THEN Tail(toSend) ELSE toSend
      /\ UNCHANGED <<command, inbox, told, uartRxBuffer, txVars, status, irqVars, radioVars>>
  BY DEF uart0StartRxForIsr
<1>2. Answered
  BY <1>1 DEF CommandInv, Unasked, Coming, CarriedOut
<1>3. /\ Stops(command)' = Stops(command) /\ Good(command)' = Good(command) /\ Tells' = Tells
      /\ Right(command)' = Right(command) /\ command' = command /\ (Waiting' <=> Waiting)
  BY <1>1 DEF Stops, Good, Tells, Right, Waiting
<1>4. Answered'
  BY <1>1, <1>2, <1>3 DEF Answered, Unsent, Leaving, txVars
<1>5. CommandInv'
  BY <1>1, <1>4 DEF CommandInv
<1>6. TaskInv' /\ FlagInv'
  BY <1>1 DEF RadioInv, TaskInv, FlagInv, irqVars, radioVars
<1>7. ~Coming /\ ~CarriedOut
  BY <1>1 DEF Coming, CarriedOut
<1>8. PacketInv'
  BY <1>1, <1>3, <1>4, <1>7 DEF RadioInv, PacketInv, Repeats, Loaded, radioVars
<1> QED
  BY <1>5, <1>6, <1>8 DEF RadioInv

-------------------------------------------------------------------------------
(* The radio.                                                                   *)
LEMMA EventFindsPacket ==
  ASSUME RadioInv, TimerEvent
  PROVE  unread /\ ~S1CON /\ RFIRQF1 = {} /\ Repeats /\ RFIRQM1 = {"TXDONE"} /\ RFIE
BY DEF RadioInv, PacketInv, FlagInv, TimerEvent

LEMMA EventsKeep ==
  ASSUME CommandInv, RadioInv, TimerEvent \/ TaskStops \/ RF_DTM_ISR
  PROVE  CommandInv' /\ RadioInv'
<1>1. UNCHANGED <<testerVars, rxVars, txVars, mainVars, RFIE, RFIRQM1, fifo, freq>>
  BY DEF TimerEvent, TaskStops, RF_DTM_ISR
<1>2. CommandInv'
  BY <1>1, WayStays DEF wayVars, testerVars, mainVars
<1>3. /\ Coming => Coming'
      /\ Answered => Answered'
      /\ CarriedOut => CarriedOut'
      /\ Waiting' <=> Waiting
      /\ Stops(command)' = Stops(command) /\ Good(command)' = Good(command) /\ Tells' = Tells
  BY <1>1 DEF testerVars, rxVars, txVars, mainVars, Coming, CarriedOut, Answered, Silent, Unsent,
     Leaving, Stops, Good, Right, Waiting, Tells
<1>4. Repeats => Repeats'
  BY <1>1, <1>3 DEF Repeats, Loaded, testerVars, mainVars
<1>5. CASE TimerEvent
  <2>1. /\ unread /\ task = "transmit" /\ ~S1CON /\ RFIRQF1 = {} /\ Repeats
        /\ RFIRQM1 = {"TXDONE"} /\ RFIE
    BY <1>5, EventFindsPacket DEF TimerEvent
  <2>2. RFIRQF1' = {"TXDONE"} /\ S1CON' /\ task' = task
    <3>1. task' = task /\ Flag("TXDONE")
      BY <1>5, <2>1 DEF TimerEvent
    <3> QED
      BY <2>1, <3>1 DEF Flag
  <2>3. TaskInv' /\ FlagInv'
    BY <1>1, <2>1, <2>2 DEF RadioInv, TaskInv, FlagInv, mainVars
  <2>4. PacketInv'
    BY <1>1, <1>4, <2>1 DEF RadioInv, PacketInv, TaskInv, mainVars
  <2> QED
    BY <1>2, <2>3, <2>4 DEF RadioInv
<1>6. CASE TaskStops
  <2>1. /\ task = "stopping" /\ task' = "none" /\ RFIRQF1' = RFIRQF1 \cup {"TASKDONE"}
    BY <1>6 DEF TaskStops, Flag
  <2>2. pc = "stop" /\ pc' = "stop"
    BY <1>1, <2>1 DEF RadioInv, TaskInv, mainVars
  <2>3. TaskInv' /\ FlagInv' /\ PacketInv'
    BY <1>1, <2>1, <2>2 DEF RadioInv, TaskInv, FlagInv, PacketInv
  <2> QED
    BY <1>2, <2>3 DEF RadioInv
<1>7. CASE RF_DTM_ISR
  <2>1. /\ S1CON /\ RFIE /\ unread' /\ RFIRQF1' = {} /\ ~S1CON' /\ task' = task
    BY <1>7 DEF RF_DTM_ISR
  <2>2. task = "transmit"
    BY <2>1 DEF RadioInv, FlagInv
  <2>3. TaskInv' /\ FlagInv'
    BY <1>1, <2>1, <2>2 DEF RadioInv, TaskInv, FlagInv, mainVars
  <2>4. PacketInv'
    BY <1>1, <1>4, <2>1, <2>2 DEF RadioInv, PacketInv, TaskInv, mainVars
  <2> QED
    BY <1>2, <2>3, <2>4 DEF RadioInv
<1> QED
  BY <1>5, <1>6, <1>7

-------------------------------------------------------------------------------
LEMMA InvStarts == Init => IInv
<1> SUFFICES ASSUME Init PROVE IInv
  OBVIOUS
<1>1. CommandInv
  BY DEF Init, CommandInv, Unasked, Silent
<1>2. RadioInv
  BY DEF Init, RadioInv, TaskInv, FlagInv, PacketInv
<1> QED
  BY <1>1, <1>2 DEF IInv

LEMMA InvStays == IInv /\ [Next]_vars => IInv'
<1> SUFFICES ASSUME CommandInv, RadioInv, [Next]_vars PROVE CommandInv' /\ RadioInv'
  BY DEF IInv
<1>1. CASE Poll \/ UNCHANGED vars
  <2>1. UNCHANGED vars
    BY <1>1 DEF Poll
  <2>2. CommandInv'
    BY <2>1, WayStays DEF vars, wayVars, testerVars, mainVars
  <2>3. RadioInv'
    BY <2>1 DEF vars, testerVars, rxVars, txVars, mainVars, irqVars, radioVars, RadioInv, TaskInv,
       FlagInv, PacketInv, Repeats, Loaded, Tells, Waiting, Stops, Good, Coming, CarriedOut,
       Answered, Silent, Unsent, Leaving, Right
  <2> QED
    BY <2>2, <2>3
<1>2. CASE MainGoesOn
  BY <1>1, <1>2, DispatchKeeps, RadioStepsKeep, ReplyKeeps, RestartKeeps DEF MainGoesOn, Main
<1>3. CASE RxGoesOn \/ TxGoesOn \/ NewCommand \/ SendByte
  BY <1>3, UartRadio DEF RxGoesOn, TxGoesOn
<1>4. CASE ShiftOut
  BY <1>4, ShiftRadio
<1>5. CASE TimerEvent \/ TaskStops \/ RF_DTM_ISR
  BY <1>5, EventsKeep
<1> QED
  BY <1>1, <1>2, <1>3, <1>4, <1>5 DEF Next

LEMMA InvHolds == Spec => []IInv
BY InvStarts, InvStays, PTL DEF Spec

(* The reply to a command is that command's, for any commands of two bytes: a   *)
(* transmitter test is accepted if and only if its parameters are in range,     *)
(* whatever the serial port and the radio do while it is carried out.           *)
THEOREM RepliesAreRight == Spec => []ReplyIsRight
<1>1. IInv => ReplyIsRight
  <2> SUFFICES ASSUME CommandInv, Len(inbox) = 2
               PROVE  inbox = <<0, Right(command)>>
    BY DEF IInv, ReplyIsRight, Right
  <2>1. inbox \in {<<>>, <<0>>, <<0, Right(command)>>}
    BY DEF CommandInv, Unasked, Coming, CarriedOut, Answered, Silent, Unsent, Leaving
  <2>2. Len(<<>>) = 0 /\ Len(<<0>>) = 1 /\ 0 # 2 /\ 1 # 2
    BY Pairs
  <2> QED
    BY <2>1, <2>2, Zenon
<1> QED
  BY <1>1, InvHolds, PTL

(* The radio's handler never waits for a flag that does not come: whenever it   *)
(* runs, it is for the end of a packet.  It would hold up the processor.        *)
THEOREM NeverHangs == Spec => []~Hung
<1>1. IInv => ~Hung
  BY DEF IInv, RadioInv, FlagInv, Hung
<1> QED
  BY <1>1, InvHolds, PTL

-------------------------------------------------------------------------------
(* The bytes that are loaded.                                                   *)
LEMMA BodyIs ==
  ASSUME NEW len \in 0..37
  PROVE  /\ SubSeq(psbs9Data, 1, len) \in Seq(Nat) /\ Len(SubSeq(psbs9Data, 1, len)) = len
         /\ \A b \in Nat : [i \in 1..len |-> b] \in Seq(Nat) /\ Len([i \in 1..len |-> b]) = len
<1>1. \A i \in 1..37 : psbs9Data[i] \in Nat
  BY DEF psbs9Data
<1>2. \A i \in 1..len : psbs9Data[i] \in Nat
  BY <1>1
<1>3. /\ SubSeq(psbs9Data, 1, len) \in Seq(Nat)
      /\ Len(SubSeq(psbs9Data, 1, len)) = IF 1 <= len THEN len - 1 + 1 ELSE 0
  BY <1>2, SubSeqProperties
<1>4. Len(SubSeq(psbs9Data, 1, len)) = len
  BY <1>3
<1>5. ASSUME NEW b \in Nat
      PROVE  [i \in 1..len |-> b] \in Seq(Nat) /\ Len([i \in 1..len |-> b]) = len
  <2>1. len \in Nat
    OBVIOUS
  <2>2. [i \in 1..len |-> b] \in [1..len -> Nat]
    OBVIOUS
  <2>3. [i \in 1..len |-> b] \in Seq(Nat)
    BY <2>1, <2>2
  <2> QED
    BY <2>1, <2>2, <2>3
<1> QED
  BY <1>3, <1>4, <1>5

PacketOf(p, type, len) ==
    p \in Seq(Nat) /\ Len(p) = len + 3 /\ p[1] = len + 2 /\ p[2] = type /\ p[3] = len

LEMMA HeadAndBody ==
  ASSUME NEW type \in Nat, NEW len \in Nat, NEW body \in Seq(Nat), Len(body) = len
  PROVE  PacketOf(<<len + 2, type, len>> \o body, type, len)
<1> DEFINE head == <<len + 2, type, len>>
<1>1. /\ head \in Seq(Nat) /\ Len(head) = 3
      /\ head[1] = len + 2 /\ head[2] = type /\ head[3] = len
  OBVIOUS
<1> HIDE DEF head
<1>2. /\ head \o body \in Seq(Nat) /\ Len(head \o body) = Len(head) + Len(body)
      /\ \A i \in 1..Len(head) + Len(body) :
            (head \o body)[i] = IF i <= Len(head) THEN head[i] ELSE body[i - Len(head)]
  BY <1>1, ConcatProperties
<1> DEFINE p == head \o body
<1> HIDE DEF p
<1>3. p \in Seq(Nat) /\ Len(p) = 3 + len /\ p[1] = head[1] /\ p[2] = head[2] /\ p[3] = head[3]
  BY <1>1, <1>2 DEF p
<1>4. PacketOf(p, type, len)
  BY <1>1, <1>3 DEF PacketOf
<1> QED
  BY <1>4 DEF p, head

LEMMA PacketIs ==
  ASSUME NEW type \in 0..2, NEW len \in 0..37
  PROVE  PacketOf(miniBLEPhyLoadDTMPacket(type, len), type, len)
<1> DEFINE a == SubSeq(psbs9Data, 1, len)  b == [i \in 1..len |-> 240]
           c == [i \in 1..len |-> 170]  p == miniBLEPhyLoadDTMPacket(type, len)
           body == CASE type = 0 -> a [] type = 1 -> b [] type = 2 -> c
<1>1. p = <<len + 2, type, len>> \o body
  BY Zenon DEF miniBLEPhyLoadDTMPacket
<1>2. type \in Nat /\ len \in Nat /\ type \in {0, 1, 2}
  OBVIOUS
<1>3. /\ a \in Seq(Nat) /\ Len(a) = len
      /\ b \in Seq(Nat) /\ Len(b) = len
      /\ c \in Seq(Nat) /\ Len(c) = len
  BY BodyIs, 240 \in Nat, 170 \in Nat
<1> HIDE DEF a, b, c, p
<1>4. body \in Seq(Nat) /\ Len(body) = len
  BY <1>2, <1>3
<1> HIDE DEF body
<1>5. PacketOf(<<len + 2, type, len>> \o body, type, len)
  BY <1>2, <1>4, HeadAndBody
<1>6. PacketOf(p, type, len)
  BY <1>1, <1>5, Zenon
<1> QED
  BY <1>6 DEF p

(* A part of a part of a sequence.                                              *)
LEMMA PartOfPart ==
  ASSUME NEW f \in Seq(Nat), NEW len \in Nat, Len(f) = len + 3
  PROVE  LET g == SubSeq(f, 2, len + 3)
         IN  /\ Len(g) = len + 2 /\ g[1] = f[2] /\ g[2] = f[3]
             /\ SubSeq(g, 3, len + 2) = SubSeq(f, 4, len + 3)
<1> DEFINE g == SubSeq(f, 2, len + 3)  s == SubSeq(g, 3, len + 2)  t == SubSeq(f, 4, len + 3)
<1>1. \A i \in 1..len + 3 : f[i] \in Nat
  OBVIOUS
<1>2. /\ g \in Seq(Nat) /\ Len(g) = len + 2
      /\ \A i \in 1..len + 2 : g[i] = f[i + 1]
  <2>1. \A i \in 2..len + 3 : f[i] \in Nat
    BY <1>1
  <2>2. /\ g \in Seq(Nat) /\ Len(g) = IF 2 <= len + 3 THEN (len + 3) - 2 + 1 ELSE 0
        /\ \A i \in 1..(len + 3) - 2 + 1 : g[i] = f[2 + i - 1]
    BY <2>1, SubSeqProperties
  <2> HIDE DEF g
  <2> QED
    BY <2>2
<1> HIDE DEF g
<1>3. s \in Seq(Nat) /\ Len(s) = len /\ \A i \in 1..len : s[i] = g[i + 2]
  <2>1. \A i \in 3..len + 2 : g[i] \in Nat
    <3> SUFFICES ASSUME NEW i \in 3..len + 2 PROVE g[i] \in Nat
      OBVIOUS
    <3>1. i \in 1..len + 2 /\ i + 1 \in 1..len + 3
      OBVIOUS
    <3> HIDE DEF s, t
    <3> QED
      BY <1>1, <1>2, <3>1
  <2>2. /\ s \in Seq(Nat) /\ Len(s) = IF 3 <= len + 2 THEN (len + 2) - 3 + 1 ELSE 0
        /\ \A i \in 1..(len + 2) - 3 + 1 : s[i] = g[3 + i - 1]
    BY <2>1, SubSeqProperties
  <2> HIDE DEF s
  <2> QED
    BY <2>2
<1>4. t \in Seq(Nat) /\ Len(t) = len /\ \A i \in 1..len : t[i] = f[i + 3]
  <2>1. \A i \in 4..len + 3 : f[i] \in Nat
    BY <1>1
  <2>2. /\ t \in Seq(Nat) /\ Len(t) = IF 4 <= len + 3 THEN (len + 3) - 4 + 1 ELSE 0
        /\ \A i \in 1..(len + 3) - 4 + 1 : t[i] = f[4 + i - 1]
    BY <2>1, SubSeqProperties
  <2> HIDE DEF t
  <2> QED
    BY <2>2
<1> HIDE DEF s, t
<1>5. \A i \in 1..len : s[i] = t[i]
  BY <1>2, <1>3, <1>4
<1>6. s = t
  BY <1>3, <1>4, <1>5, SeqEqual
<1>7. g[1] = f[2] /\ g[2] = f[3]
  BY <1>2
<1> QED
  BY <1>2, <1>6, <1>7 DEF g, s, t

OnAir == <<SubSeq(fifo, 2, 1 + fifo[1]), 2379 + freq>>

LEMMA AirOf ==
  ASSUME PayloadsAreRight, NEW test, test # None, Loaded(test)
  PROVE  IsTest(OnAir, test)
<1> DEFINE type == test[1]  len == test[2]  bytes == SubSeq(fifo, 2, 1 + fifo[1])
<1>1. type \in 0..2 /\ len \in 0..37
  BY DEF Loaded
<1>2a. fifo = miniBLEPhyLoadDTMPacket(type, len)
  BY DEF Loaded
<1>2. /\ fifo \in Seq(Nat) /\ Len(fifo) = len + 3
      /\ fifo[1] = len + 2 /\ fifo[2] = type /\ fifo[3] = len
  <2> HIDE DEF type, len
  <2>1. PacketOf(miniBLEPhyLoadDTMPacket(type, len), type, len)
    BY <1>1, PacketIs
  <2>2. PacketOf(fifo, type, len)
    BY <1>2a, <2>1, Zenon
  <2> QED
    BY <2>2 DEF PacketOf
<1>3. bytes = SubSeq(fifo, 2, len + 3)
  <2> HIDE DEF type, len
  <2>1. 1 + fifo[1] = len + 3
    BY <1>1, <1>2
  <2> QED
    BY <2>1
<1>4. /\ Len(bytes) = len + 2 /\ bytes[1] = type /\ bytes[2] = len
      /\ SubSeq(bytes, 3, len + 2) = SubSeq(fifo, 4, len + 3)
  <2> HIDE DEF type, len, bytes
  <2>1. len \in Nat
    BY <1>1
  <2> QED
    BY <1>2, <1>3, <2>1, PartOfPart
<1> HIDE DEF type, len, bytes
<1>6. IsPayload(type, SubSeq(bytes, 3, Len(bytes)))
  <2>1. IsPayload(type, SubSeq(fifo, 4, len + 3))
    BY <1>2a, <1>1 DEF PayloadsAreRight, DIRECT_TEST_MAX_PAYLOAD_LEN
  <2> QED
    BY <1>4, <2>1
<1> DEFINE packet == <<bytes, 2379 + freq>>
<1>7. packet # None /\ packet[1] = bytes /\ packet[2] = test[3]
  BY DEF None, Loaded
<1> HIDE DEF packet
<1>8. Len(bytes) = 2 + len
  BY <1>1, <1>4
<1>9. IsTest(packet, test)
  BY <1>4, <1>6, <1>7, <1>8 DEF IsTest, type, len
<1> QED
  BY <1>9 DEF packet, bytes, OnAir

LEMMA AirSteps ==
  ASSUME PayloadsAreRight, RadioInv, [Next]_vars, air' # air
  PROVE  \/ IsTest(air'.packet, told)
         \/ Waiting /\ IsTest(air'.packet, TellsOf(command, None))
<1>1. TimerEvent
  BY DEF Next, MainGoesOn, Main, RxGoesOn, TxGoesOn, Poll, Dispatch, StopRadio, AwaitStop,
     ClearRadio, InitRadio, LoadPacket, StartTransmitter, cmdCompleteEvent, uart0StartRxForIsr,
     UART0_RX_ISR, UART0_TX_ISR, RF_DTM_ISR, NewCommand, SendByte, ShiftOut, TaskStops,
     vars, radioVars
<1>2. unread /\ Repeats
  BY <1>1, EventFindsPacket
<1>3. air'.packet = OnAir
  BY <1>1, <1>2 DEF TimerEvent, OnAir
<1>4. CASE told # None /\ Loaded(told)
  <2>1. IsTest(OnAir, told)
    BY <1>4, AirOf
  <2> QED
    BY <1>3, <2>1
<1>5. CASE Waiting /\ Good(command) /\ Loaded(Tells) /\ command \in Commands
  <2>1. Tells # None
    BY <1>5, TellsWhat DEF Tells
  <2>2. IsTest(OnAir, Tells)
    BY <1>5, <2>1, AirOf
  <2> QED
    BY <1>3, <1>5, <2>2 DEF Tells
<1> QED
  BY <1>2, <1>4, <1>5 DEF Repeats, CarriedOut, Answered

(* A packet on the air is that of the test last accepted, or of the command     *)
(* that is being carried out, for any commands of two bytes, since the table    *)
(* and the constant bytes are those of the tests (PayloadsAreRight).            *)
THEOREM AirIsRight ==
  ASSUME PayloadsAreRight
  PROVE  Spec => AirIsAsTold
<1>1. IInv /\ [Next]_vars =>
        (air' # air => \/ IsTest(air'.packet, told)
                       \/ Waiting /\ IsTest(air'.packet, TellsOf(command, None)))
  BY AirSteps DEF IInv
<1> QED
  BY <1>1, InvHolds, PTL DEF Spec, AirIsAsTold
===============================================================================
