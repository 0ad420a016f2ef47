----------------------------- MODULE DirectTest ------------------------------
(* The direct test mode of miniBLE_dtm.c, with RF_DTM_ISR, miniBlePhyReset and  *)
(* miniBLEPhyLoadDTMPacket of miniBLE_phy.c: a tester sends commands of two     *)
(* bytes over the serial line and gets two bytes for each; the radio repeats a  *)
(* test packet at every event of timer 2 until it is told to stop.              *)
(*                                                                              *)
(* The main loop polls a flag that the receive interrupt sets, the reply is     *)
(* sent by the transmit interrupt, and the radio's interrupt has the packet     *)
(* sent again.  An interrupt handler is one step; a step of the main loop ends  *)
(* where what it did can be seen by a handler.  Three things are taken to be in *)
(* time: an idle transmitter takes a byte at once; the radio's handler, which   *)
(* has the highest priority, runs within the 1.25 ms of a timer event; and the  *)
(* main loop is not held up for three byte times between the start of its reply *)
(* and uart0StartRxForIsr.                                                      *)
EXTENDS Naturals, Sequences

CONSTANT Commands       \* bound: the commands of the tester, as pairs of bytes

ASSUME CommandsAssumption == Commands \subseteq (0..255) \X (0..255)

VARIABLES
    command, toSend, inbox,     \* the tester: last command, bytes left of it, its reply
    told,               \* the packet the answered commands have the radio repeat
    uartRxBuffer, uartRxIndex, uartPktReceived, URX0IF,
    uartTxBuffer, uartTxIndex, UTX0IF, UTX0IE,
    u0dbuf, shift,      \* the transmitter: a byte is a sequence of one
    pc, status,         \* the main loop
    RFIE, RFIRQM1, RFIRQF1, S1CON,      \* radio interrupts: enable, mask, flags, pending
    fifo,               \* the bytes loaded, if any
    unread,             \* the FIFO is at the start of the packet
    freq,
    task,               \* "none", "transmit" or "stopping"
    timer,              \* timer 2 sends its events to the radio
    air                 \* the packet sent last, and a bit to tell it from the one before

testerVars == <<command, toSend, inbox, told>>
rxVars == <<uartRxBuffer, uartRxIndex, uartPktReceived, URX0IF>>
txVars == <<uartTxBuffer, uartTxIndex, UTX0IF, UTX0IE, u0dbuf, shift>>
mainVars == <<pc, status>>
irqVars == <<RFIE, RFIRQM1, RFIRQF1, S1CON>>
radioVars == <<fifo, unread, freq, task, timer, air>>
vars == <<testerVars, rxVars, txVars, mainVars, irqVars, radioVars>>

LE_RESET_CMD == 0
LE_RECEIVER_TEST_CMD == 1
LE_TRANSMITTER_TEST_CMD == 2
LE_END_TEST_CMD == 3
CMD_SUCCESS == 0
CMD_FAILURE == 1
STATUS_ERROR_BAD_PARAMETER == 18
DIRECT_TEST_NUM_RF_CHANS == 40
DIRECT_TEST_MAX_PAYLOAD_LEN == 37
DIRECT_TEST_PAYLOAD_VENDOR == 3
SIZE_OF_UART_RX_BUFFER == 2
SIZE_OF_UART_TX_BUFFER == 2

None == <<>>

Decode_short(bytes) == [cmd |-> bytes[1] \div 64, txFreq |-> bytes[1] % 64,
                        dataLength |-> (bytes[2] \div 4) % 32, payloadType |-> bytes[2] % 4]

(* The fields of the two bytes of a command.                                    *)
Decode(bytes) == [cmd |-> bytes[1] \div 64, txFreq |-> bytes[1] % 64,
                  dataLength |-> (bytes[2] \div 4) % 64, payloadType |-> bytes[2] % 4]

BadParameter(c) == \/ c.txFreq >= DIRECT_TEST_NUM_RF_CHANS
                   \/ c.dataLength > DIRECT_TEST_MAX_PAYLOAD_LEN
                   \/ c.payloadType = DIRECT_TEST_PAYLOAD_VENDOR

Init ==
    /\ command = None /\ toSend = <<>> /\ inbox = <<>> /\ told = None
    /\ uartRxBuffer = <<0, 0>> /\ uartRxIndex = 0 /\ uartPktReceived = FALSE
    /\ URX0IF = FALSE
    /\ uartTxBuffer = <<0, 0>> /\ uartTxIndex = 0
    /\ UTX0IF = FALSE /\ UTX0IE = FALSE /\ u0dbuf = <<>> /\ shift = <<>>
    /\ pc = "loop" /\ status = CMD_SUCCESS
    /\ RFIE = FALSE /\ RFIRQM1 = {} /\ RFIRQF1 = {} /\ S1CON = FALSE
    /\ fifo = None /\ unread = FALSE /\ freq = 0 /\ task = "none" /\ timer = FALSE
    /\ air = [packet |-> None, beat |-> 0]

-------------------------------------------------------------------------------
(* The tester: a command, its two bytes, and then nothing before the reply.     *)

Waiting == command # None /\ Len(inbox) < 2

(* What the answered command means for the packets on the air: their type,      *)
(* their length and the channel, of 2 MHz each from 2402 MHz up.                *)
TellsOf(bytes, before) ==
    LET c == Decode(bytes)
    IN  CASE c.cmd = LE_END_TEST_CMD -> None
          [] c.cmd = LE_TRANSMITTER_TEST_CMD /\ ~BadParameter(c) ->
                 <<c.payloadType, c.dataLength, 2402 + 2 * c.txFreq>>
          [] OTHER -> before

NewCommand ==
    /\ ~Waiting /\ pc # "restart"
    /\ \E c \in Commands : command' = c /\ toSend' = c
    /\ inbox' = <<>>
    /\ UNCHANGED <<told, rxVars, txVars, mainVars, irqVars, radioVars>>

(* A byte arrives in U0DBUF; the handler runs before the next one, a byte time  *)
(* later.  "URX0IF" stands for the byte as well: it is the first of toSend.     *)
SendByte ==
    /\ toSend # <<>> /\ ~URX0IF
    /\ URX0IF' = TRUE
    /\ UNCHANGED <<testerVars, uartRxBuffer, uartRxIndex, uartPktReceived, txVars, mainVars,
                   irqVars, radioVars>>

-------------------------------------------------------------------------------
(* The serial port.                                                             *)

UART0_RX_ISR_third ==
    /\ URX0IF
    /\ URX0IF' = FALSE
    /\ toSend' = Tail(toSend)
    /\ uartRxBuffer' = [uartRxBuffer EXCEPT ![uartRxIndex + 1] = Head(toSend)]
    /\ IF uartRxIndex + 1 > SIZE_OF_UART_RX_BUFFER
       THEN uartRxIndex' = 0 /\ uartPktReceived' = TRUE
       ELSE uartRxIndex' = uartRxIndex + 1 /\ UNCHANGED uartPktReceived
    /\ UNCHANGED <<command, inbox, told, txVars, mainVars, irqVars, radioVars>>

UART0_RX_ISR ==
    /\ URX0IF
    /\ URX0IF' = FALSE
    /\ toSend' = Tail(toSend)
    /\ uartRxBuffer' = [uartRxBuffer EXCEPT ![uartRxIndex + 1] = Head(toSend)]
    /\ IF uartRxIndex + 1 >= SIZE_OF_UART_RX_BUFFER
       THEN uartRxIndex' = 0 /\ uartPktReceived' = TRUE
       ELSE uartRxIndex' = uartRxIndex + 1 /\ UNCHANGED uartPktReceived
    /\ UNCHANGED <<command, inbox, told, txVars, mainVars, irqVars, radioVars>>

(* The handler sets its own flag while bytes are left, and disables itself      *)
(* after the last.                                                              *)
UART0_TX_ISR ==
    /\ UTX0IF /\ UTX0IE
    /\ LET byte == <<uartTxBuffer[uartTxIndex + 1]>>
       IN  IF shift = <<>> THEN shift' = byte /\ UNCHANGED u0dbuf
                           ELSE u0dbuf' = byte /\ UNCHANGED shift
    /\ IF uartTxIndex + 1 >= SIZE_OF_UART_TX_BUFFER
       THEN uartTxIndex' = 0 /\ UTX0IE' = FALSE
       ELSE uartTxIndex' = uartTxIndex + 1 /\ UNCHANGED UTX0IE
    /\ UTX0IF' = (UTX0IE' \/ shift' # shift)
    /\ UNCHANGED <<testerVars, rxVars, uartTxBuffer, mainVars, irqVars, radioVars>>

(* A byte has left and reaches the tester; the next one moves up.               *)
ShiftOut ==
    /\ shift # <<>>
    /\ inbox' = inbox \o shift
    /\ told' = IF Len(inbox') = 2 THEN TellsOf(command, told) ELSE told
    /\ shift' = u0dbuf /\ u0dbuf' = <<>>
    /\ UTX0IF' = (UTX0IF \/ u0dbuf # <<>>)
    /\ UNCHANGED <<command, toSend, rxVars, uartTxBuffer, uartTxIndex, UTX0IE, mainVars,
                   irqVars, radioVars>>

-------------------------------------------------------------------------------
(* The main loop, miniBleDtmStart.                                              *)

cmd == Decode(uartRxBuffer)

Answers(s) == status' = s /\ pc' = "reply"

Poll == pc = "loop" /\ ~uartPktReceived /\ UNCHANGED vars

Dispatch ==
    /\ pc = "loop" /\ uartPktReceived
    /\ \/ cmd.cmd = LE_RESET_CMD /\ Answers(CMD_SUCCESS)
       \/ cmd.cmd = LE_RECEIVER_TEST_CMD /\ Answers(CMD_FAILURE)
       \/ cmd.cmd = LE_TRANSMITTER_TEST_CMD /\ BadParameter(cmd)
                                            /\ Answers(STATUS_ERROR_BAD_PARAMETER)
       \/ cmd.cmd = LE_TRANSMITTER_TEST_CMD /\ ~BadParameter(cmd)
                                            /\ pc' = "reset" /\ UNCHANGED status
       \/ cmd.cmd = LE_END_TEST_CMD /\ pc' = "reset" /\ UNCHANGED status
    /\ UNCHANGED <<testerVars, rxVars, txVars, irqVars, radioVars>>

StopRadio_idle ==
    /\ pc = "reset"
    /\ RFIE' = FALSE
    /\ pc' = "clear" /\ UNCHANGED task
    /\ UNCHANGED <<testerVars, rxVars, txVars, status, RFIRQM1, RFIRQF1, S1CON, fifo, unread,
                   freq, timer, air>>

(* miniBlePhyReset: stops a task that runs, and waits for its end.              *)
StopRadio ==
    /\ pc = "reset"
    /\ RFIE' = FALSE
    /\ IF task # "none" THEN task' = "stopping" /\ pc' = "stop"
                        ELSE pc' = "clear" /\ UNCHANGED task
    /\ UNCHANGED <<testerVars, rxVars, txVars, status, RFIRQM1, RFIRQF1, S1CON, fifo, unread,
                   freq, timer, air>>

AwaitStop ==
    /\ pc = "stop"
    /\ pc' = IF "TASKDONE" \in RFIRQF1 THEN "clear" ELSE pc
    /\ UNCHANGED <<testerVars, rxVars, txVars, status, irqVars, radioVars>>

ClearRadio ==
    /\ pc = "clear"
    /\ RFIRQF1' = {} /\ S1CON' = FALSE
    /\ fifo' = None /\ unread' = FALSE /\ freq' = 0 /\ timer' = FALSE
    /\ IF cmd.cmd = LE_END_TEST_CMD THEN Answers(CMD_SUCCESS)
                                    ELSE pc' = "init" /\ UNCHANGED status
    /\ UNCHANGED <<testerVars, rxVars, txVars, RFIE, RFIRQM1, task, air>>

(* The rest of miniBlePhyInit.                                                  *)
InitRadio ==
    /\ pc = "init"
    /\ RFIRQM1' = RFIRQM1 \cup {"TASKDONE"}
    /\ RFIE' = TRUE
    /\ pc' = "load"
    /\ UNCHANGED <<testerVars, rxVars, txVars, status, RFIRQF1, S1CON, radioVars>>

psbs9Data ==
    <<255, 193, 251, 232, 76, 144, 114, 139, 231, 179, 81, 137, 99, 171, 35, 35, 2, 132, 24,
      114, 170, 97, 47, 59, 81, 168, 229, 55, 73, 251, 201, 202, 12, 24, 83, 44, 253>>

(* The length of the entry is not sent.                                         *)
miniBLEPhyLoadDTMPacket(type, len) ==
    <<len + 2, type, len>> \o
    CASE type = 0 -> SubSeq(psbs9Data, 1, len)
      [] type = 1 -> [i \in 1..len |-> 240]
      [] type = 2 -> [i \in 1..len |-> 170]

(* With timer 2 and the frequency.                                              *)
LoadPacket ==
    /\ pc = "load"
    /\ fifo' = miniBLEPhyLoadDTMPacket(cmd.payloadType, cmd.dataLength)
    /\ unread' = TRUE
    /\ freq' = cmd.txFreq * 2 + 23
    /\ RFIRQM1' = {"TXDONE"}
    /\ pc' = "start"
    /\ UNCHANGED <<testerVars, rxVars, txVars, status, RFIE, RFIRQF1, S1CON, task, timer, air>>

StartTransmitter ==
    /\ pc = "start"
    /\ timer' = TRUE
    /\ task' = "transmit"
    /\ Answers(CMD_SUCCESS)
    /\ UNCHANGED <<testerVars, rxVars, txVars, irqVars, fifo, unread, freq, air>>

(* cmdCompleteEvent with uart0StartTxForIsr.                                    *)
cmdCompleteEvent ==
    /\ pc = "reply"
    /\ uartTxBuffer' = <<0, status>>
    /\ uartTxIndex' = 0
    /\ UTX0IF' = TRUE /\ UTX0IE' = TRUE
    /\ pc' = "restart"
    /\ UNCHANGED <<testerVars, rxVars, u0dbuf, shift, status, irqVars, radioVars>>

(* A byte that has come in is forgotten.                                        *)
uart0StartRxForIsr ==
    /\ pc = "restart"
    /\ uartPktReceived' = FALSE /\ uartRxIndex' = 0 /\ URX0IF' = FALSE
    /\ toSend' = IF URX0IF THEN Tail(toSend) ELSE toSend
    /\ pc' = "loop"
    /\ UNCHANGED <<command, inbox, told, uartRxBuffer, txVars, status, irqVars, radioVars>>

-------------------------------------------------------------------------------
(* The radio.                                                                   *)

Flag(f) == /\ RFIRQF1' = RFIRQF1 \cup {f}
           /\ S1CON' = (S1CON \/ f \in RFIRQM1)

(* An event of timer 2 starts the packet; one that was not rewound is empty and *)
(* ends the task.                                                               *)
TimerEvent ==
    /\ task = "transmit" /\ timer
    /\ ~(S1CON /\ RFIE)
    /\ unread' = FALSE
    /\ IF unread
       THEN /\ air' = [packet |-> <<SubSeq(fifo, 2, 1 + fifo[1]), 2379 + freq>>, beat |-> 1 - air.beat]
            /\ Flag("TXDONE") /\ UNCHANGED task
       ELSE /\ air' = [packet |-> None, beat |-> 1 - air.beat]
            /\ Flag("TASKDONE") /\ task' = "none"
    /\ UNCHANGED <<testerVars, rxVars, txVars, mainVars, RFIE, RFIRQM1, fifo, freq, timer>>

TaskStops ==
    /\ task = "stopping"
    /\ task' = "none"
    /\ Flag("TASKDONE")
    /\ UNCHANGED <<testerVars, rxVars, txVars, mainVars, RFIE, RFIRQM1, fifo, unread, freq,
                   timer, air>>

(* Any flag but TXDONE, and the handler never returns.                          *)
RF_DTM_ISR ==
    /\ S1CON /\ RFIE
    /\ "TXDONE" \in RFIRQF1
    /\ unread' = TRUE
    /\ RFIRQF1' = {} /\ S1CON' = FALSE
    /\ UNCHANGED <<testerVars, rxVars, txVars, mainVars, RFIE, RFIRQM1, fifo, freq, task,
                   timer, air>>

-------------------------------------------------------------------------------
Hung == S1CON /\ RFIE /\ "TXDONE" \notin RFIRQF1

Main == \/ Poll \/ Dispatch \/ StopRadio \/ AwaitStop \/ ClearRadio \/ InitRadio \/ LoadPacket
        \/ StartTransmitter \/ cmdCompleteEvent \/ uart0StartRxForIsr

MainGoesOn == ~Hung /\ Main
RxGoesOn == ~Hung /\ UART0_RX_ISR
TxGoesOn == ~Hung /\ UART0_TX_ISR

Next == \/ MainGoesOn \/ RxGoesOn \/ TxGoesOn \/ RF_DTM_ISR
        \/ NewCommand \/ SendByte \/ ShiftOut \/ TimerEvent \/ TaskStops

(* The chip runs, the lines carry bytes and a task that is told to stop stops.  *)
Spec == /\ Init /\ [][Next]_vars
        /\ WF_vars(MainGoesOn) /\ WF_vars(RxGoesOn) /\ WF_vars(TxGoesOn) /\ WF_vars(RF_DTM_ISR)
        /\ WF_vars(SendByte) /\ WF_vars(ShiftOut) /\ WF_vars(TaskStops)

-------------------------------------------------------------------------------
(* The reply to a command is that command's: a transmitter test is accepted if  *)
(* and only if its parameters are, whatever the interrupts do in between.       *)
ReplyIsRight ==
    Len(inbox) = 2 =>
        LET f == command[1] % 64    c == command[1] \div 64
            len == command[2] \div 4    type == command[2] % 4
        IN  inbox = <<0, CASE c = 1 -> 1
                           [] c = 2 /\ ~(f <= 39 /\ len <= 37 /\ type <= 2) -> 18
                           [] OTHER -> 0>>

(* The lowest bit goes first: bits of a byte 0, and of the register x^9 + x^5   *)
(* + 1 from all ones.                                                           *)
IsPayload(type, bytes) ==
    LET bit(n) == (bytes[1 + n \div 8] \div (2 ^ (n % 8))) % 2
    IN  \A n \in 0..(8 * Len(bytes) - 1) :
            bit(n) = CASE type = 0 -> IF n < 9 THEN 1 ELSE (bit(n - 9) + bit(n - 5)) % 2
                       [] type = 1 -> (n \div 4) % 2
                       [] type = 2 -> n % 2

(* So are the bytes of every test that is not refused.                          *)
PayloadsAreRight ==
    \A type \in 0..2, len \in 0..DIRECT_TEST_MAX_PAYLOAD_LEN :
        IsPayload(type, SubSeq(miniBLEPhyLoadDTMPacket(type, len), 4, len + 3))

IsTest(packet, test) ==
    /\ test # None /\ packet # None
    /\ packet[2] = test[3]
    /\ LET bytes == packet[1]
       IN  /\ Len(bytes) = 2 + test[2] /\ bytes[1] = test[1] /\ bytes[2] = test[2]
           /\ IsPayload(test[1], SubSeq(bytes, 3, Len(bytes)))

(* A packet on the air is that of the test last accepted, or of the command     *)
(* that is being carried out, bit by bit and on its channel: none follows the   *)
(* answer to LE_END_TEST_CMD, none is empty, and a new test does not send the   *)
(* old packet on its frequency.                                                 *)
AirIsAsTold ==
    [][air' # air => \/ IsTest(air'.packet, told)
                     \/ Waiting /\ IsTest(air'.packet, TellsOf(command, None))]_vars

(* Every command is answered, so the radio's handler never meets the flag it    *)
(* waits for ever at.                                                           *)
EveryCommandAnswered == Waiting ~> ~Waiting
==============================================================================
