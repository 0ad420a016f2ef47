-------------------------------- MODULE Uart ---------------------------------
(* The serial port of the TI utilities: the byte buffers of util_buffer.c, the  *)
(* drivers hal_uart_cc8051.c (with and without HAL_UART_TX_POLLING) and         *)
(* hal_uart_usb.c above them, and the printing of util_uart.c.  Which driver is *)
(* built is chosen at the start.                                                *)
(*                                                                              *)
(* The buffers are shared by the main program and the interrupt handlers        *)
(* (ISRs).  A step of the main program is a critical section (halIntLock ..     *)
(* halIntUnlock) or one access to a register; an ISR is one step.  The          *)
(* transmitter is the chip's: U0DBUF holds the byte written last until the      *)
(* shift register is free, and UTX0IF is set when it has been taken over.       *)
(* Bytes are numbered in the order in which they are accepted.                  *)
EXTENDS Naturals, Sequences

CONSTANTS BUF_SIZE,
          Drivers,      \* of "buffered", "polling" and "usb"
          KVP_ALIGN,    \* the width of a key
          Prints,       \* bound: the calls of util_uart.c, as the lengths they write
          MaxOut, MaxIn \* bounds: the bytes written, and the bytes received

ASSUME SizeAssumption == BUF_SIZE \in Nat /\ BUF_SIZE > 1
ASSUME BoundAssumption == MaxOut \in Nat /\ MaxIn \in Nat
ASSUME PrintsAssumption == \A p \in Prints : p \in Seq(1..(BUF_SIZE - 1)) /\ p # <<>>
ASSUME DriverAssumption == Drivers \subseteq {"buffered", "polling", "usb"}

VARIABLES driver,
          rbTxBuf, rbRxBuf,     \* ringBuf_t
          todo,         \* lengths of the writes of a print that are still to come
          pc,           \* where the main program is in halUartWrite
          n,            \* bytes of this write that have been done
          u0dbuf, shift,        \* transmitter: a byte is a sequence of one
          UTX0IF, UTX0IE,
          written,      \* bytes accepted for sending so far
          left,         \* the bytes that left last
          URX0IF,       \* a byte waits in the receiver
          flow,         \* RTS: the peer may send
          received,     \* bytes accepted from the receiver so far
          got, peeked   \* what the last bufGet and bufPeek of the main program returned

txVars == <<rbTxBuf, todo, pc, n, u0dbuf, shift, UTX0IF, UTX0IE, written, left>>
rxVars == <<rbRxBuf, URX0IF, flow, received, got, peeked>>
vars == <<driver, txVars, rxVars>>

-------------------------------------------------------------------------------
(* util_buffer.c: operators on a ringBuf_t.                                     *)

Slots == 0..(BUF_SIZE - 1)

bufInit == [pData |-> [s \in Slots |-> 0], nBytes |-> 0, iHead |-> 0, iTail |-> 0]

Advance(i, k) == IF i + k < BUF_SIZE THEN i + k ELSE i + k - BUF_SIZE

Distance(i, j) == IF i <= j THEN j - i ELSE j + BUF_SIZE - i

Fits(buf, k) == buf.nBytes + k < BUF_SIZE

bufPut_uncounted(buf, first, k) ==
    IF ~Fits(buf, k) THEN buf
    ELSE [buf EXCEPT !.pData = [s \in Slots |-> IF Distance(buf.iTail, s) < k
                                                THEN first + Distance(buf.iTail, s)
                                                ELSE @[s]],
                     !.iTail = Advance(@, k),
                     !.nBytes = @ + 1]

(* All of the k bytes numbered from "first" on, or none of them.                *)
bufPut(buf, first, k) ==
    IF ~Fits(buf, k) THEN buf
    ELSE [buf EXCEPT !.pData = [s \in Slots |-> IF Distance(buf.iTail, s) < k
                                                THEN first + Distance(buf.iTail, s)
                                                ELSE @[s]],
                     !.iTail = Advance(@, k),
                     !.nBytes = @ + k]

Least(a, b) == IF a < b THEN a ELSE b

bufPeek(buf, k) == [i \in 1..Least(k, buf.nBytes) |-> buf.pData[Advance(buf.iHead, i - 1)]]

bufGet(buf, k) == [buf EXCEPT !.iHead = Advance(@, Least(k, buf.nBytes)),
                              !.nBytes = @ - Least(k, buf.nBytes)]

All(buf) == bufPeek(buf, buf.nBytes)

-------------------------------------------------------------------------------
halUartInit ==
    /\ driver \in Drivers
    /\ rbTxBuf = bufInit /\ rbRxBuf = bufInit
    /\ UTX0IF = (driver = "buffered")
    /\ UTX0IE = FALSE /\ URX0IF = FALSE
    /\ flow = TRUE

Init ==
    /\ halUartInit
    /\ todo = <<>> /\ pc = "idle" /\ n = 0
    /\ u0dbuf = <<>> /\ shift = <<>>
    /\ written = 0 /\ left = <<>>
    /\ received = 0 /\ got = <<>> /\ peeked = <<>>

Idle == pc = "idle" /\ todo = <<>>

(* util_uart.c: what a call writes, as the length of each halUartWrite.  A       *)
(* string that ends in a newline has a carriage return written after it; a key  *)
(* is padded with one blank less than its width has room for.                   *)
printChar == <<1>>
printStr(len, newline) == IF newline THEN <<len, 1>> ELSE <<len>>
printStrW(len, width) ==
    printStr(len, FALSE) \o [i \in 1..(IF len + 1 < width THEN width - len - 1 ELSE 0) |-> 1]
printHex(bits, indication) == printStr((bits \div 4) + (IF indication THEN 1 ELSE 0), FALSE)
printKvp(len, bits) == printStrW(len, KVP_ALIGN) \o printStr(2, FALSE)
                         \o printHex(bits, TRUE) \o printChar \o printChar

Total(lengths) ==
    LET sum[i \in 0..Len(lengths)] == IF i = 0 THEN 0 ELSE sum[i - 1] + lengths[i]
    IN  sum[Len(lengths)]

Call(lengths) ==
    /\ Idle
    /\ written + Total(lengths) <= MaxOut
    /\ todo' = lengths
    /\ UNCHANGED <<driver, rbTxBuf, pc, n, u0dbuf, shift, UTX0IF, UTX0IE, written, left,
                   rxVars>>

length == Head(todo)
WriteEnds == pc' = "idle" /\ n' = 0 /\ todo' = Tail(todo)

(* halUartBufferedWrite of hal_uart_cc8051.c: tries until the buffer takes the  *)
(* bytes, all at once, and then enables the interrupt.                          *)
BufferedPut ==
    /\ driver = "buffered" /\ pc = "idle" /\ todo # <<>>
    /\ rbTxBuf' = bufPut(rbTxBuf, written, length)
    /\ IF Fits(rbTxBuf, length) THEN written' = written + length /\ pc' = "enable"
                                ELSE UNCHANGED <<written, pc>>
    /\ UNCHANGED <<driver, todo, n, u0dbuf, shift, UTX0IF, UTX0IE, left, rxVars>>

EnableTx ==
    /\ pc = "enable"
    /\ UTX0IE' = TRUE
    /\ WriteEnds
    /\ UNCHANGED <<driver, rbTxBuf, u0dbuf, shift, UTX0IF, written, left, rxVars>>

(* halUartWrite with HAL_UART_TX_POLLING: one byte at a time.                   *)
PollingStart ==
    /\ driver = "polling" /\ pc = "idle" /\ todo # <<>>
    /\ UTX0IF' = FALSE
    /\ pc' = "store"
    /\ UNCHANGED <<driver, rbTxBuf, todo, n, u0dbuf, shift, UTX0IE, written, left, rxVars>>

PollingStore ==
    /\ pc = "store"
    /\ u0dbuf' = <<written>>
    /\ written' = written + 1
    /\ pc' = "wait"
    /\ UNCHANGED <<driver, rbTxBuf, todo, n, shift, UTX0IF, UTX0IE, left, rxVars>>

PollingWait ==
    /\ pc = "wait" /\ UTX0IF
    /\ UTX0IF' = FALSE
    /\ IF n + 1 < length THEN pc' = "store" /\ n' = n + 1 /\ UNCHANGED todo
                         ELSE WriteEnds
    /\ UNCHANGED <<driver, rbTxBuf, u0dbuf, shift, UTX0IE, written, left, rxVars>>

(* halUartBufferedWrite of hal_uart_usb.c: tries once.                          *)
UsbWrite ==
    /\ driver = "usb" /\ pc = "idle" /\ todo # <<>>
    /\ rbTxBuf' = bufPut(rbTxBuf, written, length)
    /\ written' = IF Fits(rbTxBuf, length) THEN written + length ELSE written
    /\ WriteEnds
    /\ UNCHANGED <<driver, u0dbuf, shift, UTX0IF, UTX0IE, left, rxVars>>

uart0TxISR ==
    /\ driver = "buffered" /\ UTX0IF /\ UTX0IE
    /\ UTX0IF' = FALSE
    /\ rbTxBuf' = bufGet(rbTxBuf, 1)
    /\ u0dbuf' = IF rbTxBuf.nBytes > 0 THEN bufPeek(rbTxBuf, 1) ELSE u0dbuf
    /\ UTX0IE' = (rbTxBuf'.nBytes # 0)
    /\ UNCHANGED <<driver, todo, pc, n, shift, written, left, rxVars>>

(* The transmitter.                                                             *)
Load ==
    /\ u0dbuf # <<>> /\ shift = <<>>
    /\ shift' = u0dbuf /\ u0dbuf' = <<>>
    /\ UTX0IF' = TRUE
    /\ UNCHANGED <<driver, rbTxBuf, todo, pc, n, UTX0IE, written, left, rxVars>>

ShiftOut ==
    /\ shift # <<>>
    /\ left' = shift /\ shift' = <<>>
    /\ UNCHANGED <<driver, rbTxBuf, todo, pc, n, u0dbuf, UTX0IF, UTX0IE, written, rxVars>>

(* usb_uart.c, which the repository does not hold, sends what is in the buffer. *)
UsbTake ==
    /\ driver = "usb"
    /\ \E k \in 1..rbTxBuf.nBytes : /\ left' = bufPeek(rbTxBuf, k)
                                    /\ rbTxBuf' = bufGet(rbTxBuf, k)
    /\ UNCHANGED <<driver, todo, pc, n, u0dbuf, shift, UTX0IF, UTX0IE, written, rxVars>>

-------------------------------------------------------------------------------
(* A byte comes in; one that the ISR has not fetched yet is lost to it.         *)
Arrive ==
    /\ driver # "usb" /\ flow /\ received < MaxIn
    /\ URX0IF' = TRUE
    /\ UNCHANGED <<driver, txVars, rbRxBuf, flow, received, got, peeked>>

Accept ==
    /\ rbRxBuf' = bufPut(rbRxBuf, received, 1)
    /\ received' = IF Fits(rbRxBuf, 1) THEN received + 1 ELSE received

(* A byte with a framing or parity error is dropped.                            *)
uart0RxISR ==
    /\ URX0IF
    /\ URX0IF' = FALSE
    /\ \/ Accept
       \/ UNCHANGED <<rbRxBuf, received>>
    /\ UNCHANGED <<driver, txVars, flow, got, peeked>>

UsbGive ==
    /\ driver = "usb" /\ flow /\ received < MaxIn
    /\ Accept
    /\ UNCHANGED <<driver, txVars, URX0IF, flow, got, peeked>>

halUartRead(k) ==
    /\ Idle
    /\ got' = bufPeek(rbRxBuf, k)
    /\ rbRxBuf' = bufGet(rbRxBuf, k)
    /\ UNCHANGED <<driver, txVars, URX0IF, flow, received, peeked>>

Look(k) ==
    /\ Idle
    /\ peeked' = bufPeek(rbRxBuf, k)
    /\ UNCHANGED <<driver, txVars, rbRxBuf, URX0IF, flow, received, got>>

bufFlush ==
    /\ Idle
    /\ rbRxBuf' = bufInit
    /\ UNCHANGED <<driver, txVars, URX0IF, flow, received, got, peeked>>

halUartEnableRxFlow(enable) ==
    /\ Idle
    /\ flow' = enable
    /\ UNCHANGED <<driver, txVars, rbRxBuf, URX0IF, received, got, peeked>>

-------------------------------------------------------------------------------
Write == BufferedPut \/ EnableTx \/ PollingStart \/ PollingStore \/ PollingWait \/ UsbWrite

(* The two directions have no variable in common.                               *)
Transmit == (\E p \in Prints : Call(p)) \/ Write \/ uart0TxISR \/ Load \/ ShiftOut \/ UsbTake

Receive == \/ Arrive \/ uart0RxISR \/ UsbGive
           \/ bufFlush
           \/ \E k \in 1..BUF_SIZE : halUartRead(k) \/ Look(k)
           \/ \E e \in BOOLEAN : halUartEnableRxFlow(e)

Next == Transmit \/ Receive

Spec == Init /\ [][Next]_vars

(* The main program goes on with the call it is in, an interrupt that is        *)
(* enabled and pending is served, and the line (or the USB host) takes bytes.   *)
Fairness == /\ WF_vars(Write) /\ WF_vars(uart0TxISR)
            /\ WF_vars(Load) /\ WF_vars(ShiftOut) /\ WF_vars(UsbTake)

-------------------------------------------------------------------------------
(* What the main program writes leaves in the order in which it was written,    *)
(* each byte once, whatever the ISR does between two of its steps: no byte      *)
(* written to U0DBUF runs over one that is still in it.                         *)
Tx == INSTANCE ByteQueue WITH
        Capacity <- BUF_SIZE + 1, MaxReq <- BUF_SIZE - 1,
        queue <- shift \o u0dbuf \o All(rbTxBuf), sent <- written, out <- left, seen <- <<>>
TxIsQueue == Tx!Spec

(* What the ISR accepts is what the main program reads and looks at, in order.  *)
Rx == INSTANCE ByteQueue WITH
        Capacity <- BUF_SIZE - 1, MaxReq <- BUF_SIZE,
        queue <- All(rbRxBuf), sent <- received, out <- got, seen <- peeked
RxIsQueue == Rx!Spec

Gone == IF left = <<>> THEN 0 ELSE left[Len(left)] + 1

(* A byte that halUartWrite accepted leaves, and no write of the polling driver *)
(* waits for ever.                                                              *)
AllIsSent == \A b \in 1..MaxOut : (driver # "buffered" /\ written >= b) ~> (Gone >= b)

==============================================================================
