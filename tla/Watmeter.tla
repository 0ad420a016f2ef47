------------------------------- MODULE Watmeter -------------------------------
(* The watt meter (apps/watmeter/src/main.c): the loop of main(), which sends    *)
(* each byte it hears on the RS485 line back.  A transceiver hears or drives the *)
(* line, as the direction pin says; the UART sends from a buffer, at its own     *)
(* pace.  The loop never ends: the tasks that emon_task_start and os_timer_start *)
(* have pushed before it are never run, and their measurement is not modelled.   *)
EXTENDS Naturals, Sequences

CONSTANTS Bytes,      \* what others send
          MaxBytes    \* bound: bytes on the line

VARIABLES pc,         \* "receive", "getchar", "transmit", "putchar", "sync"
          DIR,        \* GPIO_RS485_DIR: the transceiver drives the line
          c,          \* the byte taken
          rx, tx,     \* the buffers of the UART
          heard,      \* history: the bytes that came while the transceiver heard
          line        \* history: what the meter sent and the line carried

vars == <<pc, DIR, c, rx, tx, heard, line>>

Init == /\ pc = "receive" /\ DIR = FALSE /\ c = <<>>
        /\ rx = <<>> /\ tx = <<>> /\ heard = <<>> /\ line = <<>>

(* hal_uart_rs485_enable_tx(0) waits for hal_uart_sync before it lets the line go.*)
EnableRx == /\ pc = "receive" /\ tx = <<>>
            /\ pc' = "getchar" /\ DIR' = FALSE
            /\ UNCHANGED <<c, rx, tx, heard, line>>

GetChar == /\ pc = "getchar"
           /\ IF rx = <<>> THEN pc' = "receive" /\ UNCHANGED <<c, rx>>
                           ELSE pc' = "transmit" /\ c' = <<Head(rx)>> /\ rx' = Tail(rx)
           /\ UNCHANGED <<DIR, tx, heard, line>>

EnableTx == /\ pc = "transmit"
            /\ pc' = "putchar" /\ DIR' = TRUE
            /\ UNCHANGED <<c, rx, tx, heard, line>>

PutChar == /\ pc = "putchar"
           /\ pc' = "receive" /\ tx' = tx \o c /\ c' = <<>>
           /\ UNCHANGED <<DIR, rx, heard, line>>

(* The UART shifts a byte out; nobody hears it when the line is not driven.      *)
Sent == /\ tx # <<>>
        /\ tx' = Tail(tx)
        /\ line' = IF DIR THEN Append(line, Head(tx)) ELSE line
        /\ UNCHANGED <<pc, DIR, c, rx, heard>>

(* Another one sends a byte: lost while the meter drives the line.               *)
Arrives(b) == /\ Len(heard) < MaxBytes
              /\ ~DIR
              /\ rx' = Append(rx, b) /\ heard' = Append(heard, b)
              /\ UNCHANGED <<pc, DIR, c, tx, line>>

Next == \/ EnableRx \/ GetChar \/ EnableTx \/ PutChar \/ Sent
        \/ \E b \in Bytes : Arrives(b)

------------------------------------------------------------------------------
(* Every byte heard is on the line once, in order, or still on its way: the line *)
(* is never let go with a byte in the UART.                                      *)
EchoIsHeard == heard = line \o tx \o c \o rx
==============================================================================
