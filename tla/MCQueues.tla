------------------------------- MODULE MCQueues ------------------------------
(* The two byte buffers of the TI utilities, one at a time: the ring buffer of  *)
(* util_ring_buf.c, and that of util_buffer.c under the serial port, once with  *)
(* what it sends and once with what it receives.                                *)
EXTENDS Uart

CONSTANTS Size, MaxReq, MaxBytes, DmaLate       \* of RingBuf

ASSUME RingAssumption == /\ Size \in Nat \ {0}
                         /\ MaxReq \in Nat \ {0} /\ MaxBytes \in Nat
                         /\ DmaLate \in BOOLEAN

VARIABLES which, mem, head, tail, numStoredBytes, mainPushes, call, dma, held,
          ringPc, sent, out, seen

ringVars == <<mem, head, tail, numStoredBytes, mainPushes, call, dma, held, ringPc,
              sent, out, seen>>

Ring == INSTANCE RingBuf WITH pc <- ringPc

MCPrints == {printStr(1, TRUE), printStr(3, FALSE), printKvp(1, 8)}

MCInit == /\ which \in {"ring", "transmit", "receive"}
          /\ Init /\ Ring!Init
          /\ which = "receive" => driver # "polling"    \* which receives like "buffered"
          /\ which = "ring" => driver = "usb"
          /\ which # "ring" => mainPushes

MCNext == \/ which = "ring" /\ Ring!Next /\ UNCHANGED <<which, vars>>
          \/ which = "transmit" /\ Transmit /\ UNCHANGED <<which, ringVars>>
          \/ which = "transmit" /\ Idle /\ UNCHANGED <<which, vars, ringVars>>    \* prints no more
          \/ which = "receive" /\ Receive /\ UNCHANGED <<which, ringVars>>

MCSpec == MCInit /\ [][MCNext]_<<which, vars, ringVars>> /\ Fairness

(* The properties of the ring buffer, as RingBuf states them; and that each of  *)
(* the three buffers, the ring and the two of the serial port, is a ByteQueue.  *)
PointersAgree == Ring!TypeOK /\ Ring!PointersAgree
EveryBufferIsQueue == Ring!IsQueue /\ TxIsQueue /\ RxIsQueue
==============================================================================
