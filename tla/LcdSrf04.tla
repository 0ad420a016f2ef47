------------------------------ MODULE LcdSrf04 ------------------------------
(***************************************************************************)
(* The two-line display and the two wires the driver toggles by hand to    *)
(* reach it (components/targets/common/hal_lcd_srf04.c).                    *)
(*                                                                         *)
(* A wire is high unless somebody holds it low: the driver the clock, the  *)
(* driver or the display the data.  An action is one change of a pin by    *)
(* the driver; the display, which is not in the repository, answers it at  *)
(* once as two-wire chips do: data falling while the clock is high starts  *)
(* a transfer, a rising clock shifts a bit in, and over the ninth clock    *)
(* the display holds the data low if it takes the byte, or, busy, lets it  *)
(* go.                                                                     *)
(*                                                                         *)
(* Lines and columns count as in the driver; characters are their codes.   *)
(***************************************************************************)
EXTENDS Integers, Sequences

CONSTANTS Lines,     \* texts written as lines, sequences of codes
          Chars,     \* characters written alone
          Columns,   \* where they are written
          Shapes,    \* shapes of special characters, eight rows each
          NoLine     \* the null pointer

VARIABLES pc,        \* which change of a pin is next
          todo,      \* the transfers the call still has to send
          i, k,      \* byte of the first of them, bit of that byte
          low,       \* the driver holds the data low
          clk,       \* the clock is high
          ack,       \* the display holds the data low
          bits, got  \* what the display has shifted in, what it has taken

driver == <<pc, todo, i, k>>
display == <<ack, bits, got>>
vars == <<driver, low, clk, display>>

-----------------------------------------------------------------------------
(* The calls: the transfers each function makes.                           *)

LCD_ADDR == 118            \* 0x76
REG_SEL_0 == 0
REG_SEL_1 == 64            \* 0x40
LCD_LINE_LENGTH == 16
LineAddr(line) == IF line = 1 THEN 128 ELSE 192

Transfer(reg, bytes) == <<LCD_ADDR, reg>> \o bytes

\* The arrows have codes of their own; the rest of the character set has the
\* high bit on top of ASCII, but for the few it has elsewhere.
lcdConvertChar(c) ==
  CASE c \in (32 .. 63 \ {36}) \cup 65 .. 90 \cup 97 .. 122 -> c + 128
    [] c = 36 -> 130  [] c = 64 -> 128  [] c = 91 -> 138  [] c = 93 -> 84
    [] c = 95 -> 90   [] c = 17 -> 32   [] c = 19 -> 48
    [] OTHER -> c

halLcdWriteChar(line, col, c) ==
  LET at == IF col > LCD_LINE_LENGTH THEN LCD_LINE_LENGTH - 1 ELSE col
  IN <<Transfer(REG_SEL_0, <<LineAddr(line) + at>>),
       Transfer(REG_SEL_1, <<lcdConvertChar(c)>>)>>

halLcdWriteSpecChar(line, col, index) == halLcdWriteChar(line, col, index)

halLcdWriteLine(line, text) ==
  IF text = NoLine THEN <<>>
  ELSE <<Transfer(REG_SEL_0, <<LineAddr(line)>>),
         Transfer(REG_SEL_1,
           [n \in 1 .. LCD_LINE_LENGTH |->
              lcdConvertChar(IF n <= Len(text) THEN text[n] ELSE 32)])>>

\* The third line is ignored.
halLcdWriteLines(line1, line2) == halLcdWriteLine(1, line1) \o halLcdWriteLine(2, line2)

halLcdClear == halLcdWriteLines(NoLine, NoLine)

halLcdInit ==
  <<Transfer(REG_SEL_0, <<12, 33, 160, 7, 52, 1>>)>> \o halLcdClear

\* The seventh bit of the address goes ahead of the other six.
halLcdCreateSpecChar(index, shape) ==
  LET address == 8 + index * 8
  IN <<Transfer(REG_SEL_0, <<IF address < 64 THEN 128 ELSE 192, 64 + (address % 64)>>),
       Transfer(REG_SEL_1, shape)>>

Calls == {halLcdInit, halLcdClear}
  \cup {halLcdWriteLines(s, t) : s \in Lines \cup {NoLine}, t \in Lines \cup {NoLine}}
  \cup {halLcdWriteChar(n, col, c) : n \in {1, 2}, col \in Columns, c \in Chars}
  \cup {halLcdWriteSpecChar(n, 0, 7) : n \in {1, 2}}
  \cup {halLcdCreateSpecChar(n, s) : n \in {0, 7}, s \in Shapes}

-----------------------------------------------------------------------------
(* The display.                                                            *)

\* Eight bits, the first of them the highest.
Byte(b) == 128 * b[1] + 64 * b[2] + 32 * b[3] + 16 * b[4] + 8 * b[5] + 4 * b[6]
           + 2 * b[7] + b[8]

\* The wires become these: the data held low by the driver or not, the clock
\* high or not.
Wires(newLow, newClk) ==
  LET sda == ~low /\ ~ack
      newSda == ~newLow /\ ~ack
  IN /\ low' = newLow /\ clk' = newClk
     /\ \/ /\ clk /\ newClk /\ sda /\ ~newSda           \* START
           /\ bits' = <<>> /\ got' = <<>> /\ ack' = FALSE
        \/ /\ ~clk /\ newClk                            \* a bit
           /\ bits' = Append(bits, IF newSda THEN 1 ELSE 0)
           /\ UNCHANGED <<got, ack>>
        \/ /\ clk /\ ~newClk /\ Len(bits) = 8
           /\ ack' \in BOOLEAN                          \* takes it, or is busy
           /\ UNCHANGED <<bits, got>>
        \/ /\ clk /\ ~newClk /\ Len(bits) = 9
           /\ ack' = FALSE
           /\ bits' = <<>>
           /\ got' = IF ack THEN Append(got, Byte(bits)) ELSE got
        \/ /\ \/ clk /\ ~newClk /\ Len(bits) < 8
              \/ ~clk /\ ~newClk
              \/ clk /\ newClk /\ ~(sda /\ ~newSda)
           /\ UNCHANGED display

-----------------------------------------------------------------------------
(* The driver, a change of a pin at a time.                                *)

Init ==
  /\ pc = "rest" /\ todo = <<>> /\ i = 1 /\ k = 7
  /\ low = FALSE /\ clk = TRUE
  /\ ack = FALSE /\ bits = <<>> /\ got = <<>>

Call(transfers) ==
  /\ pc = "rest"
  /\ todo' = transfers
  /\ pc' = IF transfers = <<>> THEN "rest" ELSE "start"
  /\ i' = 1 /\ k' = 7
  /\ UNCHANGED <<low, clk, display>>

At(here, there) == pc = here /\ pc' = there

SmbStart ==
  \/ /\ At("start", "clockLow")
     /\ ~low /\ ~ack /\ clk              \* waits for data and clock high
     /\ Wires(TRUE, TRUE)
     /\ UNCHANGED <<todo, i, k>>
  \/ /\ At("clockLow", "bit")
     /\ Wires(low, FALSE)
     /\ UNCHANGED <<todo, i, k>>

\* Bit k of byte i.
SmbWrite ==
  \/ At("bit", "data") /\ Wires(low, FALSE) /\ UNCHANGED <<todo, i, k>>
  \/ At("data", "clockHigh") /\ Wires((Head(todo)[i] \div 2 ^ k) % 2 = 0, clk)
     /\ UNCHANGED <<todo, i, k>>
  \/ /\ At("clockHigh", IF k = 0 THEN "ackLow" ELSE "bit")
     /\ Wires(low, TRUE)
     /\ k' = IF k = 0 THEN 7 ELSE k - 1
     /\ UNCHANGED <<todo, i>>

\* Mutant: the data is not let go before the ninth clock.
SmbSendByte_held ==
  \/ At("ackLow", "ackClock") /\ Wires(low, FALSE) /\ UNCHANGED <<todo, i, k>>
  \/ At("ackClock", "ackRead") /\ Wires(low, TRUE) /\ UNCHANGED <<todo, i, k>>
  \/ /\ pc = "ackRead"
     /\ IF low \/ ack
          THEN IF i < Len(Head(todo)) THEN pc' = "bit" /\ i' = i + 1
                                      ELSE pc' = "stop" /\ i' = 1
          ELSE pc' = "bit" /\ UNCHANGED i
     /\ UNCHANGED <<todo, k, low, clk, display>>

\* The ninth clock: the byte is sent again until it is taken.
SmbSendByte ==
  \/ At("ackLow", "ackData") /\ Wires(low, FALSE) /\ UNCHANGED <<todo, i, k>>
  \/ At("ackData", "ackClock") /\ Wires(FALSE, clk) /\ UNCHANGED <<todo, i, k>>
  \/ At("ackClock", "ackRead") /\ Wires(low, TRUE) /\ UNCHANGED <<todo, i, k>>
  \/ /\ pc = "ackRead"
     /\ IF low \/ ack
          THEN IF i < Len(Head(todo)) THEN pc' = "bit" /\ i' = i + 1
                                      ELSE pc' = "stop" /\ i' = 1
          ELSE pc' = "bit" /\ UNCHANGED i
     /\ UNCHANGED <<todo, k, low, clk, display>>

Ended == /\ todo' = Tail(todo)
         /\ pc' = IF Len(todo) = 1 THEN "rest" ELSE "start"
         /\ UNCHANGED <<i, k>>

\* Meant to end the transfer, this lets the data rise while the clock is low:
\* the display sees one more bit, and the transfer ends at the next START.
SmbStop ==
  \/ /\ At("stop", "stopData")
     /\ (low \/ ack) /\ clk              \* waits for data low and clock high
     /\ Wires(low, FALSE) /\ UNCHANGED <<todo, i, k>>
  \/ At("stopData", "stopClock") /\ Wires(FALSE, clk) /\ UNCHANGED <<todo, i, k>>
  \/ pc = "stopClock" /\ Wires(low, TRUE) /\ Ended

Bus == SmbStart \/ SmbWrite \/ SmbSendByte \/ SmbStop
Next == Bus \/ \E c \in Calls : Call(c)

Spec == Init /\ [][Next]_vars

-----------------------------------------------------------------------------
(* What the calls promise.                                                 *)

\* The display takes each transfer whole and in order, every byte once, however
\* often it was busy: at the end of a transfer it has exactly these bytes, and
\* until then no other.
TransferIsTaken ==
  /\ pc \in {"bit", "data", "clockHigh", "ackLow", "ackData", "ackClock", "ackRead", "stop"}
       => Len(got) <= Len(Head(todo)) /\ got = SubSeq(Head(todo), 1, Len(got))
  /\ pc \in {"stopData", "stopClock"} => got = Head(todo)
=============================================================================
