-------------------------------- MODULE Lcd --------------------------------
(***************************************************************************)
(* The text display: the driver of the three-line module                   *)
(* (components/targets/common/hal_lcd_srf05.c) and the functions built on  *)
(* it (components/utils/util_lcd.c, convInt32ToText of util.c).            *)
(*                                                                         *)
(* The controller keeps one address counter for three memories: the        *)
(* characters, the shapes of eight symbols, and the icons with the         *)
(* contrast.  Every byte written goes where the counter points and moves   *)
(* it on, so each function must set the counter before it writes.  One     *)
(* thread draws, so a call is one action; what it sends, byte by byte, is  *)
(* applied to the controller in order.                                     *)
(*                                                                         *)
(* Characters are strings; the symbol i is the character Symbol[i].        *)
(***************************************************************************)
EXTENDS Integers, FiniteSets, Sequences
LOCAL INSTANCE SequencesExt

CONSTANTS Texts,     \* texts the application writes
          Prints,    \* texts for utilPrintText, "\n" being the newline;
                     \* at most two of them, for its li[] has three entries
          Values,    \* numbers it shows
          Shapes,    \* shapes it gives to symbols
          MenuItems, \* the texts of a menu, as a sequence
          NoText,    \* the null pointer
          MaxCalls   \* bound: calls after halLcdInit

VARIABLES lcd,       \* the controller: dd, cg, icon, and the counter ram, at
          on,        \* halLcdInit has run
          index,     \* the item utilMenuSelect shows, or -1 outside of it
          calls,     \* how many there were, for the bound
          call       \* the last one, for the properties

vars == <<lcd, on, index, calls, call>>

LCD_LINE_COUNT == 3
LCD_LINE_LENGTH == 16
CONTRAST_CTRL_REGISTER == 16
Cells == LCD_LINE_COUNT * LCD_LINE_LENGTH
Blank == <<"blank", 0>>   \* a row of no dots
Symbol == <<"s0", "s1", "s2", "s3", "s4", "s5", "s6", "s7">>

-----------------------------------------------------------------------------
(* The controller, from how the driver uses it.                            *)

Address(ram, a) == [is |-> "address", ram |-> ram, at |-> a]
Data(t) == [is |-> "data", bytes |-> t]
Mode == [is |-> "mode"]

Chip(l, op) ==
  CASE op.is = "address" -> [l EXCEPT !.ram = op.ram, !.at = op.at]
    [] op.is = "mode"    -> l
    [] op.is = "data"    ->
         [l EXCEPT ![l.ram] = [a \in DOMAIN @ |->
                                 IF a - l.at + 1 \in DOMAIN op.bytes
                                   THEN op.bytes[a - l.at + 1] ELSE @[a]],
                   !.at = @ + Len(op.bytes)]

-----------------------------------------------------------------------------
(* The driver: the bytes each function sends.                              *)

SET_DDRAM_ADDR(a) == Address("dd", a)

SET_GCRAM_CHAR(i) == Address("cg", i * 8)
SET_ICONRAM_ADDR(a) == Address("icon", a)

Padded(t) == [n \in 1 .. LCD_LINE_LENGTH |-> IF n <= Len(t) THEN t[n] ELSE " "]

At(line, col) == (line - 1) * LCD_LINE_LENGTH + col

lcdWriteLine(line, t) == <<SET_DDRAM_ADDR(At(line, 0)), Data(t)>>

halLcdClear == <<SET_DDRAM_ADDR(0), Data([n \in 1 .. Cells |-> " "])>>
halLcdSetContrast(v) == <<SET_ICONRAM_ADDR(CONTRAST_CTRL_REGISTER), Data(<<v>>)>>
halLcdWriteChar(line, col, c) == <<SET_DDRAM_ADDR(At(line, col)), Data(<<c>>)>>
halLcdWriteLine(line, t) == IF t = NoText THEN <<>> ELSE lcdWriteLine(line, Padded(t))
halLcdWriteLines(t1, t2, t3) ==
  halLcdWriteLine(1, t1) \o halLcdWriteLine(2, t2) \o halLcdWriteLine(3, t3)
halLcdClearAllSpecChars == <<SET_GCRAM_CHAR(0), Data([n \in 1 .. 64 |-> Blank])>>
halLcdCreateSpecChar(i, shape) ==
  <<SET_GCRAM_CHAR(i), Data([n \in 1 .. 8 |-> <<shape, n>>])>>
halLcdWriteSpecChar(line, col, i) == halLcdWriteChar(line, col, Symbol[i + 1])

halLcdInit ==
  <<Mode>> \o halLcdSetContrast(15) \o <<Mode, Mode, Mode>>
  \o halLcdClear \o halLcdClearAllSpecChars \o <<Mode>>

\* The digits come out last first and are turned round.
Digit == <<"0", "1", "2", "3", "4", "5", "6", "7", "8", "9">>
convInt32ToText(v) ==
  LET size == IF v < 0 THEN -v ELSE v
      back[n \in 0 .. size] ==
        IF n < 10 THEN <<Digit[n + 1]>> ELSE <<Digit[(n % 10) + 1]>> \o back[n \div 10]
  IN Reverse(back[size] \o (IF v < 0 THEN <<"-">> ELSE <<>>))

\* The line of a value between two texts, and of two counters.
ValueText(left, v, right) == Padded(left \o convInt32ToText(v) \o right)
CountersText(lc, lv, rc, rv) ==
  LET six(v) == SubSeq(Padded(convInt32ToText(v)), 1, 6)
  IN <<lc, "=">> \o six(lv) \o <<rc, "=">> \o six(rv)

halLcdDisplayValue(line, left, v, right) == lcdWriteLine(line, ValueText(left, v, right))
halLcdDisplayCounters(line, lc, lv, rc, rv) == lcdWriteLine(line, CountersText(lc, lv, rc, rv))

HexText(v) ==
  LET digit(n) == <<"0", "1", "2", "3", "4", "5", "6", "7",
                    "8", "9", "A", "B", "C", "D", "E", "F">>[((v \div (16 ^ n)) % 16) + 1]
  IN <<"0", "x", digit(3), digit(2), digit(1), digit(0)>>
HexChars(line, v) ==
  FlattenSeq([n \in 1 .. 6 |-> halLcdWriteChar(line, n - 1, HexText(v)[n])])

\* The driver's own number function: left aligned, and nothing is blanked.
halLcdDisplayUint16(line, hex, v) ==
  LET t == convInt32ToText(v)
  IN IF hex THEN HexChars(line, v)
     ELSE FlattenSeq([n \in DOMAIN t |-> halLcdWriteChar(line, n - 1, t[n])])

-----------------------------------------------------------------------------
(* util_lcd.c: what is built on the driver.                                *)

Maker == <<" ", " ", " ", "T", "I", " ", "L", "P", "W">>

utilPrintLogo(name) ==
  LET chip == <<" ", " ", " ", "C", "C", "2", "5", "4", "1", " ", "(", "1", ")">>
      app  == <<" ", " ", " ">> \o (IF Len(name) + 3 <= LCD_LINE_LENGTH THEN name ELSE <<>>)
  IN FlattenSeq([i \in 1 .. 4 |-> halLcdCreateSpecChar(i - 1, "logo")])
     \o halLcdWriteLines(chip, app, Maker)
     \o halLcdWriteSpecChar(1, 0, 0) \o halLcdWriteSpecChar(2, 0, 1)
     \o halLcdWriteSpecChar(1, 1, 2) \o halLcdWriteSpecChar(2, 1, 3)

\* The n-th smallest number in S.
Nth(S, n) == CHOOSE i \in S : Cardinality({j \in S : j <= i}) = n

\* Mutant: the search for newlines stops at the length of one line.
Breaks_line(t, n) == {i \in 1 .. Len(t) : t[i] = "\n" /\ i <= n /\ i <= LCD_LINE_LENGTH}

\* Where the first n characters, or as many as the display holds, are broken;
\* the last piece runs to the end of the text.
Breaks(t, n) == {i \in 1 .. Len(t) : t[i] = "\n" /\ i <= n /\ i <= Cells}

utilPrintText(t, n) ==
  LET br    == [k \in 1 .. Cardinality(Breaks(t, n)) |-> Nth(Breaks(t, n), k)]
      li    == <<0>> \o br
      end   == br \o <<Len(t) + 1>>
  IN FlattenSeq([k \in 1 .. Len(li) |-> halLcdWriteLine(k, SubSeq(t, li[k] + 1, end[k] - 1))])

utilLoadBarGraph == FlattenSeq([i \in 1 .. 8 |-> halLcdCreateSpecChar(i - 1, "bar")])

utilDisplayBarGraph(line, col, least, v) ==
  IF v <= least THEN halLcdWriteChar(line, col, " ")
  ELSE IF v >= least + 8 THEN halLcdWriteSpecChar(line, col, 7)
  ELSE halLcdWriteSpecChar(line, col, v - least - 1)

utilLcdDisplayValue(line, left, v, right) == halLcdWriteLine(line, ValueText(left, v, right))
utilLcdDisplayCounters(line, lc, lv, rc, rv) ==
  halLcdWriteLine(line, CountersText(lc, lv, rc, rv))

\* Right aligned in five columns, from the last digit back.
utilLcdDisplayUint16(line, hex, v) ==
  LET t == convInt32ToText(v)
  IN IF hex THEN HexChars(line, v)
     ELSE FlattenSeq([n \in 1 .. 5 |->
            halLcdWriteChar(line, 5 - n, IF n <= Len(t) THEN t[Len(t) + 1 - n] ELSE " ")])

ShowItem(i) ==
  halLcdWriteLine(2, MenuItems[i + 1]) \o halLcdWriteChar(3, 0, "<")
  \o halLcdWriteChar(3, LCD_LINE_LENGTH - 1, ">")

-----------------------------------------------------------------------------
Init ==
  /\ lcd = [dd |-> [a \in 0 .. Cells - 1 |-> "?"], cg |-> [a \in 0 .. 63 |-> <<"?", 0>>],
            icon |-> [a \in {CONTRAST_CTRL_REGISTER} |-> 0], ram |-> "dd", at |-> 0]
  /\ on = FALSE
  /\ index = -1
  /\ calls = 0
  /\ call = [of |-> "none"]

Send(ops) == lcd' = FoldLeft(Chip, lcd, ops)

Start ==
  /\ ~on /\ on' = TRUE
  /\ Send(halLcdInit)
  /\ call' = [of |-> "clear"]
  /\ UNCHANGED <<index, calls>>

Draw(c, ops) ==
  /\ on /\ index = -1 /\ calls < MaxCalls
  /\ calls' = calls + 1
  /\ Send(ops)
  /\ call' = c
  /\ UNCHANGED <<on, index>>

Lines == 1 .. LCD_LINE_COUNT

Clear == Draw([of |-> "clear"], halLcdClear \o halLcdClearAllSpecChars)
Contrast == Draw([of |-> "nothing"], halLcdSetContrast(1))
Char == \E l \in Lines, c \in {0, LCD_LINE_LENGTH - 1} :
          Draw([of |-> "put", line |-> l, col |-> c, text |-> <<"x">>], halLcdWriteChar(l, c, "x"))
Write == \E l \in Lines, t \in Texts :
           Draw([of |-> "line", line |-> l, text |-> t], halLcdWriteLine(l, t))
Value == \E l \in Lines, v \in Values, t \in Texts :
           LET c == [of |-> "line", line |-> l, text |-> t \o convInt32ToText(v) \o t]
           IN Draw(c, halLcdDisplayValue(l, t, v, t)) \/ Draw(c, utilLcdDisplayValue(l, t, v, t))
Counters == \E l \in Lines, v, w \in Values :
              LET c == [of |-> "counters", line |-> l, left |-> v, right |-> w]
              IN \/ Draw(c, halLcdDisplayCounters(l, "L", v, "R", w))
                 \/ Draw(c, utilLcdDisplayCounters(l, "L", v, "R", w))
Number == \E l \in Lines, v \in {u \in Values : u \in 0 .. 65535} :
            \/ Draw([of |-> "put", line |-> l, col |-> 0, text |-> convInt32ToText(v)],
                    halLcdDisplayUint16(l, FALSE, v))
            \/ Draw([of |-> "number", line |-> l, value |-> v], utilLcdDisplayUint16(l, FALSE, v))
            \/ LET c == [of |-> "put", line |-> l, col |-> 0, text |-> HexText(v)]
               IN \/ Draw(c, halLcdDisplayUint16(l, TRUE, v))
                  \/ Draw(c, utilLcdDisplayUint16(l, TRUE, v))
Shape == \E i \in {0, 7}, s \in Shapes :
           Draw([of |-> "shape", first |-> i, last |-> i, shape |-> s], halLcdCreateSpecChar(i, s))
Bars == Draw([of |-> "shape", first |-> 0, last |-> 7, shape |-> "bar"], utilLoadBarGraph)
Bar == \E l \in Lines, v \in {2, 3, 10, 11} :
         Draw([of |-> "bar", line |-> l, value |-> v], utilDisplayBarGraph(l, 5, 2, v))
\* "no longer than (LCD_LINE_LENGTH - 5)"
Logo == \E t \in {u \in Texts : Len(u) <= LCD_LINE_LENGTH - 5} :
          Draw([of |-> "logo", name |-> t], utilPrintLogo(t))
PrintText == \E t \in Prints : Draw([of |-> "print", text |-> t], utilPrintText(t, Len(t)))

-----------------------------------------------------------------------------
(* utilMenuSelect: the joystick moves, the button chooses.                 *)

Item(i) ==
  /\ index' = i
  /\ Send(ShowItem(i))
  /\ call' = [of |-> "menu"]
  /\ UNCHANGED <<on, calls>>

MenuStart == on /\ index = -1 /\ Item(0)
MenuRight == index # -1 /\ Item((index + 1) % Len(MenuItems))
MenuLeft == index # -1 /\ Item(IF index = 0 THEN Len(MenuItems) - 1 ELSE index - 1)
MenuPush == /\ index # -1 /\ index' = -1
            /\ call' = [of |-> "nothing"]
            /\ UNCHANGED <<lcd, on, calls>>

Next == Start \/ Clear \/ Contrast \/ Char \/ Write \/ Value \/ Counters \/ Number
        \/ Shape \/ Bars \/ Bar \/ Logo \/ PrintText
        \/ MenuStart \/ MenuRight \/ MenuLeft \/ MenuPush

Spec == Init /\ [][Next]_vars

-----------------------------------------------------------------------------
(* What the user sees.                                                     *)

Shown(l) == [line \in Lines |-> [c \in 1 .. LCD_LINE_LENGTH |-> l.dd[At(line, c - 1)]]]
Drawn(l) == [i \in 0 .. 7 |-> [n \in 1 .. 8 |-> l.cg[i * 8 + n - 1]]]

\* t over the line s, from column col.
Over(s, col, t) == [c \in 1 .. LCD_LINE_LENGTH |->
                      IF c - col \in DOMAIN t THEN t[c - col] ELSE s[c]]

Bar5(v) == IF v <= 2 THEN " " ELSE Symbol[IF v >= 10 THEN 8 ELSE v - 2]

\* What a call asks of the lines s, in the words of hal_lcd.h and util_lcd.c.
Wanted(s, c) ==
  CASE c.of = "clear"  -> [l \in Lines |-> Padded(<<>>)]
    [] c.of \in {"none", "nothing", "shape"} -> s
    [] c.of = "put"    -> [s EXCEPT ![c.line] = Over(@, c.col, c.text)]
    [] c.of = "line"   -> [s EXCEPT ![c.line] = Padded(c.text)]
    [] c.of = "number" ->
         [s EXCEPT ![c.line] = LET t == convInt32ToText(c.value)
                               IN Over(Over(@, 0, <<" ", " ", " ", " ", " ">>), 5 - Len(t), t)]
    [] c.of = "counters" ->
         [s EXCEPT ![c.line] =
            LET six(v) == SubSeq(Padded(convInt32ToText(v)), 1, 6)
            IN Over(Over(<<"L", "=">> \o SubSeq(Padded(<<>>), 1, 14), 2, six(c.left)), 8,
                    <<"R", "=">> \o six(c.right))]
    [] c.of = "bar"    -> [s EXCEPT ![c.line] = Over(@, 5, <<Bar5(c.value)>>)]
    [] c.of = "logo"   ->
         [s EXCEPT ![1] = Padded(<<"s0", "s2", " ", "C", "C", "2", "5", "4", "1", " ", "(", "1", ")">>),
                   ![2] = Padded(<<"s1", "s3", " ">> \o c.name),
                   ![3] = Padded(Maker)]
    [] c.of = "print"  ->
         [l \in Lines |->
            LET before(i) == Cardinality({j \in 1 .. i - 1 : c.text[j] = "\n"})
                mine == {i \in DOMAIN c.text : c.text[i] # "\n" /\ before(i) = l - 1}
            IN IF \E i \in 0 .. Len(c.text) : before(i + 1) = l - 1
                 THEN Padded([n \in 1 .. Cardinality(mine) |-> c.text[Nth(mine, n)]])
                 ELSE s[l]]
    [] c.of = "menu"   ->
         [s EXCEPT ![2] = Padded(MenuItems[index' + 1]),
                   ![3] = Over(Over(@, 0, <<"<">>), LCD_LINE_LENGTH - 1, <<">">>)]

\* Every call leaves the lines as it promises and no other cell touched,
\* whatever was drawn before it and wherever that left the address counter.
ScreenStep == Shown(lcd') = Wanted(Shown(lcd), call')

\* The shape of a symbol is the one last given to it: drawing, clearing lines
\* and the contrast never reach the memory of the shapes.
SymbolsStep ==
  on => Drawn(lcd') =
    [i \in 0 .. 7 |->
       IF call'.of = "shape" /\ i \in call'.first .. call'.last
          THEN [n \in 1 .. 8 |-> <<call'.shape, n>>]
       ELSE IF call'.of = "clear" THEN [n \in 1 .. 8 |-> Blank]
       ELSE IF call'.of = "logo" /\ i \in 0 .. 3 THEN [n \in 1 .. 8 |-> <<"logo", n>>]
       ELSE Drawn(lcd)[i]]

DisplayIsAsCalled == [][ScreenStep /\ SymbolsStep]_vars
=============================================================================
