------------------------------ MODULE MCDrivers ------------------------------
(***************************************************************************)
(* The drivers of the board and the menus, one at a time, each in the      *)
(* hands of the one thread that calls it: menus, three-line display,       *)
(* two-line display, timers, humidity sensor, diodes, the way of a         *)
(* temperature, flash, clocks and power modes.                             *)
(*                                                                         *)
(* The menus are a plain one that opens two others, an option menu, and a  *)
(* plain menu that both open; of up to five screens of two items, the      *)
(* disabled items leaving a first, a middle and a last screen, and two in  *)
(* a row, with no enabled item.                                            *)
(***************************************************************************)
EXTENDS MenuSystem, TimerConstants, TLC

CONSTANTS main, options, list, NoText, MaxDraws, MaxRuns,
  LineTexts, LineChars, LineColumns, LineShapes,              \* of LcdSrf04
  Banks, PagesPerBank, HighUnit, NamedPages, Ones, Buffers, FlashCalls   \* of Flash

VARIABLES which,
  lcd, on, index, draws, call,                                \* Lcd
  lPc, todo, lI, lK, low, clk, ack, bits, got,                \* LcdSrf04
  fine, coarse, per, ovfPer, cmp, running, irqm, irqf, ie,    \* Timer2
  RadioTimeoutFlag, st, sleepTime1, napping, slept, calls, asked,
  hPc, xfer, aa, success, hBuf, run, sensor,                  \* Humidity
  DIR, SEL, dP, APCFG, dPc, dIx, volts, dBuf,                 \* DiodeTemp
  master, tPc, tTodo, byte, tN, data, wireSensor, room, vbat, \* TempPath
  struck, rounds, deviceAddress, seqn, advData, fifo, shown,
  flash, MEMCTR, FADDR, FCTL, desc, DMAARM, DMAIF0, EA,       \* Flash
  fPc, args, fBuf, before, fCalls,
  cmd, sta, mode, lle, now, compare, stif, stie, armed,       \* PowerModes
  late, pPc

lcdVars == <<lcd, on, index, draws, call>>
wireVars == <<lPc, todo, lI, lK, low, clk, ack, bits, got>>
timerVars == <<fine, coarse, per, ovfPer, cmp, running, irqm, irqf, ie, RadioTimeoutFlag,
               st, sleepTime1, napping, slept, calls, asked>>
humiVars == <<hPc, xfer, aa, success, hBuf, run, sensor>>
diodeVars == <<DIR, SEL, dP, APCFG, dPc, dIx, volts, dBuf>>
tempVars == <<master, tPc, tTodo, byte, tN, data, wireSensor, room, vbat, struck, rounds,
              deviceAddress, seqn, advData, fifo, shown>>
flashVars == <<flash, MEMCTR, FADDR, FCTL, desc, DMAARM, DMAIF0, EA, fPc, args, fBuf,
               before, fCalls>>
powerVars == <<cmd, sta, mode, lle, now, compare, stif, stie, armed, late, pPc>>

MCMenus == {main, options, list}
MCItems == main :> 6 @@ options :> 5 @@ list :> 9
MCDisabled == main :> {2, 3} @@ options :> {0} @@ list :> {0, 1, 3, 5, 6, 8}
MCStartup == main :> 0 @@ options :> 3 @@ list :> 2
MCKind == main :> -2 @@ options :> 3 @@ list :> -1
MCSub == [m \in MCMenus |->
            [it \in 0 .. MCItems[m] - 1 |->
               CASE m = main /\ it = 1 -> options
                 [] m = main /\ it = 4 -> list
                 [] m = options /\ it = 4 -> list
                 [] OTHER -> NoMenu]]

\* Texts shorter and longer than a line; prints with no, one and two newlines,
\* one of them past the length of a line.
Three == INSTANCE Lcd WITH
  calls <- draws, MaxCalls <- MaxDraws,
  Texts <- {<<"a", "b">>, [c \in 1 .. 17 |-> "c"]},
  Prints <- {<<"a">>, <<"a", "\n", "b">>, <<"\n", "\n", "b", "a">>, <<"a", "\n">>,
             [c \in 1 .. 20 |-> IF c = 18 THEN "\n" ELSE "d"]},
  Values <- {0, 12345, -60},
  Shapes <- {"bar"},
  MenuItems <- <<<<"o", "n">>, <<"o", "f", "f">>>>

Two == INSTANCE LcdSrf04 WITH
  pc <- lPc, i <- lI, k <- lK,
  Lines <- LineTexts, NoLine <- NoText, Chars <- LineChars, Columns <- LineColumns,
  Shapes <- LineShapes

MCTexts == {<<65, 98>>}
MCShapes == {<<1, 2, 4, 8, 16, 8, 4, 255>>}

\* Characters, columns and rows are bytes.
ASSUME LineAssumption ==
  /\ LineChars \subseteq 0 .. 255 /\ LineColumns \subseteq 0 .. 255
  /\ \A s \in LineTexts \cup LineShapes : s \in Seq(0 .. 255)

Clocks == INSTANCE Timer2

Humi == INSTANCE Humidity WITH pc <- hPc, buf <- hBuf

\* Each diode a voltage of its own; some of them below ground; all near the top.
Diodes == INSTANCE DiodeTemp WITH
  pc <- dPc, buf <- dBuf, P <- dP, ix <- dIx,
  Rounds <- {[d \in 1 .. 16 |-> 16 * d], [d \in 1 .. 16 |-> IF d % 2 = 0 THEN -1 ELSE 31],
             [d \in 1 .. 16 |-> 30000 - 100 * d]}

\* Below and above zero, with one digit behind the point and with two.
Path == INSTANCE TempPath WITH
  pc <- tPc, todo <- tTodo, n <- tN, sensor <- wireSensor,
  Rooms <- {-880, -9, -1, 8, 401}, Dies <- {<<18, 171, 3, 4, 5, 6>>}, Batteries <- {389},
  Isr <- 100, MaxRounds <- 2

\* A word and two are written.
MCBuffers == {<<{0}, {1}, {}, {0, 1}>>, <<{0}, {}, {0}, {1}, {}, {1}, {0}, {}>>}

\* The bank is three bits of MEMCTR, FADDRH has eight bits, of which a page takes
\* two values.  A DMA transfer is of at least one byte.
ASSUME FlashAssumption ==
  /\ Banks \in 1 .. 8 /\ PagesPerBank \in Nat \ {0} /\ Banks * PagesPerBank * 2 <= 256
  /\ HighUnit \in Nat \ {0} /\ NamedPages \in Nat \ {0}
  /\ \A d \in Buffers : d \in Seq(SUBSET Ones) /\ Len(d) > 0

Memory == INSTANCE Flash WITH pc <- fPc, buf <- fBuf, calls <- fCalls

\* The firmware's two sources of the clock; 32, 4 and 2 MHz.
Power == INSTANCE PowerModes WITH
  pc <- pPc, N <- Width, Sources <- {"HFRC", "XOSC"}, Speeds <- {{}, {2}, {0, 1}}

\* Where a driver has a large state, it is there when used.
MCInit ==
  /\ which \in {"menus", "three", "two", "timers", "humidity", "diodes", "path",
                "flash", "power"}
  /\ Init /\ Two!Init /\ Clocks!Init /\ Humi!Init /\ Power!Init
  /\ \/ which = "three" /\ Three!Init
     \/ which # "three" /\ lcd = 0 /\ on = FALSE /\ index = 0 /\ draws = 0 /\ call = 0
  /\ \/ which = "diodes" /\ Diodes!Init
     \/ /\ which # "diodes" /\ DIR = {} /\ SEL = {} /\ dP = {} /\ APCFG = {}
        /\ dPc = "off" /\ dIx = 1 /\ volts = 0 /\ dBuf = <<>>
  /\ \/ which = "path" /\ Path!Init
     \/ /\ which # "path"
        /\ master = <<>> /\ tPc = <<>> /\ tTodo = <<>> /\ byte = <<>>
        /\ tN = <<>> /\ data = <<>> /\ wireSensor = <<>> /\ room = <<>>
        /\ vbat = <<>> /\ struck = <<>> /\ rounds = <<>>
        /\ deviceAddress = <<>> /\ seqn = <<>> /\ advData = <<>>
        /\ fifo = <<>> /\ shown = <<>>
  /\ \/ which = "flash" /\ Memory!Init
     \/ /\ which # "flash"
        /\ flash = <<>> /\ MEMCTR = <<>> /\ FADDR = <<>> /\ FCTL = <<>>
        /\ desc = <<>> /\ DMAARM = <<>> /\ DMAIF0 = <<>> /\ EA = <<>>
        /\ fPc = <<>> /\ args = <<>> /\ fBuf = <<>> /\ before = <<>>
        /\ fCalls = <<>>

\* Where calls and measurements are bounded, the driver may stop.
Bounded == which \in {"three", "timers", "humidity", "path", "flash"}

drivers == <<vars, lcdVars, wireVars, timerVars, humiVars, diodeVars, tempVars, flashVars,
             powerVars>>

MCNext ==
  /\ UNCHANGED which
  /\ \/ which = "menus" /\ Next
        /\ UNCHANGED <<lcdVars, wireVars, timerVars, humiVars, diodeVars, tempVars,
                       flashVars, powerVars>>
     \/ which = "three" /\ Three!Next
        /\ UNCHANGED <<vars, wireVars, timerVars, humiVars, diodeVars, tempVars,
                       flashVars, powerVars>>
     \/ which = "two" /\ Two!Next
        /\ UNCHANGED <<vars, lcdVars, timerVars, humiVars, diodeVars, tempVars,
                       flashVars, powerVars>>
     \/ which = "timers" /\ Clocks!Next
        /\ UNCHANGED <<vars, lcdVars, wireVars, humiVars, diodeVars, tempVars,
                       flashVars, powerVars>>
     \/ which = "humidity" /\ Humi!Next
        /\ UNCHANGED <<vars, lcdVars, wireVars, timerVars, diodeVars, tempVars,
                       flashVars, powerVars>>
     \/ which = "diodes" /\ Diodes!Next
        /\ UNCHANGED <<vars, lcdVars, wireVars, timerVars, humiVars, tempVars,
                       flashVars, powerVars>>
     \/ which = "path" /\ Path!Next
        /\ UNCHANGED <<vars, lcdVars, wireVars, timerVars, humiVars, diodeVars,
                       flashVars, powerVars>>
     \/ which = "flash" /\ Memory!Next
        /\ UNCHANGED <<vars, lcdVars, wireVars, timerVars, humiVars, diodeVars,
                       tempVars, powerVars>>
     \/ which = "power" /\ Power!Next
        /\ UNCHANGED <<vars, lcdVars, wireVars, timerVars, humiVars, diodeVars, tempVars,
                       flashVars>>
     \/ Bounded /\ UNCHANGED drivers

MCSpec == MCInit /\ [][MCNext]_<<which, drivers>>

(* The properties of the drivers, as their modules state them; that the    *)
(* menu shows one of its stops, reached by the path it remembers, is one.  *)
MenusLead == StandsOnStop /\ ParentsArePath
DisplayIsAsCalled == [][which = "three" => Three!ScreenStep /\ Three!SymbolsStep]_lcdVars
TransferIsTaken == Two!TransferIsTaken
NapIsCounted == [][/\ which = "timers" => Clocks!NapStep
                   /\ which = "power" => Power!ReadyStep]_<<timerVars, powerVars>>
AlarmsInTime == Clocks!TimeoutNotEarly /\ Power!WakesInTime
SensorsTellTruth == Humi!SuccessIsFresh /\ Diodes!ReadingIsItsDiode
ShownIsMeasured == Path!ShownIsMeasured
FlashIsAsCalled == [][which = "flash" => Memory!ReturnStep]_flashVars
=============================================================================
