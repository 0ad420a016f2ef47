------------------------------ MODULE TempPath ------------------------------
(***************************************************************************)
(* What a temperature goes through from the DS18B20 to the screen: bit by  *)
(* bit over the 1-Wire bus (drivers/ow.c and ds18.c of the beacon, driver/ *)
(* ds18b20.c of the ESP8266), into the advertising data (temp_sensor.c)    *)
(* and the packet (miniBLE_phy.c), and out of it again on the telephone    *)
(* (AdvTemperaturePacket.java); the ESP8266 writes it as text at once.     *)
(*                                                                         *)
(* Nobody disables interrupts during a time slot: one that strikes in it   *)
(* lengthens the low pulse, or delays the look at the wire.  The sensor's  *)
(* checksum is not read.  Temperatures are in sixteenths of a degree.      *)
(***************************************************************************)
EXTENDS Integers, Sequences

CONSTANTS Rooms,      \* temperatures to be measured
          Dies,       \* the radio's six factory bytes, lowest first
          Batteries,  \* what the battery gives: 10 bits
          Isr,        \* how long an interrupt takes: < 480 us, or it is a reset
          MaxRounds   \* bound: measurements

VARIABLES master,     \* the program, "beacon" or "esp"
          pc,         \* "idle", "wire", "load" or "air"
          todo,       \* what is left to do on the wire
          byte, n,    \* the byte under way and how many of its bits are done
          data,       \* the bytes read
          sensor,     \* the DS18B20
          room, vbat, \* what this measurement is to find
          struck,     \* history: an interrupt struck in a time slot of it
          rounds,
          deviceAddress, seqn,
          advData, fifo,
          shown       \* what the telephone shows or the ESP8266 sends

wire == <<todo, byte, n, data, sensor, struck>>
vars == <<master, pc, wire, room, vbat, rounds, deviceAddress, seqn, advData, fifo, shown>>

Bit(v, b) == (v \div 2 ^ b) % 2

-----------------------------------------------------------------------------
(* The DS18B20, not in the repository: an input of 15 us tells the bits.   *)

PowerOn == [state |-> "idle", bits |-> <<>>, converting |-> FALSE,
            scratch |-> <<80, 5, 75, 70, 127>>]

Resolution(s) == (s.scratch[5] \div 32) % 4      \* bits more than nine
ConversionTime(s) == <<94, 188, 375, 750>>[Resolution(s) + 1]
Converted(s, t) ==
  LET floor == (t - (t % (2 ^ (3 - Resolution(s))))) % 65536
  IN [s EXCEPT !.converting = FALSE,
               !.scratch = <<floor % 256, floor \div 256, @[3], @[4], @[5]>>]

BitsOf(bytes) == [b \in 1 .. 8 * Len(bytes) |-> Bit(bytes[(b + 7) \div 8], (b + 7) % 8)]

Obeys(s, v) ==
  CASE s.state = "rom" -> [s EXCEPT !.state = IF v = 204 THEN "command" ELSE "idle"]
    [] s.state = "command" /\ v = 68 -> [s EXCEPT !.state = "idle", !.converting = TRUE]
    [] s.state = "command" /\ v = 78 -> [s EXCEPT !.state = "high"]
    [] s.state = "command" /\ v = 190 ->
         [s EXCEPT !.state = "send", !.bits = BitsOf(s.scratch)]
    [] s.state = "high" -> [s EXCEPT !.state = "low", !.scratch[3] = v]
    [] s.state = "low" -> [s EXCEPT !.state = "config", !.scratch[4] = v]
    [] s.state = "config" -> [s EXCEPT !.state = "idle", !.scratch[5] = v]
    [] OTHER -> [s EXCEPT !.state = "idle"]

Sum(bits) == LET S[b \in 0 .. 8] == IF b = 0 THEN 0 ELSE S[b - 1] + bits[b] * (2 ^ (b - 1))
             IN S[8]
Hears(s, low) ==
  LET got == Append(s.bits, IF low <= 15 THEN 1 ELSE 0)
  IN IF Len(got) = 8 THEN Obeys([s EXCEPT !.bits = <<>>], Sum(got))
                     ELSE [s EXCEPT !.bits = got]

Sends(s) == s.state = "send" /\ s.bits # <<>>

-----------------------------------------------------------------------------
(* The programs on the wire.                                               *)

Write(v) == <<"write", v>>

\* The power of the beacon's sensor is a pin of its own.
ow_Init == << <<"on">>, <<"reset">> >>
ow_DeInit == << <<"off">> >>

\* Mutant: the resolution is left as the sensor has it.
ds18_init_default == ow_Init \o << <<"reset">> >>

ds18_init == ow_Init \o << <<"reset">>, Write(204), Write(78), Write(0), Write(0), Write(1)>>
ds18_measure == << <<"reset">>, Write(204), Write(68)>>
ds18_get_temp == << <<"reset">>, Write(204), Write(190), <<"read">>, <<"read">> >>

\* The ESP8266 starts its sensor alike, and never sets its resolution.
ds_start == << <<"reset">>, Write(204), Write(68)>>
ds_read_scratch == << <<"reset">>, Write(204), Write(190), <<"read">>, <<"read">> >>

Program == [beacon |-> ds18_init \o ds18_measure \o << <<"wait", 200>> >>
                         \o ds18_get_temp \o ow_DeInit,
            esp |-> ds_start \o << <<"wait", 1000>> >> \o ds_read_scratch]

\* Microseconds the wire is low for a bit, and from its fall to the look at it.
LowTime == [beacon |-> [b \in {0, 1} |-> IF b = 1 THEN 2 ELSE 61],
            esp |-> [b \in {0, 1} |-> IF b = 1 THEN 10 ELSE 65]]
LookTime == [beacon |-> 2 + 8, esp |-> 3 + 10]

Op == Head(todo)[1]
Done == todo' = Tail(todo) /\ byte' = 0 /\ n' = 0

\* An interrupt at the worst place of the slot, once a measurement.
Strikes(d) == (d > 0 => ~struck) /\ struck' = (struck \/ d > 0)

Reset ==
  /\ Op = "reset"
  /\ sensor' = [sensor EXCEPT !.state = "rom", !.bits = <<>>]
  /\ Done
  /\ UNCHANGED <<data, struck>>

Power ==
  /\ Op \in {"on", "off"}
  /\ sensor' = PowerOn
  /\ Done
  /\ UNCHANGED <<data, struck>>

\* The lowest bit first.
WriteBit(d) ==
  /\ Op = "write"
  /\ sensor' = Hears(sensor, LowTime[master][Bit(Head(todo)[2], n)] + d)
  /\ IF n = 7 THEN Done ELSE n' = n + 1 /\ UNCHANGED <<todo, byte>>
  /\ UNCHANGED data

\* The sensor holds the wire low for a zero; ow.c shifts the byte to the
\* right, ds18b20.c sets the bits under a mask.
WithBit(bit) == IF master = "beacon" THEN (byte \div 2) + 128 * bit ELSE byte + bit * (2 ^ n)

ReadBit(d) ==
  LET sent == IF Sends(sensor) THEN Head(sensor.bits) ELSE 1
      seen == IF sent = 0 /\ LookTime[master] + d <= 15 THEN 0 ELSE 1
  IN /\ Op = "read"
     /\ sensor' = IF Sends(sensor) THEN [sensor EXCEPT !.bits = Tail(@)] ELSE sensor
     /\ IF n = 7 THEN Done /\ data' = Append(data, WithBit(seen))
                 ELSE byte' = WithBit(seen) /\ n' = n + 1 /\ UNCHANGED <<todo, data>>

\* The task of the beacon is called after 200 ms, the timer of the ESP8266
\* comes after a second.
Wait ==
  /\ Op = "wait"
  /\ sensor' = IF sensor.converting /\ ConversionTime(sensor) <= Head(todo)[2]
               THEN Converted(sensor, room) ELSE sensor
  /\ Done
  /\ UNCHANGED <<data, struck>>

Wire ==
  /\ pc = "wire" /\ todo # <<>>
  /\ \/ Reset \/ Power \/ Wait
     \/ \E d \in {0, Isr} : Strikes(d) /\ (WriteBit(d) \/ ReadBit(d))
  /\ UNCHANGED <<master, pc, room, vbat, rounds, deviceAddress, seqn, advData, fifo, shown>>

-----------------------------------------------------------------------------
(* The advertising data and the packet.                                    *)

\* The two highest bits of a static address are 1.
miniBleSetDeviceAddress(die) == [die EXCEPT ![6] = (@ % 64) + 192]

\* Two characters a byte, the highest byte first; a character is its value.
addr2str(addr) ==
  [c \in 1 .. 12 |-> LET b == addr[6 - (c - 1) \div 2]
                     IN IF c % 2 = 1 THEN b \div 16 ELSE b % 16]
Name(addr) == <<84, 101, 109, 112, 32>> \o SubSeq(addr2str(addr), 9, 12)

\* Flags, name, manufacturer; the service data begin one byte behind their type.
Header(addr) == <<2, 1, 4>> \o <<10, 9>> \o Name(addr) \o <<3, 255, 202, 254>>
Service(seq, temp, batt) ==
  <<7, 22, 0, seq, temp \div 256, temp % 256, batt \div 256, batt % 256, 0>>

\* ADCL holds the two lowest bits at its top, ADCH the eight others.
battMeasure(v) == LET ADCL == (v % 4) * 64
                      ADCH == v \div 4
                  IN (ADCL \div 64) + ADCH * 4

\* The length of the FIFO entry, the header and its length; both lengths count
\* four bytes that are not loaded.
miniBLEPhyLoadPacket(adv) ==
  <<Len(adv) + 12, 66, Len(adv) + 10>> \o deviceAddress \o adv

Init ==
  /\ master \in {"beacon", "esp"}
  /\ pc = "idle" /\ todo = <<>> /\ byte = 0 /\ n = 0 /\ data = <<>>
  /\ sensor = PowerOn /\ struck = FALSE
  /\ room = 0 /\ vbat = 0 /\ rounds = 0
  /\ deviceAddress \in {miniBleSetDeviceAddress(die) : die \in Dies}
  /\ seqn = 0
  /\ advData = Header(deviceAddress) \o Service(0, 0, 0)
  /\ fifo = miniBLEPhyLoadPacket(advData)
  /\ shown = <<>>

Begin ==
  /\ pc = "idle" /\ rounds < MaxRounds
  /\ pc' = "wire" /\ rounds' = rounds + 1
  /\ room' \in Rooms /\ vbat' \in Batteries
  /\ todo' = Program[master] /\ data' = <<>> /\ struck' = FALSE
  /\ shown' = <<>>
  /\ UNCHANGED <<master, byte, n, sensor, deviceAddress, seqn, advData, fifo>>

LoadAdvertising ==
  /\ pc = "wire" /\ todo = <<>> /\ master = "beacon"
  /\ pc' = "air"
  /\ seqn' = (seqn + 1) % 256
  /\ advData' = Header(deviceAddress)
                  \o Service(seqn', data[1] + 256 * data[2], battMeasure(vbat))
  /\ fifo' = miniBLEPhyLoadPacket(advData')
  /\ UNCHANGED <<master, wire, room, vbat, rounds, deviceAddress, shown>>

-----------------------------------------------------------------------------
(* The telephone, and the text of the ESP8266.                             *)

\* A number as it is printed: the digits of Fract stand behind the point.
Text(raw) ==
  LET negative == Bit(raw, 15) = 1
      size == IF negative THEN 65536 - raw ELSE raw
      Fract == ((size % 16) * 100) \div 16
  IN [negative |-> negative, whole |-> size \div 16,
      fract |-> IF Fract < 10 THEN 0 ELSE Fract]

\* What the radio sends of the FIFO, junk where nothing was loaded, less the
\* header and the address.
ScanRecord(junk) ==
  [b \in 1 .. fifo[1] - 8 |-> IF b + 9 <= Len(fifo) THEN fifo[b + 9] ELSE junk]

AdvTemperaturePacket(raw) ==
  [mManufactureId |-> 256 * raw[17] + raw[18],
   mSeqn |-> raw[22],
   text |-> Text(256 * raw[23] + raw[24]),
   mVbatRaw |-> 256 * raw[25] + raw[26],
   raw |-> raw]

Receive ==
  /\ pc = "air" /\ pc' = "idle"
  /\ \E junk \in {0, 255} : shown' = AdvTemperaturePacket(ScanRecord(junk))
  /\ UNCHANGED <<master, wire, room, vbat, rounds, deviceAddress, seqn, advData, fifo>>

ds_read_temp ==
  /\ pc = "wire" /\ todo = <<>> /\ master = "esp"
  /\ pc' = "idle"
  /\ shown' = [text |-> Text(data[1] + 256 * data[2])]
  /\ UNCHANGED <<master, wire, room, vbat, rounds, deviceAddress, seqn, advData, fifo>>

Next == Begin \/ Wire \/ LoadAdvertising \/ Receive \/ ds_read_temp
Spec == Init /\ [][Next]_vars

-----------------------------------------------------------------------------
(* What the whole path promises.                                           *)

\* The number a reader takes the text for, in hundredths of a degree.
Hundredths(t) ==
  LET size == 100 * t.whole + (IF t.fract < 10 THEN 10 * t.fract ELSE t.fract)
  IN IF t.negative THEN -size ELSE size

Away(a, b) == IF a < b THEN b - a ELSE a - b

\* The fields of advertising data: a length, a type, and what it says.
FieldStart(raw) ==
  LET F[f \in 1 .. 4] == IF f = 1 THEN 1 ELSE F[f - 1] + raw[F[f - 1]] + 1
  IN F
Fields(raw) ==
  {SubSeq(raw, FieldStart(raw)[f] + 1, FieldStart(raw)[f] + raw[FieldStart(raw)[f]]) :
     f \in 1 .. 4}

(* Unless an interrupt struck in a time slot, what is shown in the end is  *)
(* the temperature of the room, to half a degree (the beacon's sensor) or  *)
(* seven hundredths (the other): with its sign and its digits, through the *)
(* wire, two byte orders and a text.                                       *)
TemperatureIsRight ==
  shown # <<>> /\ ~struck =>
    Away(16 * Hundredths(shown.text), 100 * room) <= (IF master = "beacon" THEN 800 ELSE 112)

(* A packet of the beacon is taken for one, and tells its number, battery  *)
(* and device whatever follows the bytes that were loaded.                 *)
PacketIsRead ==
  shown # <<>> /\ master = "beacon" =>
    /\ shown.mManufactureId = 51966
    /\ shown.mSeqn = seqn
    /\ shown.mVbatRaw = vbat
    /\ <<9>> \o Name(deviceAddress) \in Fields(shown.raw)

ShownIsMeasured == TemperatureIsRight /\ PacketIsRead
=============================================================================
