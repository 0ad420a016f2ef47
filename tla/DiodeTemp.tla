----------------------------- MODULE DiodeTemp -----------------------------
(***************************************************************************)
(* The thermometer of sixteen diodes between ten pins                      *)
(* (components/targets/TempSensor/hal_temp.c) and the converter that reads *)
(* them (hal_adc.c).  Five wires, each with a digital pin D1 .. D5 and an  *)
(* analog pin A1 .. A5, carry diodes in all directions: to read one, a     *)
(* digital pin feeds its wire, the analog pin of that wire measures, the   *)
(* analog pin of another wire is the ground, and every other pin must be   *)
(* an input, or a second diode conducts.                                   *)
(*                                                                         *)
(* A register of a port is the set of the <<port, bit>> that are 1 in it.  *)
(***************************************************************************)
EXTENDS Integers, Sequences

CONSTANTS Rounds      \* what the diodes may give in one call of HalTempRead:
                      \* per diode the converter's 16 signed bits

VARIABLES DIR, SEL, P,  \* of the ports: outputs, peripherals, levels put out
          APCFG,      \* the analog inputs
          pc, ix,     \* what HalTempRead does next, for which diode
          volts,      \* what the diodes give in this call
          buf         \* the readings

registers == <<DIR, SEL, P, APCFG>>
vars == <<registers, pc, ix, volts, buf>>

D1 == 1  D2 == 2  D3 == 3  D4 == 4  D5 == 5
A1 == 6  A2 == 7  A3 == 8  A4 == 9  A5 == 10
Pins == 1 .. 10
Bits == (0 .. 2) \X (0 .. 7)

\* The port and the bit of each pin; an analog pin's bit is its channel.
temp_pins_cfg == <<<<0, 5>>, <<1, 0>>, <<1, 1>>, <<1, 2>>, <<1, 3>>,
                   <<0, 4>>, <<0, 3>>, <<0, 2>>, <<0, 1>>, <<0, 0>>>>
Analog == A1 .. A5

\* The supply, the ground and the converter's pin of each diode.
temp_diodes_cfg ==
  <<<<D5, A4, A5>>, <<D4, A3, A4>>, <<D3, A2, A3>>, <<D2, A1, A2>>,
    <<D3, A4, A3>>, <<D2, A3, A2>>, <<D1, A2, A1>>, <<D2, A5, A2>>,
    <<D5, A3, A5>>, <<D3, A1, A3>>, <<D5, A2, A5>>, <<D3, A5, A3>>,
    <<D1, A3, A1>>, <<D1, A4, A1>>, <<D5, A1, A5>>, <<D4, A2, A4>>>>
Diodes == 1 .. Len(temp_diodes_cfg)

Init ==
  /\ DIR \in {{}, Bits} /\ SEL = {} /\ P = Bits /\ APCFG = {}
  /\ pc = "off" /\ ix = 1
  /\ volts = [d \in Diodes |-> 0] /\ buf = <<>>

\* Every pin an input.
temp_pins_reset ==
  /\ pc = "off" /\ pc' = "rest"
  /\ APCFG' = {} /\ SEL' = {} /\ DIR' = {}
  /\ UNCHANGED <<P, ix, volts, buf>>

Call ==
  /\ pc = "rest" /\ pc' = "vdd"
  /\ volts' \in Rounds
  /\ ix' = 1 /\ buf' = <<>>
  /\ UNCHANGED registers

-----------------------------------------------------------------------------
(* The pins.                                                               *)

Digital(pin, level) ==
  LET b == temp_pins_cfg[pin]
  IN /\ SEL' = SEL \ {b}
     /\ DIR' = DIR \cup {b}
     /\ P' = IF level = 1 THEN P \cup {b} ELSE P \ {b}
     /\ UNCHANGED APCFG

\* The converter's pins are all of port 0.
Converter(pin) ==
  LET b == <<0, temp_pins_cfg[pin][2]>>
  IN /\ APCFG' = APCFG \cup {b}
     /\ SEL' = SEL \cup {b}
     /\ DIR' = DIR \ {b}
     /\ UNCHANGED P

enable_temp_pin(pin, type) ==
  \/ type = "vdd" /\ Digital(pin, 1)
  \/ type = "gnd" /\ Digital(pin, 0)
  \/ type = "adc" /\ Converter(pin)

\* Mutant: only the pins of the first port are made inputs again.
disable_temp_pin_first(pin) ==
  LET b == temp_pins_cfg[pin]
  IN /\ APCFG' = IF pin \in Analog THEN APCFG \ {b} ELSE APCFG
     /\ SEL' = SEL \ {b}
     /\ DIR' = IF b[1] = 0 THEN DIR \ {b} ELSE DIR
     /\ UNCHANGED P

disable_temp_pin(pin) ==
  LET b == temp_pins_cfg[pin]
  IN /\ APCFG' = IF pin \in Analog THEN APCFG \ {b} ELSE APCFG
     /\ SEL' = SEL \ {b}
     /\ DIR' = DIR \ {b}
     /\ UNCHANGED P

-----------------------------------------------------------------------------
(* The converter.                                                          *)

\* Not in the repository: what it gives is the diode's own voltage only if
\* this diode alone is fed, and measured on its channel.
Conducts(d, channel) ==
  LET pin(n) == temp_pins_cfg[temp_diodes_cfg[d][n]]
  IN /\ DIR = {pin(1), pin(2)} /\ pin(1) \in P /\ pin(2) \notin P
     /\ <<0, channel>> = pin(3) /\ pin(3) \in APCFG \cap SEL
Sample(d, channel) == IF Conducts(d, channel) THEN volts[d] ELSE 32767

\* The channel is switched off before the result is read; below ground is 0;
\* twelve of the sixteen bits remain.
HalAdcRead(d, channel) ==
  LET reading == Sample(d, channel)
  IN /\ buf' = Append(buf, (IF reading < 0 THEN 0 ELSE reading) \div 16)
     /\ APCFG' = APCFG \ {<<0, channel>>}

-----------------------------------------------------------------------------
(* HalTempRead, a pin at a time.                                           *)

Pin(n) == temp_diodes_cfg[ix][n]

HalTempRead ==
  \/ /\ \/ pc = "vdd" /\ pc' = "gnd" /\ enable_temp_pin(Pin(1), "vdd")
        \/ pc = "gnd" /\ pc' = "adc" /\ enable_temp_pin(Pin(2), "gnd")
        \/ pc = "adc" /\ pc' = "convert" /\ enable_temp_pin(Pin(3), "adc")
        \/ pc = "vdd off" /\ pc' = "gnd off" /\ disable_temp_pin(Pin(1))
        \/ pc = "gnd off" /\ pc' = "adc off" /\ disable_temp_pin(Pin(2))
     /\ UNCHANGED <<ix, volts, buf>>
  \/ /\ pc = "convert" /\ pc' = "vdd off"
     /\ HalAdcRead(ix, temp_pins_cfg[Pin(3)][2])
     /\ UNCHANGED <<DIR, SEL, P, ix, volts>>
  \/ /\ pc = "adc off"
     /\ disable_temp_pin(Pin(3))
     /\ IF ix = Len(temp_diodes_cfg) THEN pc' = "rest" /\ ix' = ix
                                     ELSE pc' = "vdd" /\ ix' = ix + 1
     /\ UNCHANGED <<volts, buf>>

Next == temp_pins_reset \/ Call \/ HalTempRead
Spec == Init /\ [][Next]_vars

-----------------------------------------------------------------------------
(* What the thermometer promises.                                          *)

Degrees(v) == IF v < 0 THEN 0 ELSE v \div 16

\* Every reading is its own diode's: whatever was read before it, and however
\* the pins were left, no other diode conducts while it is taken.
ReadingIsItsDiode == \A d \in DOMAIN buf : buf[d] = Degrees(volts[d])
=============================================================================
