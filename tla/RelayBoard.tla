----------------------------- MODULE RelayBoard -----------------------------
(***************************************************************************)
(* The firmware of the relay boards, modbus-relay8 and modbus-relay16: the *)
(* start, the handler of Modbus requests, which the main loop calls, and   *)
(* on relay8 the interrupt of the inputs, which scans all the pins while   *)
(* they go on changing.                                                    *)
(*                                                                         *)
(* A GPIO is its number: that of a relay is the number of its coil, those  *)
(* of the inputs follow.  Writing to the pin of an input, as relay8 does   *)
(* for the coil after its last relay, does not change what is read there.  *)
(* The interrupt stops the main loop but not the pins, and an edge that    *)
(* comes while it runs makes it run again (the pending bit of the EXTI;    *)
(* one bit here stands for those of all the ports).                        *)
(***************************************************************************)
EXTENDS Naturals, FiniteSets

CONSTANTS
  Relays,    (* Relays on the board: 8 or 16.                              *)
  Inputs,    (* Inputs of the board: 8, and 0 on relay16.                  *)
  MaxCoil,   (* The last coil a write is accepted for: 8 or 15.            *)
  Coils,     (* Coils that requests name.                                  *)
  Data       (* States that requests write; 0 is off.                      *)

ASSUME SizeAssumption == Relays \in Nat \ {0} /\ Inputs \in Nat /\ MaxCoil \in Nat
ASSUME RequestAssumption == Coils \subseteq Nat /\ Data \subseteq Nat

READ_COILS   == 1
READ_INPUTS  == 2
WRITE_COIL   == 5

Relay    == 0..Relays - 1
Input    == 0..Inputs - 1

VARIABLES
  booted,        (* hal_gpio_register_irq_handler calls made; the loop     *)
                 (* runs when all are.                                     *)
  relays_state,  (* Coils on, as far as the word of the code has bits.     *)
  gpio,          (* Level the code last wrote to each GPIO it wrote.       *)
  inputs_state,  (* Inputs on, as the interrupt found them.                *)
  level,         (* Inputs on, as they are.                                *)
  irq,           (* The interrupt is pending.                              *)
  isr,           (* Input the running interrupt reads next, or Idle.       *)
  sampled,       (* History: a whole scan was done since the loop runs.    *)
  acked,         (* History: last write acknowledged for each coil; also   *)
                 (* for one that is no relay.                              *)
  reply          (* The last reply, or NoReply.                            *)

vars == <<booted, relays_state, gpio, inputs_state, level, irq, isr, sampled,
          acked, reply>>

Idle    == Inputs + 1
NoReply == [func |-> 0, bits |-> {}]

Running == booted = Inputs

(* The pins of the relays come up at level 1, off; inputs are as they are.  *)
Init ==
  /\ booted = 0
  /\ relays_state = {}
  /\ gpio = [g \in Relay |-> 1]
  /\ inputs_state = {}
  /\ level \in SUBSET Input
  /\ irq = FALSE
  /\ isr = Idle
  /\ sampled = FALSE
  /\ acked = << >>
  /\ reply = NoReply

(* main() lets the next input interrupt, one call after the other. *)
RegisterIrq ==
  /\ isr = Idle
  /\ ~Running
  /\ booted' = booted + 1
  /\ UNCHANGED <<relays_state, gpio, inputs_state, level, irq, isr, sampled, acked, reply>>

(* modbus_rtu_recv_cb: the main loop, so not while the interrupt runs.      *)
Handles(f) == /\ Running
              /\ isr = Idle
              /\ reply' = f

ReadCoils ==
  /\ Handles([func |-> READ_COILS, bits |-> relays_state])
  /\ UNCHANGED <<booted, relays_state, gpio, inputs_state, level, irq, isr, sampled, acked>>

(* The state word has as many bits as the board has relays: a higher bit is *)
(* lost.  A relay is on at level 0.                                         *)
SwitchCoil_others(c, d) ==
  /\ relays_state' = IF d = 0 THEN relays_state \cap {c} ELSE (relays_state \cup {c}) \cap Relay
  /\ gpio' = [g \in DOMAIN gpio \cup {c} |->
                IF g = c THEN (IF d = 0 THEN 1 ELSE 0) ELSE gpio[g]]
SwitchCoil(c, d) ==
  /\ relays_state' = IF d = 0 THEN relays_state \ {c}
                     ELSE (relays_state \cup {c}) \cap Relay
  /\ gpio' = [g \in DOMAIN gpio \cup {c} |->
                IF g = c THEN (IF d = 0 THEN 1 ELSE 0) ELSE gpio[g]]

WriteCoil(c, d) ==
  /\ c <= MaxCoil
  /\ Handles([func |-> WRITE_COIL, bits |-> {c}])
  /\ SwitchCoil(c, d)
  /\ acked' = [x \in DOMAIN acked \cup {c} |-> IF x = c THEN d ELSE acked[x]]
  /\ UNCHANGED <<booted, inputs_state, level, irq, isr, sampled>>

ReadInputs ==
  /\ Inputs > 0
  /\ Handles([func |-> READ_INPUTS, bits |-> inputs_state])
  /\ UNCHANGED <<booted, relays_state, gpio, inputs_state, level, irq, isr, sampled, acked>>

(* A coil out of range, or a function the board does not have: no answer.   *)
Refuse ==
  /\ Handles(NoReply)
  /\ UNCHANGED <<booted, relays_state, gpio, inputs_state, level, irq, isr, sampled, acked>>

(* An input changes, at any time; only an input whose handler is registered *)
(* makes the interrupt pend.                                                *)
Edge(i) ==
  /\ level' = IF i \in level THEN level \ {i} ELSE level \cup {i}
  /\ irq' = (irq \/ i < booted)
  /\ UNCHANGED <<booted, relays_state, gpio, inputs_state, isr, sampled, acked, reply>>

(* gpio_input_changed_cb starts with a cleared state ...                    *)
IsrBegin_keep ==
  /\ irq
  /\ isr = Idle
  /\ isr' = 0
  /\ irq' = FALSE
  /\ UNCHANGED <<booted, relays_state, gpio, inputs_state, level, sampled, acked, reply>>
IsrBegin ==
  /\ irq
  /\ isr = Idle
  /\ isr' = 0
  /\ irq' = FALSE
  /\ inputs_state' = {}
  /\ UNCHANGED <<booted, relays_state, gpio, level, sampled, acked, reply>>

(* ... and reads one input after the other.                                 *)
LastInput == Inputs - 1
IsrRead ==
  /\ isr # Idle
  /\ inputs_state' = IF isr \in level THEN inputs_state \cup {isr} ELSE inputs_state
  /\ IF isr < LastInput
     THEN isr' = isr + 1 /\ UNCHANGED sampled
     ELSE isr' = Idle /\ sampled' = (sampled \/ Running)
  /\ UNCHANGED <<booted, relays_state, gpio, level, irq, acked, reply>>

Request == \/ ReadCoils \/ ReadInputs \/ Refuse
           \/ \E c \in Coils, d \in Data : WriteCoil(c, d)

Next == \/ RegisterIrq
        \/ Request
        \/ \E i \in Input : Edge(i)
        \/ IsrBegin
        \/ IsrRead

Spec == Init /\ [][Next]_vars

-----------------------------------------------------------------------------
(* Properties *)

TypeOK ==
  /\ booted \in 0..Inputs
  /\ relays_state \in SUBSET Relay
  /\ Relay \cup DOMAIN acked \subseteq DOMAIN gpio
  /\ \A g \in DOMAIN gpio : gpio[g] \in {0, 1}
  /\ inputs_state \in SUBSET Input /\ level \in SUBSET Input
  /\ irq \in BOOLEAN /\ sampled \in BOOLEAN
  /\ isr \in Input \cup {Idle}
  /\ irq \/ isr # Idle => Inputs > 0

(* However the inputs change while the interrupt scans them, and whatever   *)
(* was missed before: once a scan was done with all handlers registered and *)
(* no interrupt is pending or running, the state that READ_DISCRETE_INPUTS  *)
(* reports is that of the pins.                                             *)
InputsFresh == sampled /\ ~irq /\ isr = Idle => inputs_state = level

LastAcked(c) == IF c \in DOMAIN acked THEN acked[c] ELSE 0

(* What READ_COILS reports is what was last acknowledged for each relay, and *)
(* the pins are at those levels: no write disturbs another coil, not even    *)
(* that of coil 8, which relay8 accepts and acknowledges although it has no  *)
(* such relay.  That one is lost: it never reads as on, and its level goes   *)
(* to pin 8, which board.h calls an input.                                   *)
AckedIsDone ==
  /\ relays_state = {c \in Relay : LastAcked(c) # 0}
  /\ \A c \in Relay \cup DOMAIN acked : gpio[c] = 0 <=> LastAcked(c) # 0

(* Behind InputsFresh: bits already scanned are right unless the interrupt  *)
(* is pending again, bits not yet scanned are clear, and a scan only counts *)
(* when every input interrupts.                                             *)
ScanRight ==
  /\ isr # Idle => \A i \in Input :
       /\ i < isr /\ Running /\ ~irq => (i \in inputs_state <=> i \in level)
       /\ i >= isr => i \notin inputs_state
  /\ sampled => Running
  /\ InputsFresh
=============================================================================
