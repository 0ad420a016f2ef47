------------------------------ MODULE PowerModes ------------------------------
(***************************************************************************)
(* The clocks and the power modes of the chip: which oscillator runs it,   *)
(* how far it is divided (components/devices/cc254x/clock.c, hal_mcu.c),   *)
(* and the sleep until an interrupt (hal_sleep.c).  Each function that     *)
(* writes the command register of the clocks waits until the status        *)
(* register says the same.  Build: CC2541.                                 *)
(***************************************************************************)
EXTENDS Naturals

CONSTANTS
  N,           (* The sleep timer counts modulo N; 2^24.                   *)
  Durations,   (* Ticks the application sleeps, each more than Slack.      *)
  Slack,       (* Bound: ticks from setting the timer to the sleep.        *)
  Sources,     (* What the application calls clockSetMainSrc with.         *)
  Speeds       (* And clockSetMainClkSpeed.                                *)

VARIABLES
  cmd, sta,    (* CLKCONCMD and CLKCONSTA: the slow and the fast           *)
               (* oscillator, the bits of the tick and the clock speed.    *)
  mode,        (* The power mode in SLEEPCMD.                              *)
  lle,         (* The radio's engine is out of reset.                      *)
  now, compare, stif, stie,  (* The sleep timer and its interrupt.         *)
  armed, late, (* It was set for the next sleep; ticks since then.         *)
  pc           (* What the application is in.                              *)

clocks == <<cmd, sta>>
timer  == <<now, compare, stif, stie, armed, late>>
vars   == <<clocks, mode, lle, timer, pc>>

(* A speed is the set of its three bits: {} is 32 MHz, {2} 2 MHz, all       *)
(* 250 kHz.                                                                 *)
Divider(b) == (IF 2 \in b THEN 4 ELSE 0) + (IF 1 \in b THEN 2 ELSE 0)
              + (IF 0 \in b THEN 1 ELSE 0)
Clkcon(slow, osc, tick, clk) ==
  [slow |-> slow, osc |-> osc, tick |-> tick, clk |-> clk]

(* The values clockSetMainSrc writes.  The undivided crystal comes with the *)
(* slow RC oscillator, the divided one with the slow crystal.               *)
ValueOf(source) ==
  CASE source = "HFRC"        -> Clkcon("RC", "HFRC", {0}, {0})
    [] source = "XOSC"        -> Clkcon("RC", "XOSC", {}, {})
    [] source = "XOSC_250kHz" -> Clkcon("XTAL", "XOSC", {0, 1, 2}, {0, 1, 2})
    [] source = "XOSC_2MHz"   -> Clkcon("XTAL", "XOSC", {2}, {2})
    [] source = "XOSC_4MHz"   -> Clkcon("XTAL", "XOSC", {0, 1}, {0, 1})
    [] source = "XOSC_8MHz"   -> Clkcon("XTAL", "XOSC", {0, 1, 2}, {1})
    [] source = "XOSC_16MHz"  -> Clkcon("XTAL", "XOSC", {0}, {0})

Write(value, next) == cmd' = value /\ pc' = next /\ UNCHANGED <<sta, timer>>

-----------------------------------------------------------------------------
(* The hardware.                                                           *)

(* The status follows the command; the slow oscillator only changes while   *)
(* the chip runs on the fast RC oscillator.                                 *)
Settle ==
  /\ sta # cmd
  /\ sta.slow # cmd.slow => sta.osc = "HFRC"
  /\ sta' = cmd
  /\ UNCHANGED <<cmd, mode, lle, timer, pc>>

(* CC254x_WAIT_CLK_UPDATE *)
Settled == sta = cmd

Tick ==
  /\ pc # "asleep" => armed /\ late < Slack
  /\ now' = (now + 1) % N
  /\ stif' = (stif \/ now' = compare)
  /\ late' = IF pc = "asleep" THEN late ELSE late + 1
  /\ UNCHANGED <<clocks, mode, lle, compare, stie, armed, pc>>

(* sleep_isr *)
SleepIsr ==
  /\ stif /\ stie /\ pc # "asleep"
  /\ stif' = FALSE
  /\ UNCHANGED <<clocks, mode, lle, now, compare, stie, armed, late, pc>>

-----------------------------------------------------------------------------
(* clock.c                                                                 *)

clockSetMainSrc(source) ==
  /\ Write(ValueOf(source), "wait") /\ UNCHANGED <<mode, lle>>

(* The new bits are added to those of the tick speed.  The check of the     *)
(* range accepts everything, since it compares a truth value with 7.        *)
WithSpeed(speed) == [cmd EXCEPT !.clk = speed, !.tick = @ \cup speed]
clockSetMainClkSpeed(speed) ==
  /\ Write(WithSpeed(speed), "wait") /\ UNCHANGED <<mode, lle>>

(* FAILED when the crystal runs the chip. *)
clockSelect32k(slow) ==
  /\ IF sta.osc # "HFRC" THEN UNCHANGED <<clocks, timer, pc>>
                         ELSE Write([cmd EXCEPT !.slow = slow], "wait")
  /\ UNCHANGED <<mode, lle>>

WaitClkUpdate ==
  /\ pc = "wait" /\ Settled /\ pc' = "app"
  /\ UNCHANGED <<clocks, mode, lle, timer>>

(* halMcuInit: the slow crystal is selected while the RC oscillator runs    *)
(* the chip, and given up when the crystal takes over.                      *)
InitStep(at, value, next) ==
  /\ pc = at /\ Settled
  /\ Write(value, next) /\ UNCHANGED <<mode, lle>>
halMcuInit == \/ InitStep("reset", ValueOf("HFRC"), "init32k")
              \/ InitStep("init32k", [cmd EXCEPT !.slow = "XTAL"], "initXosc")
              \/ InitStep("initXosc", ValueOf("XOSC"), "wait")

-----------------------------------------------------------------------------
(* hal_sleep.c                                                             *)

(* From the engine's reset, or the division of the clock, to the sleep.     *)
EnterPowerMode(m) ==
  /\ mode' = m
  /\ IF m > 1 THEN lle' = FALSE /\ Write(cmd, "idle")
              ELSE UNCHANGED lle /\ Write(WithSpeed({2}), "idle")

Idle ==
  /\ pc = "idle" /\ Settled /\ ~(stif /\ stie)
  /\ pc' = "asleep"
  /\ UNCHANGED <<clocks, mode, lle, timer>>

(* The timer's interrupt or another one.  From a power mode the chip comes  *)
(* up on the fast RC oscillator.                                            *)
Wake ==
  /\ pc = "asleep"
  /\ pc' = "awake"
  /\ sta' = IF mode > 0 THEN [cmd EXCEPT !.osc = "HFRC"] ELSE sta
  /\ UNCHANGED <<cmd, mode, lle, timer>>

LeavePowerMode_nowait ==
  \/ /\ pc = "awake" /\ ~(stif /\ stie)
     /\ Write(ValueOf("XOSC"), "leave")
     /\ lle' = TRUE
     /\ UNCHANGED mode
  \/ /\ pc = "leave"
     /\ pc' = "app" /\ armed' = FALSE
     /\ UNCHANGED <<clocks, mode, lle, now, compare, stif, stie, late>>

(* The engine is enabled again before the crystal runs. *)
LeavePowerMode ==
  \/ /\ pc = "awake" /\ ~(stif /\ stie)
     /\ Write(ValueOf("XOSC"), "leave")
     /\ lle' = (lle \/ mode > 1)
     /\ UNCHANGED mode
  \/ /\ pc = "leave" /\ Settled
     /\ pc' = "app" /\ armed' = FALSE
     /\ UNCHANGED <<clocks, mode, lle, now, compare, stif, stie, late>>

halSleepReadTimer == now

SetSleepTimer_nowrap(duration) ==
  /\ compare' = halSleepReadTimer + duration
  /\ armed' = TRUE /\ late' = 0
  /\ UNCHANGED <<clocks, mode, lle, now, stif, stie, pc>>

(* halSleepSetSleepTimer: the three bytes that are loaded lose the carry.   *)
SetSleepTimer(duration) ==
  /\ compare' = (halSleepReadTimer + duration) % N
  /\ armed' = TRUE /\ late' = 0
  /\ UNCHANGED <<clocks, mode, lle, now, stif, stie, pc>>

halSleepEnableInterrupt ==
  /\ stif' = FALSE /\ stie' = TRUE
  /\ UNCHANGED <<clocks, mode, lle, now, compare, armed, late, pc>>

halSleepDisableInterrupt ==
  /\ stif' = FALSE /\ stie' = FALSE
  /\ UNCHANGED <<clocks, mode, lle, now, compare, armed, late, pc>>

-----------------------------------------------------------------------------
Init ==
  /\ cmd = ValueOf("HFRC") /\ sta = cmd
  /\ mode = 0 /\ lle = TRUE
  /\ now = 0 /\ compare = 0 /\ stif = FALSE /\ stie = FALSE
  /\ armed = FALSE /\ late = 0
  /\ pc = "reset"

(* The application divides the clock only of the crystal, and sets the      *)
(* timer and enables its interrupt before each sleep.                       *)
Calls ==
  /\ pc = "app"
  /\ \/ ~armed /\ \E s \in Sources : clockSetMainSrc(s)
     \/ ~armed /\ sta.osc = "XOSC" /\ \E s \in Speeds : clockSetMainClkSpeed(s)
     \/ ~armed /\ \E s \in {"RC", "XTAL"} : clockSelect32k(s)
     \/ ~armed /\ \E d \in Durations : SetSleepTimer(d)
     \/ ~armed /\ halSleepDisableInterrupt
     \/ armed /\ ~stie /\ halSleepEnableInterrupt
     \/ armed /\ stie /\ \E m \in 0 .. 3 : EnterPowerMode(m)

Next == \/ Settle \/ Tick \/ SleepIsr
        \/ halMcuInit \/ Calls \/ WaitClkUpdate
        \/ Idle \/ Wake \/ LeavePowerMode

Spec == Init /\ [][Next]_vars

-----------------------------------------------------------------------------
(* A sleep ends when it was asked to: the alarm is not over when the chip   *)
(* falls asleep, or it would come a turn of the timer, 512 seconds, later.  *)
(* Meanwhile the timers never tick faster than the chip's clock ("Check if  *)
(* tick speed is set higher than source clock speed"), and a wait for the   *)
(* clocks never waits for an oscillator that cannot change.                 *)
WakesInTime ==
  /\ pc = "asleep" =>
       stif \/ \E d \in Durations : \E k \in 1 .. d : (now + k) % N = compare
  /\ Divider(cmd.tick) >= Divider(cmd.clk)
  /\ sta.slow # cmd.slow => sta.osc = "HFRC"

(* "Make sure that system clock is 32 MHz without division after wakeup",   *)
(* and the radio is enabled.                                                *)
ReadyStep ==
  pc = "leave" /\ pc' = "app" => sta = ValueOf("XOSC") /\ lle
=============================================================================
