------------------------------ MODULE FanControl ------------------------------
(* The fan controller (apps/fancontrol/src): the timer that makes the signal of  *)
(* the fan (fanpwm.c), the commands of its console (console_cmd.c) and their     *)
(* start (main.c).  The console itself, which cuts a line into words, and the    *)
(* timer driver are not in the repository.                                       *)
EXTENDS Integers

CONSTANTS Numbers     \* what atoi makes of the words after "pwm"; of no number, 0

PERIOD == 2880        \* CFG_FANPWM_25KHZ_PERIOD
MAX_PULSE == 3000     \* CFG_FANPWM_MAX_PULSE
INIT_PULSE == 20      \* CFG_FANWPM_INIT_PULSE, in per cent

VARIABLES started,    \* what main() has started: "none", "fan", "console"
          timer,      \* Period, Pulse, and whether the signal is made
          told,       \* the duty, in per cent, that the last OK named
          answer      \* the last answer

vars == <<started, timer, told, answer>>

(* main: the board; no signal yet.                                               *)
Init == /\ started = "none"
        /\ timer = [Period |-> 0, Pulse |-> 0, on |-> FALSE]
        /\ told = INIT_PULSE
        /\ answer = "none"

timer_set_pwm(period, pulse) ==
    timer' = [Period |-> period, Pulse |-> pulse, on |-> TRUE]

(* A percentage of none is refused, and the signal stays as it is.               *)
fanpwm_set(pct) ==
    IF pct \in 0..100 THEN timer_set_pwm(PERIOD, (MAX_PULSE * pct) \div 100)
                      ELSE UNCHANGED timer

fanpwm_init == /\ started = "none" /\ started' = "fan"
               /\ fanpwm_set(INIT_PULSE)
               /\ UNCHANGED <<told, answer>>

console_init == /\ started = "fan" /\ started' = "console"
                /\ UNCHANGED <<timer, told, answer>>

console_cmd_fanpwm(pct) ==
    /\ started = "console"
    /\ fanpwm_set(pct)
    /\ IF pct \in 0..100 THEN told' = pct /\ answer' = "OK"
                         ELSE answer' = "error" /\ UNCHANGED told
    /\ UNCHANGED started

(* "pwm" with no word or with two.                                               *)
BadArguments == /\ started = "console"
                /\ answer' = "error"
                /\ UNCHANGED <<started, timer, told>>

(* help, ?, the empty line, uptime                                               *)
OtherCommand == /\ started = "console"
                /\ answer' = "text"
                /\ UNCHANGED <<started, timer, told>>

Next == \/ fanpwm_init \/ console_init \/ BadArguments \/ OtherCommand
        \/ \E pct \in Numbers : console_cmd_fanpwm(pct)

------------------------------------------------------------------------------
(* Ticks of 0..Period in which the counter is below the pulse.                   *)
High == IF timer.Pulse > timer.Period + 1 THEN timer.Period + 1 ELSE timer.Pulse

(* The fan runs as the last OK said, whatever was refused since: never off by    *)
(* more than four points although the longest pulse is longer than the period,   *)
(* stopped only at 0, and at full speed at 100.                                  *)
DutyIsAsTold ==
    started # "none" =>
        /\ timer.on
        /\ 100 * High - told * (timer.Period + 1) \in 0..4 * (timer.Period + 1)
        /\ (High = 0 <=> told = 0) /\ (told = 100 => High = timer.Period + 1)
==============================================================================
