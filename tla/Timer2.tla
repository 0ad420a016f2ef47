------------------------------- MODULE Timer2 -------------------------------
(***************************************************************************)
(* The two clocks of the beacon's chip: Timer 2, exact and stopped in a    *)
(* deep sleep (components/devices/cc254x/hal_timer2.c), and the sleep      *)
(* timer, slow and always running (hal_sleep.c).  Before a sleep           *)
(* halSleepSynchXOSCMsBase stops the first and notes the second; after it  *)
(* the time slept is added to the first.                                   *)
(*                                                                         *)
(* Timer 2 counts ticks (fine) up to a period and periods (coarse) in 24   *)
(* bits; the sleep timer counts in 24 bits.  The functions run with        *)
(* interrupts locked, so each is an action.                                *)
(***************************************************************************)
EXTENDS TimerConstants

VARIABLES fine, coarse,     \* the count of Timer 2
          per, ovfPer,      \* its period and overflow period, 0 for none
          cmp,              \* its overflow compare 1
          running,
          irqm, irqf, ie,   \* masks, flags and enable of its interrupts
          RadioTimeoutFlag,
          st, sleepTime1,   \* the sleep timer, and what was noted of it
          napping,          \* between the two calls of halSleepSynchXOSCMsBase
          slept,            \* sleep ticks since the first, for the properties
          calls,            \* how many there were, for the bound
          asked             \* the single timeout asked for and the periods since,
                            \* as many at most, or 0, 0; for the properties

counter == <<fine, coarse>>
setup == <<per, ovfPer, cmp>>
irq == <<irqm, irqf, ie, RadioTimeoutFlag>>
nap == <<sleepTime1, napping, slept>>
vars == <<counter, setup, running, irq, st, nap, asked, calls>>

Sources == {"ovf_per", "ovf_compare1"}
None == [ms |-> 0, periods |-> 0]

-----------------------------------------------------------------------------
(* The hardware.                                                           *)

\* n ticks, at most one period ending in them.
Run(n) ==
  LET ends  == per # 0 /\ fine + n >= per
      next  == (coarse + 1) % Width
      wraps == ovfPer # 0 /\ next = ovfPer
      now   == IF wraps THEN 0 ELSE next
  IN /\ running
     /\ fine' = IF ends THEN fine + n - per ELSE (fine + n) % Half
     /\ coarse' = IF ends THEN now ELSE coarse
     /\ irqf' = IF ends THEN irqf \cup (IF wraps THEN {"ovf_per"} ELSE {})
                                  \cup (IF now = cmp THEN {"ovf_compare1"} ELSE {})
                ELSE irqf
     /\ asked' = IF ends /\ asked.periods < asked.ms THEN [asked EXCEPT !.periods = @ + 1] ELSE asked
     /\ UNCHANGED <<setup, running, irqm, ie, RadioTimeoutFlag, st, nap>>

\* Outside of a nap nobody looks at it.
SleepTicks(n) ==
  /\ napping /\ slept + n < NapLimit
  /\ st' = (st + n) % Width
  /\ slept' = slept + n
  /\ UNCHANGED <<counter, setup, running, irq, sleepTime1, napping, asked>>

-----------------------------------------------------------------------------
(* hal_timer2.c *)

\* The flags read are cleared; the radio's flag is set whichever source
\* interrupted.
T2_ISR ==
  /\ ie /\ irqf \cap irqm # {}
  /\ RadioTimeoutFlag' = (RadioTimeoutFlag \/ "ovf_compare1" \in irqf)
  /\ irqf' = {}
  /\ UNCHANGED <<counter, setup, running, irqm, ie, st, nap, asked>>

halTimer2EnableInterrupt(s) ==
  /\ irqm' = irqm \cup {s} /\ ie' = TRUE
  /\ UNCHANGED <<counter, setup, running, irqf, RadioTimeoutFlag, st, nap, asked>>

halTimer2DisableInterrupt(s) ==
  /\ irqm' = irqm \ {s} /\ ie' = FALSE
  /\ UNCHANGED <<counter, setup, running, irqf, RadioTimeoutFlag, st, nap, asked>>

\* The periods and the compare value stay.
halTimer2Reset ==
  /\ running' = FALSE
  /\ fine' = 0 /\ coarse' = 0
  /\ irqf' = {}
  /\ asked' = None
  /\ UNCHANGED <<setup, irqm, ie, RadioTimeoutFlag, st, nap>>

\* Mutant: the count is left where it was.
halTimer2SetRadioTimeout_on(ms, periodic) ==
  /\ running' = FALSE /\ irqf' = {} /\ RadioTimeoutFlag' = FALSE
  /\ irqm' = irqm \cup {IF periodic THEN "ovf_per" ELSE "ovf_compare1"} /\ ie' = TRUE
  /\ per' = Base
  /\ IF periodic THEN ovfPer' = ms /\ UNCHANGED cmp ELSE cmp' = ms /\ UNCHANGED ovfPer
  /\ asked' = IF periodic THEN None ELSE [ms |-> ms, periods |-> 0]
  /\ UNCHANGED <<counter, st, nap>>

\* Stops the timer; halTimer2Start is the caller's.
halTimer2SetRadioTimeout(ms, periodic) ==
  /\ running' = FALSE
  /\ fine' = 0 /\ coarse' = 0
  /\ irqf' = {} /\ RadioTimeoutFlag' = FALSE
  /\ irqm' = irqm \cup {IF periodic THEN "ovf_per" ELSE "ovf_compare1"} /\ ie' = TRUE
  /\ per' = Base
  /\ IF periodic THEN ovfPer' = ms /\ UNCHANGED cmp ELSE cmp' = ms /\ UNCHANGED ovfPer
  /\ asked' = IF periodic THEN None ELSE [ms |-> ms, periods |-> 0]
  /\ UNCHANGED <<st, nap>>

\* The application sets the period of 1 ms that the nap assumes, and sets it
\* while the count is below it.
halTimer2SetBasePeriod ==
  /\ fine < Base
  /\ per' = Base
  /\ UNCHANGED <<counter, ovfPer, cmp, running, irq, st, nap, asked>>

SetOverflow(n) ==
  /\ ovfPer' = n % Width
  /\ UNCHANGED <<counter, per, cmp, running, irq, st, nap, asked>>
halTimer2SetOverflowPeriod(n) == SetOverflow(n)
halTimer2UpdateOverflowCompareValue(steps, extra) == SetOverflow(8 * steps + extra)

Counted(f, c) == fine' = f /\ coarse' = c % Width /\ asked' = None

halTimer2SetTimerCount(f, c) ==
  /\ Counted(f, c)
  /\ UNCHANGED <<setup, running, irq, st, nap>>


\* basePeriod is not 0; with no overflow period the count wraps at 24 bits.
UpdateTimerCount(baseTicks, ovfTicks, basePeriod, ovfPeriod) ==
  LET f == (fine + baseTicks) % Half
      c == coarse + ovfTicks + f \div basePeriod
  IN Counted(f % basePeriod, IF ovfPeriod # 0 THEN c % ovfPeriod ELSE c)

halTimer2Start ==
  /\ running' = TRUE
  /\ UNCHANGED <<counter, setup, irq, st, nap, asked>>

halTimer2Stop ==
  /\ running' = FALSE
  /\ UNCHANGED <<counter, setup, irq, st, nap, asked>>

-----------------------------------------------------------------------------
(* halSleepSynchXOSCMsBase: uint16 overFlowTicks, uint16 baseTicks.        *)

SynchStop ==
  /\ running /\ ~napping
  /\ running' = FALSE
  /\ sleepTime1' = st
  /\ napping' = TRUE /\ slept' = 0
  /\ UNCHANGED <<counter, setup, irq, st, asked>>

\* Mutant: the periods are rounded up, and the rest added to them.
NapPeriods_up(diff) == ((((diff + Work) % Long) + PerBase - 1) \div PerBase) % Half

\* The difference of two 24-bit times and the ticks for the work, in unsigned
\* arithmetic: the periods in it and the ticks for the rest.
NapPeriods(diff) == (((diff + Work) % Long) \div PerBase) % Half
NapTicks(diff) == (((diff + Work) % Long) % PerBase) * PerSleep

SynchStart ==
  /\ napping
  /\ UpdateTimerCount(NapTicks(st - sleepTime1), NapPeriods(st - sleepTime1), Base, 0)
  /\ running' = TRUE
  /\ napping' = FALSE /\ slept' = 0
  /\ UNCHANGED <<setup, irq, st, sleepTime1>>

-----------------------------------------------------------------------------
Init ==
  /\ fine = 0 /\ coarse = 0
  /\ per = Base /\ ovfPer = 0 /\ cmp = 0
  /\ running = FALSE
  /\ irqm = {} /\ irqf = {} /\ ie = FALSE
  /\ RadioTimeoutFlag = FALSE
  /\ st = 0 /\ sleepTime1 = 0 /\ napping = FALSE /\ slept = 0
  /\ asked = None
  /\ calls = 0

\* Nobody else uses Timer 2 during a nap.
Calls ==
  \/ \E s \in Sources : halTimer2EnableInterrupt(s) \/ halTimer2DisableInterrupt(s)
  \/ halTimer2Reset
  \/ \E ms \in Timeouts, periodic \in BOOLEAN : halTimer2SetRadioTimeout(ms, periodic)
  \/ halTimer2SetBasePeriod
  \/ \E n \in Timeouts : \/ halTimer2SetOverflowPeriod(n)
                         \/ halTimer2UpdateOverflowCompareValue(n, 1)
  \/ \E c \in Counts : halTimer2SetTimerCount(Base - 1, c)
  \/ halTimer2Start
  \/ halTimer2Stop

Next ==
  \/ ~napping /\ calls < MaxCalls /\ Calls /\ calls' = calls + 1
  \/ /\ \/ \E n \in RunSteps : Run(n)
        \/ \E n \in SleepSteps : SleepTicks(n)
        \/ T2_ISR
        \/ SynchStop
        \/ SynchStart
     /\ UNCHANGED calls

Spec == Init /\ [][Next]_vars

-----------------------------------------------------------------------------
(* What the clocks promise.                                                *)

\* The count stays below the period, whatever was added to it: the timer only
\* looks for the period, so a count past it would run on to 16 bits.
FineBelowPeriod == fine \in 0 .. Base - 1

\* A nap is added to the time: a period for every PerBase sleep ticks those for
\* the work included, PerSleep ticks for each of the rest, and neither the wrap
\* of the sleep timer nor that of the count loses or repeats any.
NapStep ==
  SynchStart =>
    LET ticks == slept + Work
        carry == IF fine + PerSleep * (ticks % PerBase) >= Base THEN 1 ELSE 0
    IN /\ fine' = fine + PerSleep * (ticks % PerBase) - carry * Base
       /\ coarse' = (coarse + ticks \div PerBase + carry) % Width
NapIsCounted == [][NapStep]_vars

\* The radio is never stopped before the milliseconds of a single timeout are
\* over, whatever timeouts were set and told before.
TimeoutNotEarly == RadioTimeoutFlag /\ asked # None => asked.periods >= asked.ms
=============================================================================
