--------------------------- MODULE TimerConstants ---------------------------
(***************************************************************************)
(* The numbers of hal_timer2.c and hal_sleep.c that Timer2 and PowerModes  *)
(* are about, and what the arithmetic of halSleepSynchXOSCMsBase and of    *)
(* halSleepSetSleepTimer needs of them.                                    *)
(***************************************************************************)
EXTENDS Integers

CONSTANTS Base,      \* ticks of a period: 32000, 1 ms of 31.25 ns ticks
          PerSleep,  \* ticks added for a sleep tick: 977
          PerBase,   \* sleep ticks taken for a period: 32
          Work,      \* sleep ticks added for the work of the function: 5
          Width,     \* of the coarse count and the sleep timer: 2^24
          Half, Long,\* of uint16 and uint32: 2^16, 2^32
          RunSteps,  \* ticks Timer 2 may advance in a step
          SleepSteps,\* sleep ticks that may pass in a step
          NapLimit,  \* naps end before this many sleep ticks: 2^21 - 32
          Counts,    \* coarse counts the application sets
          Timeouts,  \* milliseconds it asks for
          MaxCalls,  \* bound: its calls
          Durations, \* sleep ticks it sleeps
          Slack      \* bound: sleep ticks from setting the timer to the sleep

\* What the arithmetic of a nap needs: the remainder of a division by PerBase
\* and a fine count fit in 16 bits together, the periods of a nap in 16 alone,
\* and the remainder is less than a period.
ASSUME NapAssumption ==
  /\ Base \in Nat \ {0} /\ PerSleep \in Nat /\ Work \in Nat /\ PerBase \in Nat \ {0}
  /\ Half \in Nat \ {0} /\ Width \in Nat \ {0} /\ Long \in Nat \ {0} /\ NapLimit \in Nat
  /\ \E k \in 1 .. Width : Width = k * (PerBase * Half)
  /\ \E k \in 1 .. Long : Long = k * Width
  /\ Base + PerSleep * (PerBase - 1) <= Half
  /\ PerSleep * (PerBase - 1) < Base
  /\ NapLimit + Work < PerBase * Half
  /\ NapLimit <= Width
  /\ \A n \in RunSteps : n \in 1 .. Base
  /\ SleepSteps \subseteq Nat /\ Counts \subseteq 0 .. Width - 1
  /\ Timeouts \subseteq 1 .. Width - 1

\* A sleep is longer than it takes to begin it, and no turn of the timer.
ASSUME PowerAssumption ==
  Slack \in Nat /\ Durations \subseteq Slack + 1 .. Width - 1
=============================================================================
