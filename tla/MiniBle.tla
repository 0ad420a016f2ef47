------------------------------- MODULE MiniBle -------------------------------
(***************************************************************************)
(* miniBLE, the broadcast-only BLE stack of the temperature beacon: the    *)
(* interrupt of the sleep timer, which schedules the tasks, the interrupt  *)
(* of the radio, which goes from channel to channel, the calls of the API, *)
(* and the sleep of the main context.  Build: no TX_INTERVAL, POWER_SAVING *)
(* and PSEUDO_ADV_DELAY on.  TASK_CAL and TASK_WAIT, which nothing         *)
(* enables, are left out.                                                  *)
(*                                                                         *)
(* The critical sections and the interrupts are the atomic steps.  Time is *)
(* the sleep timer.                                                        *)
(***************************************************************************)
EXTENDS Integers, FiniteSets, FiniteSetsExt

CONSTANTS
  N,           (* The timer counts modulo N; 2^24 in the code.             *)
  L,           (* The late time is computed modulo L; 2^8.                 *)
  ST_SCHEDULE_MARGIN,  (* An event nearer than this is served at once.     *)
  MinLoad,     (* A compare value must be further away than this.          *)
  Guard,       (* An event nearer than this keeps the clock on; 3 ms.      *)
  Delays,      (* Pseudo random delays between advertisements.             *)
  ActiveChannels,      (* Channels the application advertises on.          *)
  Late,        (* Bound: ticks an interrupt waits.                         *)
  Work,        (* Bound: ticks the main context runs between two sleeps.   *)
  Air          (* Bound: ticks an advertising event is on the air.         *)

ASSUME TimerAssumption ==
  /\ {N, L, ST_SCHEDULE_MARGIN, Guard} \subseteq Nat \ {0}
  /\ MinLoad \in Nat
  /\ N % L = 0
  /\ {Late, Work, Air} \subseteq Nat
  /\ Delays \subseteq Nat /\ \E d \in Delays : \A e \in Delays : e <= d
ASSUME ChannelAssumption ==
  ActiveChannels \subseteq {37, 38, 39} /\ ActiveChannels # {}

TASK_ADV == "ADV"
TASK_DAQ == "DAQ"
Tasks    == {TASK_ADV, TASK_DAQ}
Missed   == N
firstActiveChannel == Min(ActiveChannels)

VARIABLES
  now,          (* The sleep timer.                                        *)
  compare,      (* Its compare register, or Missed: loaded too late.       *)
  stif, stie,   (* Its interrupt is pending; is enabled.                   *)
  wakeup,       (* globalWakeupTime, which is not cut to the timer's bits. *)
  wakeupOld,    (* globalWakeupTimeOld                                     *)
  enabledFlag,  (* SchedulerEnabledFlag                                    *)
  task,         (* miniBleTask: enable, countdown, interval of each.       *)
  triggered,    (* triggeredTaskEvents                                     *)
  txDone,       (* miniBleAdvTxDone                                        *)
  lle,          (* The radio's link layer engine is out of reset.          *)
  sending,      (* A packet is on the air.                                 *)
  rfif,         (* The radio's interrupt is pending.                       *)
  chan,         (* Channel of the radio.                                   *)
  pc,           (* Where the main context is.                              *)
  timeLeft, sleepFlag, powerMode,   (* of miniBleSchedulerEnterSleep       *)
  waited, busy, aired               (* Ticks counted for the three bounds. *)

timer == <<compare, stif, stie, wakeup, wakeupOld>>
sched == <<enabledFlag, task, triggered>>
radio == <<txDone, lle, sending, rfif, chan>>
sleep == <<timeLeft, sleepFlag, powerMode>>
pace  == <<waited, busy, aired>>
bleVars == <<now, timer, sched, radio, sleep, pc, pace>>

(* miniBleInit and the calls of miniBleSetTaskInterval that main() makes    *)
(* before it enables a task: they set the intervals and start nothing.      *)
TasksInit(interval) ==
  /\ task = [i \in Tasks |-> [enable |-> FALSE, countdown |-> interval[i],
                              interval |-> interval[i]]]
  /\ enabledFlag = FALSE /\ triggered = {}
  /\ stif = FALSE /\ stie = FALSE
  /\ compare = 0 /\ wakeup = 0 /\ wakeupOld = 0

(* miniBlePhyInit leaves the engine running and idle. *)
PhyInit ==
  /\ txDone = TRUE /\ lle = TRUE /\ sending = FALSE /\ rfif = FALSE
  /\ chan = firstActiveChannel

BleInit(interval) ==
  /\ now = 0
  /\ TasksInit(interval)
  /\ PhyInit
  /\ timeLeft = 0 /\ sleepFlag = FALSE /\ powerMode = 0
  /\ waited = 0 /\ busy = 0 /\ aired = 0

Enabled(t) == {i \in Tasks : t[i].enable}

(* MINIBLE_SCHEDULER_SET_WAKEUP: the compare register gets the low bits.    *)
SetWakeup(ticks) ==
  /\ wakeup' = now + ticks
  /\ compare' = IF ticks > MinLoad THEN (now + ticks) % N ELSE Missed

(* CMD_TX: an engine in reset does not hear it. *)
CmdTx == IF lle THEN sending' = TRUE /\ aired' = 0
                ELSE UNCHANGED <<sending, aired>>

-----------------------------------------------------------------------------
(* The interrupt of the sleep timer.                                       *)

(* deltaTime and deltaTrigger of sleep_isr. *)
Elapsed == (now - wakeupOld) % N
LateBy_wide == IF now >= wakeup THEN now - wakeup ELSE (now + N - wakeupOld) % N
LateBy  == IF now >= wakeup THEN (now - wakeup) % L
           ELSE ((now % L) + ((N - wakeupOld) % L)) % L

Due(t) == Elapsed + ST_SCHEDULE_MARGIN >= t.countdown

Counted(t) == [t EXCEPT !.countdown = IF Due(t) THEN t.interval - LateBy ELSE @ - Elapsed]

(* A task that comes just before the advertisement is done with it. *)
Synced(t) ==
  LET adv == t[TASK_ADV] IN
  [i \in Tasks |->
     IF /\ t[i].enable /\ adv.enable
        /\ t[i].countdown < adv.countdown
        /\ adv.countdown - t[i].countdown < ST_SCHEDULE_MARGIN
     THEN [t[i] EXCEPT !.countdown = adv.countdown]
     ELSE t[i]]

(* The instruction after the sleep turns the interrupts off.  While they    *)
(* are on, a pending one comes before the next step of the main context.    *)
CanInterrupt_woken == pc # "asleep"
CanInterrupt == pc \notin {"asleep", "woken"}
Pending      == (stif /\ stie) \/ rfif
Goto(a, b)   == /\ pc = a
                /\ CanInterrupt => ~Pending
                /\ pc' = b

SleepIsr ==
  /\ stif /\ stie /\ CanInterrupt
  /\ LET due == {i \in Enabled(task) : Due(task[i])} IN
     \E d \in Delays :
       LET counted == [i \in Tasks |-> IF task[i].enable THEN Counted(task[i]) ELSE task[i]]
           delayed == [counted EXCEPT ![TASK_ADV].countdown =
                         IF TASK_ADV \in due THEN @ + d ELSE @]
       IN /\ task' = Synced(delayed)
          /\ SetWakeup(Min({task'[i].countdown : i \in Enabled(task)}))
          /\ triggered' = triggered \cup due
          /\ IF TASK_ADV \in due
             THEN txDone' = FALSE /\ CmdTx
             ELSE UNCHANGED <<txDone, sending, aired>>
  /\ wakeupOld' = now
  /\ stif' = FALSE
  /\ sleepFlag' = FALSE
  /\ waited' = 0
  /\ UNCHANGED <<now, stie, enabledFlag, lle, rfif, chan, timeLeft, powerMode, pc, busy>>

-----------------------------------------------------------------------------
(* The radio and its interrupt.                                            *)

PacketSent ==
  /\ sending
  /\ sending' = FALSE
  /\ rfif' = TRUE
  /\ UNCHANGED <<now, timer, sched, txDone, lle, chan, sleep, pc, pace>>

Later_same == {c \in ActiveChannels : c >= chan}
Later == {c \in ActiveChannels : c > chan}

(* The last channel ends the event; before it the packet goes out again on *)
(* the next one.                                                           *)
RfIsr ==
  /\ rfif /\ CanInterrupt
  /\ rfif' = FALSE
  /\ IF Later # {}
     THEN /\ chan' = Min(Later)
          /\ txDone' = FALSE
          /\ IF lle THEN sending' = TRUE ELSE UNCHANGED sending
     ELSE /\ chan' = firstActiveChannel
          /\ txDone' = TRUE
          /\ UNCHANGED sending
  /\ sleepFlag' = FALSE
  /\ UNCHANGED <<now, timer, sched, lle, timeLeft, powerMode, pc, pace>>

-----------------------------------------------------------------------------
(* Calls of the API, made by the main context.                             *)

(* miniBleSchedulerReset and miniBleSchedulerStart with the tasks t: all    *)
(* the countdowns begin again, the time of the last interrupt stays.        *)
Restart(t) ==
  /\ task' = [i \in Tasks |-> [t[i] EXCEPT !.countdown = t[i].interval]]
  /\ enabledFlag' = (Enabled(t) # {})
  /\ stif' = FALSE
  /\ IF Enabled(t) # {}
     THEN stie' = TRUE /\ SetWakeup(Min({t[i].interval : i \in Enabled(t)}))
     ELSE stie' = FALSE /\ UNCHANGED <<compare, wakeup>>
  /\ waited' = 0
  /\ UNCHANGED wakeupOld

miniBleSchedulerGetTimeSincepreviousEvent == Elapsed

(* miniBleSchedulerScheduleTask *)
ScheduleTask(i) ==
  /\ task' = [task EXCEPT ![i] = [enable |-> TRUE, interval |-> task[i].interval,
                   countdown |-> task[i].interval + miniBleSchedulerGetTimeSincepreviousEvent]]
  /\ wakeup' = now
  /\ stif' = TRUE
  /\ UNCHANGED <<compare, stie, wakeupOld, enabledFlag, waited>>

miniBleEnableTask(i) ==
  IF enabledFlag THEN ScheduleTask(i)
  ELSE Restart([task EXCEPT ![i].enable = TRUE])

(* miniBleSetTaskInterval, SCHEDULE_NOW *)
miniBleSetTaskInterval_one(i, interval) ==
  /\ task' = [task EXCEPT ![i].interval = interval, ![i].countdown = interval]
  /\ UNCHANGED <<stif, stie, enabledFlag, waited, wakeupOld>>
  /\ SetWakeup(interval)
miniBleSetTaskInterval(i, interval) == Restart([task EXCEPT ![i].interval = interval])

(* miniBleSetAdvertisingData takes the payload only between two events;    *)
(* miniBLEPhyLoadPacket only with an idle engine.                          *)
TakesPayload == txDone /\ ~sending

-----------------------------------------------------------------------------
(* miniBleSchedulerEnterSleep, step by step.                               *)

(* miniBleSchedulerGetTimeUntilNextEvent *)
TimeUntilNextEvent ==
  IF stif THEN 0
  ELSE IF now > wakeup THEN N - 1 - now + wakeup
  ELSE wakeup - now - 1

EnterSleep ==
  /\ Goto("loop", IF TimeUntilNextEvent = 0 THEN "collect" ELSE "mode")
  /\ timeLeft' = TimeUntilNextEvent
  /\ sleepFlag' = TRUE
  /\ UNCHANGED <<now, timer, sched, radio, powerMode, pace>>

ChoosePowerMode ==
  /\ LET halt == ~txDone \/ timeLeft < Guard IN
     /\ Goto("mode", IF halt THEN "sleep" ELSE "waitTx")
     /\ powerMode' = IF halt THEN 0 ELSE 2
  /\ timeLeft' = 0      (* Not read any more. *)
  /\ UNCHANGED <<now, timer, sched, radio, sleepFlag, pace>>

WaitTxDone ==
  /\ txDone
  /\ Goto("waitTx", "waitIdle")
  /\ UNCHANGED <<now, timer, sched, radio, sleep, pace>>

WaitLleIdle ==
  /\ ~sending
  /\ Goto("waitIdle", "reset")
  /\ UNCHANGED <<now, timer, sched, radio, sleep, pace>>

(* The reset ends what the engine was sending, without an interrupt. *)
ResetLle ==
  /\ Goto("reset", "sleep")
  /\ lle' = FALSE
  /\ sending' = FALSE
  /\ UNCHANGED <<now, timer, sched, txDone, rfif, chan, sleep, pace>>

(* One instruction reads the flag and sleeps; the next one, after waking,   *)
(* keeps the interrupts off.                                                *)
SleepUsingFlag ==
  /\ Goto("sleep", IF sleepFlag THEN "asleep" ELSE "woken")
  /\ busy' = 0
  /\ UNCHANGED <<now, timer, sched, radio, sleep, waited, aired>>

Wake ==
  /\ Pending
  /\ Goto("asleep", "woken")
  /\ UNCHANGED <<now, timer, sched, radio, sleep, pace>>

EnableLle ==
  /\ Goto("woken", "collect")
  /\ lle' = IF powerMode > 0 THEN TRUE ELSE lle
  /\ powerMode' = 0
  /\ UNCHANGED <<now, timer, sched, txDone, sending, rfif, chan, timeLeft, sleepFlag, pace>>

(* The triggered events are the result. *)
SleepStep == \/ EnterSleep \/ ChoosePowerMode \/ WaitTxDone \/ WaitLleIdle
             \/ ResetLle \/ SleepUsingFlag \/ Wake \/ EnableLle

-----------------------------------------------------------------------------
(* Time passes while the main context waits, and for as long as the bounds *)
(* allow otherwise.                                                        *)
Waiting == \/ pc = "asleep"
           \/ pc = "waitTx" /\ ~txDone
           \/ pc = "waitIdle" /\ sending

Tick ==
  /\ stif /\ stie => waited < Late
  /\ sending \/ rfif => aired < Air
  /\ Waiting \/ busy < Work
  /\ now' = (now + 1) % N
  /\ stif' = (stif \/ now' = compare)
  /\ waited' = IF stif /\ stie THEN waited + 1 ELSE 0
  /\ aired' = IF sending \/ rfif THEN aired + 1 ELSE aired
  /\ busy' = IF Waiting THEN busy ELSE busy + 1
  /\ UNCHANGED <<compare, stie, wakeup, wakeupOld, sched, radio, sleep, pc>>

=============================================================================
