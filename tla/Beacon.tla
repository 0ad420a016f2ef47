------------------------------- MODULE Beacon --------------------------------
(***************************************************************************)
(* The temperature beacon: main() and the task of the sensor on miniBLE.   *)
(* Every Measure ticks a conversion of the DS18B20 is started, and Read    *)
(* ticks later its result becomes the payload of the advertisements.  The  *)
(* 1-Wire slots are timed by the processor with the interrupts on (the     *)
(* critical regions of ow.c are empty), so an interrupt in the middle may  *)
(* spoil a transfer.                                                       *)
(***************************************************************************)
EXTENDS MiniBle

CONSTANTS
  Initial,     (* INTERVAL_INITIAL                                         *)
  Read,        (* INTERVAL_200_mSEC                                        *)
  Measure,     (* CFG_MEASURING_INTERVAL                                   *)
  Adv          (* CFG_ADVERTISING_INTERVAL                                 *)

ASSUME IntervalAssumption ==
  {Initial, Read, Measure, Adv} \subseteq (ST_SCHEDULE_MARGIN + 1)..(N - 1)

(* The longest that the main context can be awake for a measurement or an   *)
(* advertisement.                                                           *)
Awake == Air + 2 * Work

(* What the intervals of the code are long enough for: Initial, 10 ms, for  *)
(* the 6.5 ms of the first transfers; Read, 200 ms, for the 8 ms by which   *)
(* LateBy may be wrong and an advertising event; Adv, 10 s, for Read and    *)
(* some of those; Measure, a minute, for Adv; the timer, 8.5 minutes, for   *)
(* each.                                                                    *)
ASSUME ScaleAssumption ==
  /\ MinLoad <= ST_SCHEDULE_MARGIN /\ Late < L
  /\ L + MinLoad <= Initial
  /\ Work + Late + ST_SCHEDULE_MARGIN < Initial /\ Initial < Read
  /\ L + Awake + Late + ST_SCHEDULE_MARGIN < Read
  /\ Read + 2 * Awake + Late + ST_SCHEDULE_MARGIN < Adv
  /\ L + 3 * Awake + 2 * Late + ST_SCHEDULE_MARGIN < Adv
  /\ Adv + Max(Delays) + L + Work + Late + ST_SCHEDULE_MARGIN < Measure
  /\ Measure + Awake + Late < N

VARIABLES
  state,        (* Of the task of the sensor.                              *)
  initialized,  (* The first payload was sent.                             *)
  sensor,       (* The sensor's result: of the last conversion started, or *)
                (* an older one.                                           *)
  payload,      (* What the advertisements carry, as compared to that.     *)
  spoilt        (* History: an interrupt came during this measurement's    *)
                (* transfers.                                              *)

app  == <<state, initialized, sensor, payload, spoilt>>
vars == <<bleVars, app>>

Init ==
  /\ BleInit([i \in Tasks |-> IF i = TASK_ADV THEN Adv ELSE Initial])
  /\ pc = "boot"
  /\ state = "MEASURE"
  /\ initialized = FALSE
  /\ sensor = "old" /\ payload = "none"
  /\ spoilt = FALSE

(* main() enables the advertisements, then the measurements. *)
Boot ==
  /\ Goto("boot", "boot2")
  /\ miniBleEnableTask(TASK_ADV)
  /\ UNCHANGED <<now, triggered, radio, sleep, busy, aired, app>>
Boot2 ==
  /\ Goto("boot2", "loop")
  /\ miniBleEnableTask(TASK_DAQ)
  /\ UNCHANGED <<now, triggered, radio, sleep, busy, aired, app>>

(* The end of miniBleSchedulerEnterSleep: the events are taken at once.  An *)
(* advertisement asks nothing of the main context.                          *)
Collect ==
  /\ Goto("collect", IF TASK_DAQ \in triggered THEN "wire" ELSE "loop")
  /\ triggered' = {}
  /\ UNCHANGED <<now, timer, enabledFlag, task, radio, sleep, pace, app>>

(* ds18_init and ds18_measure start a conversion, if the sensor gets them.  *)
StartConversion ==
  /\ state = "MEASURE"
  /\ Goto("wire", "resched")
  /\ sensor' \in IF spoilt THEN {"old", "new"} ELSE {"new"}
  /\ payload' = IF payload = "none" THEN "none" ELSE "old"
  /\ UNCHANGED <<now, timer, sched, radio, sleep, pace, state, initialized, spoilt>>

(* ds18_get_temp, then miniBleSetAdvertisingData, whose refusal is ignored, *)
(* and the first time the payload is sent at once.                          *)
ReadConversion ==
  /\ state = "READ"
  /\ Goto("wire", "resched")
  /\ IF TakesPayload
     THEN payload' \in IF spoilt THEN {"old", "new"} ELSE {sensor}
     ELSE UNCHANGED payload
  /\ IF initialized THEN UNCHANGED <<sending, aired>> ELSE CmdTx
  /\ initialized' = TRUE
  /\ UNCHANGED <<now, timer, sched, txDone, lle, rfif, chan, sleep, waited, busy,
                 state, sensor, spoilt>>

(* miniBleSetTaskInterval at the end of temp_sensor_task. *)
Reschedule ==
  /\ Goto("resched", "loop")
  /\ IF state = "MEASURE"
     THEN miniBleSetTaskInterval(TASK_DAQ, Read) /\ state' = "READ" /\ UNCHANGED spoilt
     ELSE miniBleSetTaskInterval(TASK_DAQ, Measure) /\ state' = "MEASURE" /\ spoilt' = FALSE
  /\ UNCHANGED <<now, triggered, radio, sleep, busy, aired, initialized, sensor, payload>>

MainStep == \/ Boot \/ Boot2 \/ Collect \/ StartConversion \/ ReadConversion \/ Reschedule
            \/ SleepStep /\ UNCHANGED app

Interrupt == /\ SleepIsr \/ RfIsr
             /\ spoilt' = (spoilt \/ pc = "wire")
             /\ UNCHANGED <<state, initialized, sensor, payload>>

Next == \/ MainStep
        \/ Interrupt
        \/ PacketSent /\ UNCHANGED app
        \/ Tick /\ UNCHANGED app

Spec == Init /\ [][Next]_vars

(* The processor runs, interrupts are served, and time passes. *)
FairSpec == /\ Spec
            /\ WF_vars(MainStep)
            /\ WF_vars(Interrupt)
            /\ WF_vars(PacketSent /\ UNCHANGED app)
            /\ WF_vars(Tick /\ UNCHANGED app)

-----------------------------------------------------------------------------
Horizon == Measure + Adv

TypeOK ==
  /\ now \in 0..N - 1 /\ compare \in 0..N
  /\ {stif, stie, enabledFlag, txDone, lle, sending, rfif, sleepFlag, initialized, spoilt}
       \subseteq BOOLEAN
  /\ wakeup \in 0..N + Horizon /\ wakeupOld \in 0..N - 1
  /\ task \in [Tasks -> [enable : BOOLEAN, countdown : 0..Horizon, interval : 1..N - 1]]
  /\ triggered \subseteq Tasks
  /\ chan \in ActiveChannels
  /\ pc \in {"boot", "boot2", "loop", "mode", "waitTx", "waitIdle", "reset", "sleep",
             "asleep", "woken", "collect", "wire", "resched"}
  /\ timeLeft \in 0..N + Horizon /\ powerMode \in {0, 2}
  /\ waited \in 0..Late /\ busy \in 0..Work /\ aired \in 0..Air
  /\ state \in {"MEASURE", "READ"}
  /\ sensor \in {"old", "new"} /\ payload \in {"none", "old", "new"}

(* A running scheduler has its next interrupt ahead: the compare value was  *)
(* never loaded too late, when it would come one turn of the timer, 8.5     *)
(* minutes, later.                                                          *)
AlarmAhead ==
  enabledFlag => /\ stie
                 /\ stif \/ /\ compare # Missed
                            /\ (compare - now) % N \in 1..Adv + Max(Delays)

(* The interrupt for each event comes. *)
WakesForEvents == TypeOK /\ AlarmAhead

(* Every payload that a measurement makes gets to the radio: the refusal    *)
(* that temp_sensor_task ignores never happens, because each new interval   *)
(* puts off the advertisement too.                                          *)
PayloadIsTaken == [][ReadConversion /\ ~spoilt /\ sensor = "new" => payload' = "new"]_vars

(* A transmission is only commanded to an engine that is out of reset, also *)
(* by the interrupt that ends a sleep; and the engine is not reset while it *)
(* sends: "Wait for the LLE to become idle before setting the LLE in reset."*)
EngineIsReady ==
  [][/\ (SleepIsr \/ RfIsr) /\ ~txDone' => lle
     /\ ResetLle => ~sending]_vars

(* Measurements and advertisements go on for ever, and the device never     *)
(* sleeps on a measurement that is due.  The look at the time that is left  *)
(* overwrites the flag with which an interrupt just before it wants to keep *)
(* the device awake; with these intervals none comes there.                 *)
GoesOnForEver == /\ [](pc = "asleep" => TASK_DAQ \notin triggered)
                 /\ []<><<ReadConversion>>_vars
                 /\ []<>(sending /\ txDone = FALSE)

(* "Calculate the delta/difference in time between globalWakeupTime and     *)
(* timeNow": an interrupt knows how late it is.  After a wrap of the timer  *)
(* sleep_isr takes the difference to the interrupt before instead.          *)
LatenessIsCounted == [][SleepIsr => LateBy = (now - wakeup) % N]_vars
=============================================================================
