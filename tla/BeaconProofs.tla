----------------------------- MODULE BeaconProofs -----------------------------
(* Theorems about Beacon, for any lengths of the intervals, of the work and     *)
(* of the air time that ScaleAssumption relates, and any turns of the timer.    *)
EXTENDS Beacon, TLAPS

MaxDelay == Max(Delays)

(* What the proofs talk about: the time since the last interrupt of the timer,  *)
(* the time until the next one, and the two tasks.                              *)
Left     == (compare - now) % N
advCount == task[TASK_ADV].countdown
daqCount == task[TASK_DAQ].countdown
daqEvery == task[TASK_DAQ].interval
Started  == pc \notin {"boot", "boot2"}
Task     == [enable : BOOLEAN, countdown : 0..Horizon, interval : 1..N - 1]

TasksRight ==
  /\ task[TASK_ADV].interval = Adv
  /\ daqEvery = IF state = "READ" THEN Read ELSE IF initialized THEN Measure ELSE Initial
  /\ pc = "boot" => task[TASK_ADV].enable = FALSE /\ enabledFlag = FALSE /\ stie = FALSE
  /\ pc # "boot" => task[TASK_ADV].enable = TRUE /\ enabledFlag = TRUE /\ stie = TRUE
  /\ Started => task[TASK_DAQ].enable = TRUE
  /\ ~Started => task[TASK_DAQ].enable = FALSE
  /\ advCount <= Adv + MaxDelay
  /\ pc = "resched" /\ state = "READ" => initialized

CompareRight == enabledFlag /\ ~stif => compare = wakeup % N

Booting ==
  /\ ~Started => /\ now = busy /\ wakeupOld = 0 /\ ~stif /\ state = "MEASURE" /\ ~initialized
                 /\ ~sending /\ ~rfif /\ txDone /\ lle /\ triggered = {}
  /\ pc = "boot" => compare = 0 /\ daqCount = Initial
  /\ pc = "boot2" => advCount = Adv /\ Left >= Adv - busy

AlarmInv == TypeOK /\ AlarmAhead /\ TasksRight /\ CompareRight /\ Booting

------------------------------------------------------------------------------
(* The least and the largest of what is compared.                               *)

LEMMA MaxDelayType == MaxDelay \in Nat /\ \A d \in Delays : d \in Nat /\ d <= MaxDelay
<1>1. PICK d \in Delays : \A e \in Delays : e <= d
  BY TimerAssumption
<1>2. \A e \in Delays : d >= e
  BY <1>1, TimerAssumption
<1>3. MaxDelay \in Delays /\ \A e \in Delays : MaxDelay >= e
  BY <1>2 DEF MaxDelay, Max
<1> QED
  BY <1>3, TimerAssumption

LEMMA MinOne == ASSUME NEW x \in Int PROVE Min({x}) = x
BY DEF Min

LEMMA MinTwo ==
  ASSUME NEW x \in Int, NEW y \in Int
  PROVE  Min({x, y}) = IF x <= y THEN x ELSE y
BY DEF Min

LEMMA MinChannel ==
  ASSUME NEW S \in SUBSET {37, 38, 39}, S # {}
  PROVE  Min(S) \in S
<1>1. \E x \in S : \A y \in S : x =< y
  <2>1. CASE 37 \in S
    BY <2>1
  <2>2. CASE 37 \notin S /\ 38 \in S
    BY <2>2
  <2>3. CASE 37 \notin S /\ 38 \notin S
    <3>1. PICK x \in S : TRUE
      OBVIOUS
    <3>2. \A y \in S : y = 39
      BY <2>3
    <3> QED
      BY <3>1, <3>2
  <2> QED
    BY <2>1, <2>2, <2>3
<1> QED
  BY <1>1 DEF Min

------------------------------------------------------------------------------
(* The timer, which turns around.                                               *)

LEMMA Turns ==
  ASSUME NEW r \in (-N) .. 2 * N - 1
  PROVE  r % N = IF r < 0 THEN r + N ELSE IF r < N THEN r ELSE r - N
BY TimerAssumption

LEMMA ElapsedIs ==
  ASSUME now \in 0..N - 1, wakeupOld \in 0..N - 1
  PROVE  /\ Elapsed = IF now >= wakeupOld THEN now - wakeupOld ELSE now - wakeupOld + N
         /\ Elapsed \in 0..N - 1
<1> DEFINE r == now - wakeupOld
<1>1. r \in (-N) .. 2 * N - 1 /\ r < N
  BY TimerAssumption
<1> HIDE DEF r
<1>2. r % N = IF r < 0 THEN r + N ELSE r
  BY <1>1, Turns
<1> QED
  BY <1>2, TimerAssumption DEF r, Elapsed

LEMMA LeftIs ==
  ASSUME now \in 0..N - 1, compare \in 0..N - 1
  PROVE  /\ Left = IF compare >= now THEN compare - now ELSE compare - now + N
         /\ Left \in 0..N - 1
<1> DEFINE r == compare - now
<1>1. r \in (-N) .. 2 * N - 1 /\ r < N
  BY TimerAssumption
<1> HIDE DEF r
<1>2. r % N = IF r < 0 THEN r + N ELSE r
  BY <1>1, Turns
<1> QED
  BY <1>2, TimerAssumption DEF r, Left

(* A compare value that is far enough ahead comes when it should.               *)
LEMMA SetsWakeup ==
  ASSUME now \in 0..N - 1, now' = now, NEW t \in MinLoad + 1 .. N - 1, SetWakeup(t)
  PROVE  /\ wakeup' = now + t /\ compare' = wakeup' % N
         /\ compare' \in 0..N - 1 /\ compare' # Missed /\ Left' = t
<1>1. wakeup' = now + t /\ compare' = (now + t) % N /\ t \in 1..N - 1
  BY TimerAssumption DEF SetWakeup
<1> DEFINE r == now + t
<1>2. r \in (-N) .. 2 * N - 1 /\ r >= 0 /\ r \in Nat
  BY <1>1, TimerAssumption
<1> HIDE DEF r
<1>3. r % N = IF r < N THEN r ELSE r - N
  BY <1>2, Turns
<1>4. compare' = IF now + t < N THEN now + t ELSE now + t - N
  <2>1. compare' = r % N
    BY <1>1 DEF r
  <2>2. compare' = IF r < N THEN r ELSE r - N
    BY <2>1, <1>3
  <2> QED
    BY <2>2, <1>1, TimerAssumption DEF r
<1>5. compare' \in 0..N - 1 /\ now' \in 0..N - 1
  BY <1>1, <1>4, TimerAssumption
<1> DEFINE q == compare' - now'
<1>6. q \in (-N) .. 2 * N - 1 /\ q < N /\ q = IF now + t < N THEN t ELSE t - N
  BY <1>1, <1>4, <1>5, TimerAssumption
<1> HIDE DEF q
<1>7. q % N = t
  BY <1>1, <1>6, Turns, TimerAssumption
<1> QED
  BY <1>1, <1>4, <1>5, <1>7, TimerAssumption DEF q, Left, Missed

LEMMA TickOfTimer ==
  ASSUME now \in 0..N - 1, wakeupOld \in 0..N - 1, Tick
  PROVE  /\ now' \in 0..N - 1 /\ now' = IF now = N - 1 THEN 0 ELSE now + 1
         /\ Elapsed < N - 1 => Elapsed' = Elapsed + 1
         /\ compare \in 0..N - 1 =>
              IF Left = 0 THEN N > 1 => now' # compare
              ELSE Left' = Left - 1 /\ (now' = compare <=> Left = 1)
<1>1. /\ now' = (now + 1) % N /\ wakeupOld' = wakeupOld /\ compare' = compare
  BY DEF Tick
<1> DEFINE r == now + 1
<1>2. r \in (-N) .. 2 * N - 1 /\ r >= 0
  BY TimerAssumption
<1> HIDE DEF r
<1>3. r % N = IF r < N THEN r ELSE r - N
  BY <1>2, Turns
<1>4. now' \in 0..N - 1 /\ now' = IF now = N - 1 THEN 0 ELSE now + 1
  BY <1>1, <1>3, TimerAssumption DEF r
<1>5. /\ Elapsed = IF now >= wakeupOld THEN now - wakeupOld ELSE now - wakeupOld + N
      /\ Elapsed \in 0..N - 1
  BY ElapsedIs
<1> DEFINE e == now' - wakeupOld
<1>6. e \in (-N) .. 2 * N - 1 /\ e < N
  BY <1>4, TimerAssumption
<1> HIDE DEF e
<1>7. e % N = IF e < 0 THEN e + N ELSE e
  BY <1>6, Turns
<1>8. Elapsed' = IF now' >= wakeupOld THEN now' - wakeupOld ELSE now' - wakeupOld + N
  BY <1>1, <1>4, <1>7, TimerAssumption DEF e, Elapsed
<1>9. Elapsed < N - 1 => Elapsed' = Elapsed + 1
  BY <1>4, <1>5, <1>8, TimerAssumption
<1>10. ASSUME compare \in 0..N - 1
       PROVE  IF Left = 0 THEN N > 1 => now' # compare
              ELSE Left' = Left - 1 /\ (now' = compare <=> Left = 1)
  <2>1. /\ Left = IF compare >= now THEN compare - now ELSE compare - now + N
        /\ Left \in 0..N - 1
    BY <1>10, LeftIs
  <2> DEFINE q == compare - now'
  <2>2. q \in (-N) .. 2 * N - 1 /\ q < N
    BY <1>4, <1>10, TimerAssumption
  <2> HIDE DEF q
  <2>3. q % N = IF q < 0 THEN q + N ELSE q
    BY <2>2, Turns
  <2>4. Left' = IF compare >= now' THEN compare - now' ELSE compare - now' + N
    BY <1>1, <1>4, <1>10, <2>3, TimerAssumption DEF q, Left
  <2> QED
    BY <1>4, <1>10, <2>1, <2>4, TimerAssumption
<1> QED
  BY <1>4, <1>9, <1>10

------------------------------------------------------------------------------
(* The constants, as numbers.                                                   *)
LEMMA Sizes ==
  /\ N \in Nat /\ L \in Nat /\ MinLoad \in Nat /\ ST_SCHEDULE_MARGIN \in Nat
  /\ N > 0 /\ L > 0 /\ ST_SCHEDULE_MARGIN > 0
  /\ Late \in Nat /\ Work \in Nat /\ Air \in Nat
  /\ Awake \in Nat /\ Awake = Air + 2 * Work /\ MaxDelay \in Nat
  /\ \A i \in {Initial, Read, Measure, Adv} :
       i \in Nat /\ i > ST_SCHEDULE_MARGIN /\ i < N /\ i >= L + MinLoad
  /\ Initial >= L + MinLoad /\ Read >= L + MinLoad
  /\ Measure >= L + MinLoad /\ Adv >= L + MinLoad
  /\ Initial \in Nat /\ Read \in Nat /\ Measure \in Nat /\ Adv \in Nat
  /\ MinLoad <= ST_SCHEDULE_MARGIN /\ Late < L
  /\ Work + Late + ST_SCHEDULE_MARGIN < Initial /\ Initial < Read
  /\ L + Awake + Late + ST_SCHEDULE_MARGIN < Read
  /\ Read + 2 * Awake + Late + ST_SCHEDULE_MARGIN < Adv
  /\ L + 3 * Awake + 2 * Late + ST_SCHEDULE_MARGIN < Adv
  /\ Adv + MaxDelay + L + Work + Late + ST_SCHEDULE_MARGIN < Measure
  /\ Measure + Awake + Late < N
  /\ Horizon \in Nat /\ Horizon = Measure + Adv
<1>1. /\ N \in Nat /\ L \in Nat /\ MinLoad \in Nat /\ ST_SCHEDULE_MARGIN \in Nat
      /\ N > 0 /\ L > 0 /\ ST_SCHEDULE_MARGIN > 0
      /\ Late \in Nat /\ Work \in Nat /\ Air \in Nat
  BY TimerAssumption
<1>2. Awake \in Nat /\ Awake = Air + 2 * Work
  BY <1>1 DEF Awake
<1>3. MaxDelay \in Nat
  BY MaxDelayType
<1>4. \A i \in {Initial, Read, Measure, Adv} : i \in Nat /\ i > ST_SCHEDULE_MARGIN /\ i < N
  BY <1>1, IntervalAssumption
<1>5. /\ Initial \in Nat /\ Read \in Nat /\ Measure \in Nat /\ Adv \in Nat
  BY <1>4
<1>6. /\ MinLoad <= ST_SCHEDULE_MARGIN /\ Late < L
      /\ L + MinLoad <= Initial
      /\ Work + Late + ST_SCHEDULE_MARGIN < Initial /\ Initial < Read
      /\ L + Awake + Late + ST_SCHEDULE_MARGIN < Read
      /\ Read + 2 * Awake + Late + ST_SCHEDULE_MARGIN < Adv
      /\ L + 3 * Awake + 2 * Late + ST_SCHEDULE_MARGIN < Adv
      /\ Adv + MaxDelay + L + Work + Late + ST_SCHEDULE_MARGIN < Measure
      /\ Measure + Awake + Late < N
  BY ScaleAssumption DEF MaxDelay
<1>7. /\ Initial >= L + MinLoad /\ Read >= L + MinLoad
      /\ Measure >= L + MinLoad /\ Adv >= L + MinLoad
  BY <1>1, <1>2, <1>3, <1>5, <1>6
<1>8. Horizon \in Nat /\ Horizon = Measure + Adv
  BY <1>5 DEF Horizon
<1> QED
  BY <1>1, <1>2, <1>3, <1>4, <1>5, <1>6, <1>7, <1>8

(* How late an interrupt finds itself is never an interval.                     *)
LEMMA LateByType ==
  ASSUME now \in 0..N - 1, wakeup \in Nat, wakeupOld \in 0..N - 1
  PROVE  /\ LateBy \in 0..L - 1
         /\ now >= wakeup /\ now - wakeup < L => LateBy = now - wakeup
<1>1. N \in Nat /\ L \in Nat /\ L > 0
  BY Sizes
<1>2. \A k \in Int : k % L \in 0..L - 1
  BY <1>1
<1>3. \A k \in Int : 0 <= k /\ k < L => k % L = k
  BY <1>1
<1>4. CASE now >= wakeup
  <2> DEFINE k == now - wakeup
  <2>1. LateBy = k % L /\ k \in Int /\ 0 <= k
    BY <1>1, <1>4 DEF LateBy
  <2> HIDE DEF k
  <2>2. LateBy \in 0..L - 1 /\ (k < L => LateBy = k)
    BY <1>2, <1>3, <2>1
  <2> QED
    BY <2>2 DEF k
<1>5. CASE ~(now >= wakeup)
  <2> DEFINE k == (now % L) + ((N - wakeupOld) % L)
  <2>1. now \in Int /\ N - wakeupOld \in Int
    BY <1>1
  <2>2. now % L \in 0..L - 1 /\ (N - wakeupOld) % L \in 0..L - 1
    BY <1>2, <2>1
  <2>3. k \in Int
    BY <1>1, <2>2
  <2>4. LateBy = k % L
    BY <1>5 DEF LateBy
  <2> HIDE DEF k
  <2> QED
    BY <1>2, <1>5, <2>3, <2>4
<1> QED
  BY <1>4, <1>5

LEMMA TaskFields ==
  ASSUME TypeOK
  PROVE  /\ task = [i \in Tasks |-> [enable |-> task[i].enable, countdown |-> task[i].countdown,
                                     interval |-> task[i].interval]]
         /\ \A i \in Tasks : /\ task[i].enable \in BOOLEAN /\ task[i].countdown \in 0..Horizon
                             /\ task[i].interval \in 1..N - 1
         /\ advCount \in 0..Horizon /\ daqCount \in 0..Horizon /\ daqEvery \in 1..N - 1
BY DEF TypeOK, Tasks, TASK_ADV, TASK_DAQ, advCount, daqCount, daqEvery

------------------------------------------------------------------------------
(* A countdown alone is changed.                                                *)

On(interval, countdown) == [enable |-> TRUE, interval |-> interval, countdown |-> countdown]
Recount(t, countdown)   == [t EXCEPT !.countdown = countdown]

LEMMA Recounts ==
  ASSUME NEW v, NEW c, NEW x
  PROVE  Recount(On(v, c), x) = On(v, x)
<1> DEFINE on == TRUE
<1> HIDE DEF on
<1>1. [[enable |-> on, interval |-> v, countdown |-> c] EXCEPT !.countdown = x]
        = [enable |-> on, interval |-> v, countdown |-> x]
  BY SMT
<1> QED
  BY <1>1, Zenon DEF Recount, On, on

LEMMA RecountsOne ==
  ASSUME NEW f, f = [i \in Tasks |-> f[i]], NEW x
  PROVE  /\ [f EXCEPT !["ADV"].countdown = x]["ADV"] = Recount(f["ADV"], x)
         /\ [f EXCEPT !["ADV"].countdown = x]["DAQ"] = f["DAQ"]
BY DEF Tasks, TASK_ADV, TASK_DAQ, Recount

LEMMA SyncedIs ==
  ASSUME NEW y, NEW xa \in Int, NEW cd \in Int, NEW v,
         y["ADV"] = On(Adv, xa),
         y["DAQ"] = On(v, cd)
  PROVE  /\ Synced(y) = [i \in Tasks |-> Synced(y)[i]]
         /\ Synced(y)["ADV"] = y["ADV"]
         /\ Synced(y)["DAQ"] = IF cd < xa /\ xa - cd < ST_SCHEDULE_MARGIN
                               THEN On(v, xa)
                               ELSE y["DAQ"]
<1> USE DEF TASK_ADV, TASK_DAQ
<1>1. Synced(y) = [i \in Tasks |-> Synced(y)[i]]
  BY DEF Synced
<1>2. /\ y["ADV"].enable = TRUE /\ y["DAQ"].enable = TRUE /\ y["ADV"].countdown = xa
      /\ y["DAQ"].countdown = cd
  BY DEF On
<1>3. Synced(y)["ADV"] = y["ADV"]
  <2>1. ~(y["ADV"].countdown < y["ADV"].countdown)
    BY <1>2
  <2> QED
    BY <2>1 DEF Synced, Tasks
<1>4. Synced(y)["DAQ"] = IF cd < xa /\ xa - cd < ST_SCHEDULE_MARGIN
                         THEN Recount(y["DAQ"], xa) ELSE y["DAQ"]
  BY <1>2, Zenon DEF Synced, Tasks, Recount
<1>5. Recount(y["DAQ"], xa) = On(v, xa)
  <2>1. Recount(On(v, cd), xa) = On(v, xa)
    BY Recounts, Zenon
  <2> QED
    BY <2>1, Zenon
<1> QED
  BY <1>1, <1>3, <1>4, <1>5, Zenon

------------------------------------------------------------------------------
(* What the interrupt does to the countdowns.                                   *)

AdvDue == Elapsed + ST_SCHEDULE_MARGIN >= advCount
DaqDue == Elapsed + ST_SCHEDULE_MARGIN >= daqCount
daqNext == IF DaqDue THEN daqEvery - LateBy ELSE daqCount - Elapsed
Least(x, y) == IF x <= y THEN x ELSE y
First == Least(advCount, daqCount)

(* Both tasks are scheduled when an interrupt can come.                         *)
IsrCounts ==
  /\ stif /\ stie /\ Started
  /\ advCount' \in Nat /\ daqCount' \in Nat
  /\ AdvDue => advCount' >= Adv - LateBy /\ advCount' <= Adv - LateBy + MaxDelay
  /\ ~AdvDue => advCount' = advCount - Elapsed
  /\ daqCount' = IF daqNext < advCount' /\ advCount' - daqNext < ST_SCHEDULE_MARGIN
                 THEN advCount' ELSE daqNext
  /\ First' > MinLoad /\ First' <= Adv + MaxDelay
  /\ LateBy \in 0..L - 1
  /\ task' \in [Tasks -> Task]
  /\ \A i \in Tasks : task'[i].enable = task[i].enable /\ task'[i].interval = task[i].interval
  /\ SetWakeup(First')
  /\ triggered' = triggered \cup ((IF AdvDue THEN {TASK_ADV} ELSE {}) \cup
                                  (IF DaqDue THEN {TASK_DAQ} ELSE {}))
  /\ IF AdvDue THEN txDone' = FALSE /\ CmdTx ELSE UNCHANGED <<txDone, sending, aired>>

LEMMA IsrOnTasks ==
  ASSUME AlarmInv, SleepIsr
  PROVE  IsrCounts
<1> USE DEF TASK_ADV, TASK_DAQ
<1>1. /\ stif /\ stie /\ Started /\ Enabled(task) = Tasks
      /\ now \in 0..N - 1 /\ wakeup \in Nat /\ wakeupOld \in 0..N - 1
  <2>1. stif /\ stie /\ Started
    BY DEF SleepIsr, AlarmInv, Booting
  <2>2. \A i \in Tasks : task[i].enable = TRUE
    BY <2>1 DEF AlarmInv, TasksRight, Tasks, Started
  <2>3. Enabled(task) = Tasks
    BY <2>2 DEF Enabled
  <2> QED
    BY <2>1, <2>3 DEF AlarmInv, TypeOK
<1>2. LateBy \in 0..L - 1 /\ Elapsed \in 0..N - 1
  BY <1>1, LateByType, ElapsedIs
<1> DEFINE due == {i \in Tasks : Due(task[i])}
           counted == [i \in Tasks |-> Counted(task[i])]
           delayed(d) == [counted EXCEPT !["ADV"].countdown = IF "ADV" \in due THEN @ + d ELSE @]
<1>3. PICK d \in Delays :
        /\ task' = Synced(delayed(d))
        /\ SetWakeup(Min({task'[i].countdown : i \in Tasks}))
        /\ triggered' = triggered \cup due
        /\ IF "ADV" \in due THEN txDone' = FALSE /\ CmdTx ELSE UNCHANGED <<txDone, sending, aired>>
  <2>1. \A i \in Tasks : task[i].enable
    BY <1>1 DEF Enabled
  <2>2. [i \in Tasks |-> IF task[i].enable THEN Counted(task[i]) ELSE task[i]] = counted
    BY <2>1, Zenon
  <2>3. {i \in Enabled(task) : Due(task[i])} = due
    BY <1>1, Zenon
  <2> DEFINE Effect(c, D, T, d) ==
        LET y == [c EXCEPT !["ADV"].countdown = IF "ADV" \in D THEN @ + d ELSE @]
        IN  /\ task' = Synced(y)
            /\ SetWakeup(Min({task'[i].countdown : i \in T}))
            /\ triggered' = triggered \cup D
            /\ IF "ADV" \in D THEN txDone' = FALSE /\ CmdTx ELSE UNCHANGED <<txDone, sending, aired>>
  <2>4. \E d \in Delays :
          Effect([i \in Tasks |-> IF task[i].enable THEN Counted(task[i]) ELSE task[i]],
                 {i \in Enabled(task) : Due(task[i])}, Enabled(task), d)
    BY Zenon DEF SleepIsr
  <2> HIDE DEF Effect, counted, due
  <2>5. \E d \in Delays : Effect(counted, due, Tasks, d)
    BY <1>1, <2>2, <2>3, <2>4, Zenon
  <2> QED
    BY <2>5, Zenon DEF Effect
<1>4. ("ADV" \in due <=> AdvDue) /\ ("DAQ" \in due <=> DaqDue)
  BY DEF Tasks, Due, AdvDue, DaqDue, advCount, daqCount
<1>5. d \in Nat /\ d <= MaxDelay
  BY MaxDelayType
<1>6. /\ advCount \in 0..Horizon /\ daqCount \in 0..Horizon /\ task["ADV"].interval = Adv
      /\ advCount <= Adv + MaxDelay /\ daqEvery \in {Initial, Read, Measure}
      /\ \A i \in Tasks : /\ task[i].enable \in BOOLEAN /\ task[i].countdown \in 0..Horizon
                          /\ task[i].interval \in 1..N - 1
      /\ task = [i \in Tasks |-> [enable |-> task[i].enable, countdown |-> task[i].countdown,
                                  interval |-> task[i].interval]]
      /\ task["ADV"].enable = TRUE /\ task["DAQ"].enable = TRUE
  BY <1>1, TaskFields DEF AlarmInv, TasksRight, Started
<1> DEFINE ca == IF AdvDue THEN Adv - LateBy ELSE advCount - Elapsed
           cd == daqNext
<1>7. /\ counted["ADV"] = On(Adv, ca)
      /\ counted["DAQ"] = On(daqEvery, cd)
  <2>1. /\ task["ADV"] = On(Adv, advCount)
        /\ task["DAQ"] = On(daqEvery, daqCount)
    BY <1>6 DEF Tasks, advCount, daqCount, daqEvery, On
  <2>2. /\ Due(task["ADV"]) <=> AdvDue
        /\ Due(task["DAQ"]) <=> DaqDue
    BY DEF Due, AdvDue, DaqDue, advCount, daqCount
  <2>3. /\ counted["ADV"] = Recount(task["ADV"], ca)
        /\ counted["DAQ"] = Recount(task["DAQ"], cd)
    BY <1>6, <2>2 DEF Tasks, Counted, daqNext, advCount, daqCount, daqEvery, Recount
  <2> HIDE DEF counted, ca, cd
  <2>4. Recount(On(Adv, advCount), ca) = On(Adv, ca)
    BY Recounts, Zenon
  <2>5. Recount(On(daqEvery, daqCount), cd) = On(daqEvery, cd)
    BY Recounts, Zenon
  <2>6. counted["ADV"] = On(Adv, ca)
    BY <2>1, <2>3, <2>4, Zenon
  <2>7. counted["DAQ"] = On(daqEvery, cd)
    BY <2>1, <2>3, <2>5, Zenon
  <2> QED
    BY <2>6, <2>7, Zenon
<1> HIDE DEF counted, due
<1> DEFINE xa == IF AdvDue THEN ca + d ELSE ca
<1>8. /\ delayed(d)["ADV"] = On(Adv, xa)
      /\ delayed(d)["DAQ"] = On(daqEvery, cd)
  <2>1. counted = [i \in Tasks |-> counted[i]]
    BY DEF counted
  <2> HIDE DEF ca, cd
  <2> DEFINE z == IF "ADV" \in due THEN counted["ADV"].countdown + d
                                   ELSE counted["ADV"].countdown
  <2>2. delayed(d) = [counted EXCEPT !["ADV"].countdown = z]
    BY Zenon
  <2>3. counted["ADV"].countdown = ca
    BY <1>7 DEF On
  <2>4. z = xa
    BY <1>4, <2>3, Zenon
  <2> HIDE DEF delayed, z
  <2>5. /\ [counted EXCEPT !["ADV"].countdown = z]["ADV"] = Recount(counted["ADV"], z)
        /\ [counted EXCEPT !["ADV"].countdown = z]["DAQ"] = counted["DAQ"]
    BY <2>1, RecountsOne
  <2> HIDE DEF xa
  <2>6. Recount(On(Adv, ca), xa) = On(Adv, xa)
    BY Recounts, Zenon
  <2>7. delayed(d)["ADV"] = On(Adv, xa)
    BY <1>7, <2>2, <2>4, <2>5, <2>6, Zenon
  <2>8. delayed(d)["DAQ"] = On(daqEvery, cd)
    BY <1>7, <2>2, <2>5, Zenon
  <2> QED
    BY <2>7, <2>8, Zenon
<1> HIDE DEF delayed
<1> DEFINE xd == IF cd < xa /\ xa - cd < ST_SCHEDULE_MARGIN THEN xa ELSE cd
<1>9. /\ task'["ADV"] = On(Adv, xa)
      /\ task'["DAQ"] = On(daqEvery, xd)
      /\ task' = [i \in Tasks |-> task'[i]]
  <2>1. xa \in Int /\ cd \in Int /\ ST_SCHEDULE_MARGIN \in Int
    BY <1>2, <1>5, <1>6, Sizes DEF daqNext
  <2> HIDE DEF xa, cd
  <2>2. task' = Synced(delayed(d))
    BY <1>3
  <2>3. /\ task' = [i \in Tasks |-> task'[i]]
        /\ task'["ADV"] = delayed(d)["ADV"]
        /\ task'["DAQ"] = IF cd < xa /\ xa - cd < ST_SCHEDULE_MARGIN
                          THEN On(daqEvery, xa)
                          ELSE delayed(d)["DAQ"]
    <3> DEFINE y == delayed(d)
    <3> HIDE DEF y
    <3>1. /\ y["ADV"] = On(Adv, xa)
          /\ y["DAQ"] = On(daqEvery, cd)
      BY <1>8, Zenon DEF y
    <3>2. /\ Synced(y) = [i \in Tasks |-> Synced(y)[i]]
          /\ Synced(y)["ADV"] = y["ADV"]
          /\ Synced(y)["DAQ"] = IF cd < xa /\ xa - cd < ST_SCHEDULE_MARGIN
                               THEN On(daqEvery, xa)
                               ELSE y["DAQ"]
      BY <2>1, <3>1, SyncedIs
    <3>3. task' = Synced(y)
      BY <2>2, Zenon DEF y
    <3> QED
      BY <3>2, <3>3, Zenon DEF y
  <2>4. task'["DAQ"] = On(daqEvery, xd)
    <3>1. CASE cd < xa /\ xa - cd < ST_SCHEDULE_MARGIN
      BY <2>3, <3>1, Zenon
    <3>2. CASE ~(cd < xa /\ xa - cd < ST_SCHEDULE_MARGIN)
      BY <1>8, <2>3, <3>2, Zenon
    <3> QED
      BY <3>1, <3>2, Zenon
  <2> QED
    BY <1>8, <2>3, <2>4, Zenon
<1>10. /\ xa \in Nat /\ xa > MinLoad /\ xa <= Adv + MaxDelay
       /\ AdvDue => xa >= Adv - LateBy /\ xa <= Adv - LateBy + MaxDelay
       /\ ~AdvDue => xa = advCount - Elapsed
  BY <1>2, <1>5, <1>6, Sizes DEF AdvDue
<1>11. cd \in Nat /\ cd > MinLoad /\ cd <= Horizon
  <2>1. CASE DaqDue
    <3>1. /\ cd = daqEvery - LateBy /\ LateBy \in Int /\ LateBy >= 0 /\ LateBy < L
          /\ L \in Int /\ MinLoad \in Int
      BY <1>2, <2>1, Sizes DEF daqNext
    <3>2. daqEvery \in Int /\ daqEvery >= L + MinLoad /\ daqEvery <= Measure
      <4>1. Initial <= Measure /\ Read <= Measure
        BY Sizes
      <4>2. daqEvery = Initial \/ daqEvery = Read \/ daqEvery = Measure
        BY <1>6
      <4> QED
        BY <4>1, <4>2, Sizes
    <3> HIDE DEF cd
    <3> QED
      BY <3>1, <3>2, Sizes
  <2>2. CASE ~DaqDue
    BY <1>2, <1>6, <2>2, Sizes DEF daqNext, DaqDue
  <2> QED
    BY <2>1, <2>2
<1> HIDE DEF xa, cd
<1>12. xd \in Nat /\ xd > MinLoad /\ xd <= Horizon
  BY <1>10, <1>11, Sizes
<1>13. advCount' = xa /\ daqCount' = xd /\ daqEvery' = daqEvery
  BY <1>9 DEF advCount, daqCount, daqEvery, On
<1> HIDE DEF xd
<1>14. First' \in Nat /\ First' > MinLoad /\ First' <= Adv + MaxDelay
  BY <1>10, <1>12, <1>13, Sizes DEF First, Least
<1>15. Min({task'[i].countdown : i \in Tasks}) = First'
  <2>1. {task'[i].countdown : i \in Tasks} = {xa, xd}
    BY <1>9 DEF Tasks, On
  <2>2. Min({xa, xd}) = IF xa <= xd THEN xa ELSE xd
    BY <1>10, <1>12, MinTwo
  <2> QED
    BY <1>13, <2>1, <2>2 DEF First, Least
<1>16. task' \in [Tasks -> Task]
  <2>1. Adv \in 1..N - 1 /\ daqEvery \in 1..N - 1 /\ xa \in 0..Horizon /\ xd \in 0..Horizon
    BY <1>6, <1>10, <1>12, Sizes
  <2>2. task'["ADV"] \in Task /\ task'["DAQ"] \in Task
    BY <1>9, <2>1 DEF Task, On
  <2> QED
    BY <1>9, <2>2 DEF Tasks
<1>17. \A i \in Tasks : task'[i].enable = task[i].enable /\ task'[i].interval = task[i].interval
  <2>1. task["ADV"].interval = Adv /\ task["ADV"].enable = TRUE /\ task["DAQ"].enable = TRUE
    BY <1>6
  <2>2. task'["ADV"].enable = TRUE /\ task'["ADV"].interval = Adv
    BY <1>9 DEF On
  <2>3. task'["DAQ"].enable = TRUE /\ task'["DAQ"].interval = task["DAQ"].interval
    BY <1>9 DEF daqEvery, On
  <2> QED
    BY <2>1, <2>2, <2>3 DEF Tasks
<1>18. triggered' = triggered \cup ((IF AdvDue THEN {"ADV"} ELSE {}) \cup
                                    (IF DaqDue THEN {"DAQ"} ELSE {}))
  <2>1. due \subseteq Tasks
    BY DEF due
  <2>2. due = (IF AdvDue THEN {"ADV"} ELSE {}) \cup (IF DaqDue THEN {"DAQ"} ELSE {})
    BY <1>4, <2>1 DEF Tasks
  <2> QED
    BY <1>3, <2>2
<1>19. daqCount' = IF daqNext < advCount' /\ advCount' - daqNext < ST_SCHEDULE_MARGIN
                   THEN advCount' ELSE daqNext
  BY <1>13 DEF xd, cd
<1> QED
  BY <1>1, <1>2, <1>3, <1>4, <1>10, <1>12, <1>13, <1>14, <1>15, <1>16, <1>17, <1>18, <1>19
     DEF IsrCounts

------------------------------------------------------------------------------
(* What the calls of the main context do to the countdowns.                     *)

Off(interval, countdown) == [enable |-> FALSE, interval |-> interval, countdown |-> countdown]
Enable(t)             == [t EXCEPT !.enable = TRUE]
Reinterval(t, interval)  == [t EXCEPT !.interval = interval]

LEMMA RecountsOff ==
  ASSUME NEW v, NEW c, NEW x
  PROVE  Recount(Off(v, c), x) = Off(v, x) /\ Reinterval(On(v, c), x) = On(x, c)
<1> DEFINE off == FALSE on == TRUE
<1> HIDE DEF off, on
<1>1. [[enable |-> off, interval |-> v, countdown |-> c] EXCEPT !.countdown = x]
        = [enable |-> off, interval |-> v, countdown |-> x]
  BY SMT
<1>2. [[enable |-> on, interval |-> v, countdown |-> c] EXCEPT !.interval = x]
        = [enable |-> on, interval |-> x, countdown |-> c]
  BY SMT
<1>3. Recount(Off(v, c), x) = Off(v, x)
  BY <1>1, Zenon DEF Recount, Off, off
<1>4. Reinterval(On(v, c), x) = On(x, c)
  BY <1>2, Zenon DEF Reinterval, On, on
<1> QED
  BY <1>3, <1>4

LEMMA Enables ==
  ASSUME NEW v, NEW c
  PROVE  Enable(Off(v, c)) = On(v, c)
<1> DEFINE off == FALSE on == TRUE
<1> HIDE DEF off, on
<1>1. [[enable |-> off, interval |-> v, countdown |-> c] EXCEPT !.enable = on]
        = [enable |-> on, interval |-> v, countdown |-> c]
  BY SMT
<1> QED
  BY <1>1, Zenon DEF Enable, On, Off, on, off

(* The two tasks, when main() has enabled both.                                 *)
LEMMA BothOn ==
  ASSUME AlarmInv, Started
  PROVE  /\ task = [i \in Tasks |-> task[i]]
         /\ task["ADV"] = On(Adv, advCount) /\ task["DAQ"] = On(daqEvery, daqCount)
         /\ Adv \in Nat /\ advCount \in Nat /\ daqEvery \in Nat /\ daqCount \in Nat
<1> USE DEF TASK_ADV, TASK_DAQ
<1>1. /\ task = [i \in Tasks |-> [enable |-> task[i].enable, countdown |-> task[i].countdown,
                                  interval |-> task[i].interval]]
      /\ advCount \in 0..Horizon /\ daqCount \in 0..Horizon /\ daqEvery \in 1..N - 1
  BY TaskFields DEF AlarmInv
<1>2. task["ADV"].interval = Adv /\ task["ADV"].enable = TRUE /\ task["DAQ"].enable = TRUE
  BY DEF AlarmInv, TasksRight, Started
<1>3. task["ADV"] = On(Adv, advCount) /\ task["DAQ"] = On(daqEvery, daqCount)
  BY <1>1, <1>2 DEF Tasks, On, advCount, daqCount, daqEvery
<1> QED
  BY <1>1, <1>3, Sizes

LEMMA RestartsOn ==
  ASSUME NEW t, NEW a \in Int, NEW v \in Int, NEW c, NEW k,
         t["ADV"] = On(a, c), t["DAQ"] = On(v, k), Restart(t)
  PROVE  /\ task' = [i \in Tasks |-> task'[i]]
         /\ task'["ADV"] = On(a, a) /\ task'["DAQ"] = On(v, v)
         /\ enabledFlag' = TRUE /\ stif' = FALSE /\ stie' = TRUE /\ waited' = 0
         /\ SetWakeup(Least(a, v)) /\ wakeupOld' = wakeupOld
<1> USE DEF TASK_ADV, TASK_DAQ
<1>1. /\ t["ADV"].enable = TRUE /\ t["ADV"].interval = a
      /\ t["DAQ"].enable = TRUE /\ t["DAQ"].interval = v
  BY DEF On
<1>2. Enabled(t) = Tasks /\ Enabled(t) # {}
  BY <1>1 DEF Enabled, Tasks
<1>3. {t[i].interval : i \in Enabled(t)} = {a, v}
  BY <1>1, <1>2 DEF Tasks
<1>4. Min({a, v}) = Least(a, v)
  BY MinTwo DEF Least
<1>5. task' = [i \in Tasks |-> Recount(t[i], t[i].interval)]
  BY Zenon DEF Restart, Recount
<1>6. task'["ADV"] = Recount(On(a, c), a) /\ task'["DAQ"] = Recount(On(v, k), v)
  BY <1>1, <1>5 DEF Tasks
<1>7. task'["ADV"] = On(a, a) /\ task'["DAQ"] = On(v, v)
  BY <1>6, Recounts, Zenon
<1>8. task' = [i \in Tasks |-> task'[i]]
  BY <1>5
<1>9. /\ enabledFlag' = TRUE /\ stif' = FALSE /\ stie' = TRUE /\ waited' = 0
      /\ wakeupOld' = wakeupOld /\ SetWakeup(Min({t[i].interval : i \in Enabled(t)}))
  <2> HIDE DEF Least
  <2> QED
    BY <1>2, Zenon DEF Restart
<1> QED
  BY <1>3, <1>4, <1>7, <1>8, <1>9, Zenon

(* The three calls.                                                             *)
BootCounts ==
  /\ task' = [i \in Tasks |-> task'[i]]
  /\ task'["ADV"] = On(Adv, Adv) /\ task'["DAQ"] = Off(Initial, Initial)
  /\ enabledFlag' = TRUE /\ stif' = FALSE /\ stie' = TRUE /\ waited' = 0
  /\ SetWakeup(Adv) /\ wakeupOld' = wakeupOld

LEMMA BootOnTasks ==
  ASSUME AlarmInv, Boot
  PROVE  BootCounts
<1> USE DEF TASK_ADV, TASK_DAQ
<1>1. /\ task = [i \in Tasks |-> [enable |-> task[i].enable, countdown |-> task[i].countdown,
                                  interval |-> task[i].interval]]
      /\ pc = "boot"
  BY TaskFields DEF AlarmInv, Boot, Goto
<1>2. /\ task["ADV"].interval = Adv /\ task["ADV"].enable = FALSE /\ task["DAQ"].enable = FALSE
      /\ task["DAQ"].interval = Initial /\ task["DAQ"].countdown = Initial /\ ~enabledFlag
  BY <1>1 DEF AlarmInv, TasksRight, Booting, Started, daqEvery, daqCount
<1>3. task["ADV"] = Off(Adv, advCount) /\ task["DAQ"] = Off(Initial, Initial)
  BY <1>1, <1>2 DEF Tasks, Off, advCount
<1> DEFINE t == [task EXCEPT !["ADV"].enable = TRUE]
<1>4. Restart(t)
  BY <1>2, Zenon DEF Boot, miniBleEnableTask
<1>5. t["ADV"] = Enable(task["ADV"]) /\ t["DAQ"] = task["DAQ"]
  BY <1>1 DEF Tasks, Enable
<1>6. t["ADV"] = On(Adv, advCount) /\ t["DAQ"] = Off(Initial, Initial)
  <2> HIDE DEF t
  <2> QED
    BY <1>3, <1>5, Enables, Zenon
<1> HIDE DEF t
<1>7. /\ t["ADV"].enable = TRUE /\ t["ADV"].interval = Adv
      /\ t["DAQ"].enable = FALSE /\ t["DAQ"].interval = Initial
  BY <1>6 DEF On, Off
<1>8. Enabled(t) = {"ADV"} /\ Enabled(t) # {}
  BY <1>7 DEF Enabled, Tasks
<1>9. {t[i].interval : i \in Enabled(t)} = {Adv}
  BY <1>7, <1>8
<1>10. Min({Adv}) = Adv
  <2>1. Adv \in Int
    BY Sizes
  <2> QED
    BY <2>1, MinOne
<1>11. task' = [i \in Tasks |-> Recount(t[i], t[i].interval)]
  BY <1>4, Zenon DEF Restart, Recount
<1>12. task'["ADV"] = Recount(On(Adv, advCount), Adv) /\ task'["DAQ"] = Recount(Off(Initial, Initial), Initial)
  BY <1>6, <1>7, <1>11 DEF Tasks
<1>13. task'["ADV"] = On(Adv, Adv) /\ task'["DAQ"] = Off(Initial, Initial)
  BY <1>12, Recounts, RecountsOff, Zenon
<1>14. /\ enabledFlag' = TRUE /\ stif' = FALSE /\ stie' = TRUE /\ waited' = 0
       /\ wakeupOld' = wakeupOld /\ SetWakeup(Min({t[i].interval : i \in Enabled(t)}))
  BY <1>4, <1>8, Zenon DEF Restart
<1>15. task' = [i \in Tasks |-> task'[i]]
  BY <1>11
<1> QED
  BY <1>9, <1>10, <1>13, <1>14, <1>15, Zenon DEF BootCounts

Boot2Counts ==
  /\ task' = [i \in Tasks |-> task'[i]]
  /\ task'["ADV"] = On(Adv, Adv) /\ task'["DAQ"] = On(Initial, Initial + now)
  /\ wakeup' = now /\ stif' = TRUE
  /\ UNCHANGED <<compare, stie, wakeupOld, enabledFlag, waited>>

LEMMA Boot2OnTasks ==
  ASSUME AlarmInv, Boot2
  PROVE  Boot2Counts
<1> USE DEF TASK_ADV, TASK_DAQ
<1>1. /\ task = [i \in Tasks |-> [enable |-> task[i].enable, countdown |-> task[i].countdown,
                                  interval |-> task[i].interval]]
      /\ pc = "boot2" /\ now \in 0..N - 1
  BY TaskFields DEF AlarmInv, Boot2, Goto, TypeOK
<1>2. /\ task["ADV"].interval = Adv /\ task["ADV"].enable = TRUE /\ task["DAQ"].enable = FALSE
      /\ task["ADV"].countdown = Adv
      /\ task["DAQ"].interval = Initial /\ enabledFlag /\ wakeupOld = 0
  BY <1>1 DEF AlarmInv, TasksRight, Booting, Started, daqEvery, advCount
<1>3. task["ADV"] = On(Adv, Adv)
  BY <1>1, <1>2 DEF Tasks, On
<1>4. Elapsed = now
  <2>1. 0 \in 0..N - 1
    BY Sizes
  <2> QED
    BY <1>1, <1>2, <2>1, ElapsedIs
<1>5. ScheduleTask("DAQ")
  BY <1>2, Zenon DEF Boot2, miniBleEnableTask
<1>6. task' = [task EXCEPT !["DAQ"] = On(Initial, Initial + now)]
  BY <1>2, <1>4, <1>5 DEF ScheduleTask, miniBleSchedulerGetTimeSincepreviousEvent, On
<1>7. task'["ADV"] = On(Adv, Adv) /\ task'["DAQ"] = On(Initial, Initial + now)
  BY <1>1, <1>3, <1>6 DEF Tasks
<1>8. task' = [i \in Tasks |-> task'[i]]
  BY <1>1, <1>6
<1> QED
  BY <1>5, <1>7, <1>8, Zenon DEF Boot2Counts, ScheduleTask

Next_daqEvery == IF state = "MEASURE" THEN Read ELSE Measure

RescheduleCounts ==
  /\ task' = [i \in Tasks |-> task'[i]]
  /\ task'["ADV"] = On(Adv, Adv) /\ task'["DAQ"] = On(Next_daqEvery, Next_daqEvery)
  /\ enabledFlag' = TRUE /\ stif' = FALSE /\ stie' = TRUE /\ waited' = 0
  /\ SetWakeup(Least(Adv, Next_daqEvery)) /\ wakeupOld' = wakeupOld

LEMMA RescheduleOnTasks ==
  ASSUME AlarmInv, Reschedule
  PROVE  RescheduleCounts
<1> USE DEF TASK_ADV, TASK_DAQ
<1> DEFINE v == Next_daqEvery
           t == [task EXCEPT !["DAQ"].interval = v]
<1>1. Started
  BY DEF Reschedule, Goto, Started
<1>2. /\ task = [i \in Tasks |-> task[i]]
      /\ task["ADV"] = On(Adv, advCount) /\ task["DAQ"] = On(daqEvery, daqCount)
      /\ Adv \in Nat /\ advCount \in Nat /\ daqEvery \in Nat /\ daqCount \in Nat
  BY <1>1, BothOn
<1>3. miniBleSetTaskInterval("DAQ", v)
  <2>1. CASE state = "MEASURE"
    BY <2>1, Zenon DEF Reschedule, Next_daqEvery
  <2>2. CASE state # "MEASURE"
    BY <2>2, Zenon DEF Reschedule, Next_daqEvery
  <2> QED
    BY <2>1, <2>2
<1>4. v \in Int /\ Adv \in Int
  BY Sizes DEF Next_daqEvery
<1> HIDE DEF v
<1>5. Restart(t)
  BY <1>3, Zenon DEF miniBleSetTaskInterval
<1>6. t["ADV"] = task["ADV"] /\ t["DAQ"] = Reinterval(task["DAQ"], v)
  BY <1>2 DEF Tasks, Reinterval
<1> HIDE DEF t
<1>7. t["ADV"] = On(Adv, advCount) /\ t["DAQ"] = On(v, daqCount)
  <2>1. Reinterval(On(daqEvery, daqCount), v) = On(v, daqCount)
    BY RecountsOff
  <2> QED
    BY <1>2, <1>6, <2>1, Zenon
<1> QED
  BY <1>4, <1>5, <1>7, RestartsOn DEF v, RescheduleCounts

------------------------------------------------------------------------------
(* The next interrupt of the timer is ahead.                                    *)

TypeRest ==
  /\ {txDone, lle, sending, rfif, sleepFlag, initialized, spoilt} \subseteq BOOLEAN
  /\ triggered \subseteq Tasks
  /\ chan \in ActiveChannels
  /\ pc \in {"boot", "boot2", "loop", "mode", "waitTx", "waitIdle", "reset", "sleep",
             "asleep", "woken", "collect", "wire", "resched"}
  /\ timeLeft \in 0..N + Horizon /\ powerMode \in {0, 2}
  /\ busy \in 0..Work /\ aired \in 0..Air
  /\ state \in {"MEASURE", "READ"}
  /\ sensor \in {"old", "new"} /\ payload \in {"none", "old", "new"}
TypeTimer ==
  /\ now \in 0..N - 1 /\ compare \in 0..N
  /\ stif \in BOOLEAN /\ stie \in BOOLEAN /\ enabledFlag \in BOOLEAN
  /\ wakeup \in 0..N + Horizon /\ wakeupOld \in 0..N - 1
  /\ task \in [Tasks -> Task]
  /\ waited \in 0..Late

LEMMA TypeParts ==
  /\ TypeOK <=> TypeRest /\ TypeTimer
  /\ TypeOK' <=> TypeRest' /\ TypeTimer'
<1>1. TypeOK <=> TypeRest /\ TypeTimer
  BY DEF TypeOK, TypeRest, TypeTimer, Task
<1>2. TypeOK' <=> TypeRest' /\ TypeTimer'
  BY DEF TypeOK, TypeRest, TypeTimer, Task
<1> QED
  BY <1>1, <1>2

LEMMA InitAlarm == Init => AlarmInv
<1> SUFFICES ASSUME Init PROVE AlarmInv
  OBVIOUS
<1> USE DEF TASK_ADV, TASK_DAQ
<1>1. /\ now = 0 /\ compare = 0 /\ wakeup = 0 /\ wakeupOld = 0 /\ stif = FALSE /\ stie = FALSE
      /\ enabledFlag = FALSE /\ triggered = {} /\ txDone = TRUE /\ lle = TRUE /\ sending = FALSE
      /\ rfif = FALSE /\ chan = firstActiveChannel /\ timeLeft = 0 /\ sleepFlag = FALSE
      /\ powerMode = 0 /\ waited = 0 /\ busy = 0 /\ aired = 0 /\ pc = "boot"
      /\ state = "MEASURE" /\ initialized = FALSE /\ sensor = "old" /\ payload = "none"
      /\ spoilt = FALSE
  BY DEF Init, BleInit, TasksInit, PhyInit
<1> DEFINE every == [i \in Tasks |-> IF i = "ADV" THEN Adv ELSE Initial]
<1>2. task = [i \in Tasks |-> [enable |-> FALSE, countdown |-> every[i], interval |-> every[i]]]
  BY Zenon DEF Init, BleInit, TasksInit
<1>3. /\ task = [i \in Tasks |-> task[i]]
      /\ task["ADV"] = [enable |-> FALSE, countdown |-> Adv, interval |-> Adv]
      /\ task["DAQ"] = [enable |-> FALSE, countdown |-> Initial, interval |-> Initial]
  BY <1>2 DEF Tasks
<1>4. chan \in ActiveChannels
  BY <1>1, MinChannel, ChannelAssumption DEF firstActiveChannel
<1>5. TypeRest
  <2>1. {txDone, lle, sending, rfif, sleepFlag, initialized, spoilt} \subseteq BOOLEAN
    BY <1>1
  <2>2. timeLeft \in 0..N + Horizon /\ powerMode \in {0, 2} /\ busy \in 0..Work /\ aired \in 0..Air
    BY <1>1, Sizes
  <2>3. state \in {"MEASURE", "READ"} /\ sensor \in {"old", "new"} /\ payload \in {"none", "old", "new"}
    BY <1>1
  <2>4. pc \in {"boot", "boot2", "loop", "mode", "waitTx", "waitIdle", "reset", "sleep",
                "asleep", "woken", "collect", "wire", "resched"}
    BY <1>1
  <2> QED
    BY <1>1, <1>4, <2>1, <2>2, <2>3, <2>4 DEF TypeRest
<1>6. task \in [Tasks -> Task]
  <2>1. Adv \in 1..N - 1 /\ Adv \in 0..Horizon /\ Initial \in 1..N - 1 /\ Initial \in 0..Horizon
    BY Sizes
  <2>2. Off(Adv, Adv) \in Task /\ Off(Initial, Initial) \in Task
    BY <2>1 DEF Off, Task
  <2>3. task["ADV"] = Off(Adv, Adv) /\ task["DAQ"] = Off(Initial, Initial)
    BY <1>3 DEF Off
  <2> QED
    BY <1>3, <2>2, <2>3 DEF Tasks
<1>7. TypeTimer
  <2>1. now \in 0..N - 1 /\ compare \in 0..N /\ wakeup \in 0..N + Horizon /\ wakeupOld \in 0..N - 1
        /\ waited \in 0..Late
    BY <1>1, Sizes
  <2> QED
    BY <1>1, <1>6, <2>1 DEF TypeTimer
<1>8. AlarmAhead /\ CompareRight
  BY <1>1 DEF AlarmAhead, CompareRight
<1>9. TasksRight
  <2>1. advCount = Adv /\ daqEvery = Initial /\ task["ADV"].interval = Adv
        /\ task["ADV"].enable = FALSE /\ task["DAQ"].enable = FALSE
    BY <1>3 DEF daqEvery, advCount
  <2>2. Adv <= Adv + MaxDelay
    BY Sizes
  <2> QED
    BY <1>1, <2>1, <2>2 DEF TasksRight, Started
<1>10. Booting
  BY <1>1, <1>3 DEF Booting, Started, daqCount
<1> QED
  BY <1>5, <1>7, <1>8, <1>9, <1>10, TypeParts DEF AlarmInv

(* An alarm that was just set.                                                  *)
LEMMA AlarmSet ==
  ASSUME now \in 0..N - 1, now' = now, stie' = TRUE,
         NEW t \in MinLoad + 1 .. Adv + MaxDelay, SetWakeup(t)
  PROVE  /\ AlarmAhead' /\ CompareRight'
         /\ compare' \in 0..N /\ wakeup' \in 0..N + Horizon /\ Left' = t
<1>1. t \in MinLoad + 1 .. N - 1 /\ t \in Nat /\ t > 0 /\ t <= Horizon
  BY Sizes
<1>2. /\ wakeup' = now + t /\ compare' = wakeup' % N
      /\ compare' \in 0..N - 1 /\ compare' # Missed /\ Left' = t
  BY <1>1, SetsWakeup
<1>3. compare' \in 0..N /\ wakeup' \in 0..N + Horizon
  BY <1>1, <1>2, Sizes
<1>4. AlarmAhead'
  <2>1. t \in 1..Adv + Max(Delays)
    BY <1>1, Sizes DEF MaxDelay
  <2>2. (compare' - now') % N = t
    BY <1>2 DEF Left
  <2> QED
    BY <1>2, <2>1, <2>2 DEF AlarmAhead, Missed
<1>5. CompareRight'
  BY <1>2 DEF CompareRight
<1> QED
  BY <1>2, <1>3, <1>4, <1>5

LEMMA TaskTypes ==
  ASSUME task' = [i \in Tasks |-> task'[i]],
         NEW a \in 1..N - 1, NEW c \in 0..Horizon, NEW v \in 1..N - 1, NEW k \in 0..Horizon,
         task'["ADV"] = On(a, c), task'["DAQ"] = On(v, k) \/ task'["DAQ"] = Off(v, k)
  PROVE  /\ task' \in [Tasks -> Task]
         /\ task'["ADV"].interval = a /\ daqEvery' = v /\ advCount' = c /\ daqCount' = k
         /\ task'["ADV"].enable = TRUE
         /\ task'["DAQ"] = On(v, k) => task'["DAQ"].enable = TRUE
         /\ task'["DAQ"] = Off(v, k) => task'["DAQ"].enable = FALSE
<1> USE DEF TASK_ADV, TASK_DAQ
<1>1. /\ task'["ADV"].interval = a /\ task'["ADV"].countdown = c /\ task'["ADV"].enable = TRUE
      /\ task'["ADV"] \in Task
  BY DEF On, Task
<1>2. /\ task'["DAQ"].interval = v /\ task'["DAQ"].countdown = k /\ task'["DAQ"] \in Task
      /\ task'["DAQ"] = On(v, k) => task'["DAQ"].enable = TRUE
      /\ task'["DAQ"] = Off(v, k) => task'["DAQ"].enable = FALSE
  <2>1. CASE task'["DAQ"] = On(v, k)
    <3>1. On(v, k) # Off(v, k)
      BY DEF On, Off
    <3>2. On(v, k).interval = v /\ On(v, k).countdown = k /\ On(v, k).enable = TRUE /\ On(v, k) \in Task
      BY DEF On, Task
    <3> QED
      BY <2>1, <3>1, <3>2, Zenon
  <2>2. CASE task'["DAQ"] = Off(v, k)
    <3>1. On(v, k) # Off(v, k)
      BY DEF On, Off
    <3>2. Off(v, k).interval = v /\ Off(v, k).countdown = k /\ Off(v, k).enable = FALSE /\ Off(v, k) \in Task
      BY DEF Off, Task
    <3> QED
      BY <2>2, <3>1, <3>2, Zenon
  <2> QED
    BY <2>1, <2>2
<1>3. task' \in [Tasks -> Task]
  BY <1>1, <1>2 DEF Tasks
<1> QED
  BY <1>1, <1>2, <1>3, Zenon DEF daqEvery, advCount, daqCount

LEMMA BootAlarm == ASSUME AlarmInv, Boot PROVE AlarmInv'
<1> USE DEF TASK_ADV, TASK_DAQ
<1>1. BootCounts
  BY BootOnTasks
<1>2. /\ pc = "boot" /\ pc' = "boot2"
      /\ UNCHANGED <<now, triggered, radio, sleep, busy, aired, app>>
      /\ UNCHANGED <<txDone, lle, sending, rfif, chan, timeLeft, sleepFlag, powerMode,
                     state, initialized, sensor, payload, spoilt>>
  BY DEF Boot, Goto, radio, sleep, app
<1>3. /\ now \in 0..N - 1 /\ now = busy /\ busy \in Nat /\ wakeupOld = 0 /\ state = "MEASURE"
      /\ ~initialized /\ ~sending /\ ~rfif /\ txDone /\ lle /\ triggered = {}
  BY <1>2, Sizes DEF AlarmInv, TypeOK, Booting, Started
<1>4. TypeRest'
  <2>1. TypeRest
    BY TypeParts DEF AlarmInv
  <2> QED
    BY <1>2, <2>1 DEF TypeRest
<1>5. /\ AlarmAhead' /\ CompareRight' /\ Left' = Adv
      /\ compare' \in 0..N /\ wakeup' \in 0..N + Horizon
  <2>1. Adv \in MinLoad + 1 .. Adv + MaxDelay
    BY Sizes
  <2> QED
    BY <1>1, <1>2, <1>3, <2>1, AlarmSet DEF BootCounts
<1>6. /\ task' \in [Tasks -> Task]
      /\ task'["ADV"].interval = Adv /\ daqEvery' = Initial /\ advCount' = Adv /\ daqCount' = Initial
      /\ task'["ADV"].enable = TRUE /\ task'["DAQ"].enable = FALSE
  <2>1. Adv \in 1..N - 1 /\ Adv \in 0..Horizon /\ Initial \in 1..N - 1 /\ Initial \in 0..Horizon
    BY Sizes
  <2> QED
    BY <1>1, <2>1, TaskTypes DEF BootCounts
<1>7. TypeTimer'
  <2>1. 0 \in 0..Late /\ wakeupOld \in 0..N - 1
    BY <1>3, Sizes
  <2> QED
    BY <1>1, <1>2, <1>3, <1>5, <1>6, <2>1 DEF TypeTimer, BootCounts
<1>8. TasksRight'
  <2>1. Adv <= Adv + MaxDelay
    BY Sizes
  <2>2. enabledFlag' = TRUE /\ stie' = TRUE
    BY <1>1 DEF BootCounts
  <2> QED
    BY <1>2, <1>3, <1>6, <2>1, <2>2 DEF TasksRight, Started
<1>9. Booting'
  BY <1>1, <1>2, <1>3, <1>5, <1>6, Sizes DEF Booting, BootCounts, Started
<1> QED
  BY <1>4, <1>5, <1>7, <1>8, <1>9, TypeParts DEF AlarmInv

LEMMA Boot2Alarm == ASSUME AlarmInv, Boot2 PROVE AlarmInv'
<1> USE DEF TASK_ADV, TASK_DAQ
<1>1. Boot2Counts
  BY Boot2OnTasks
<1>2. /\ pc = "boot2" /\ pc' = "loop"
      /\ UNCHANGED <<now, triggered, radio, sleep, busy, aired, app>>
      /\ UNCHANGED <<txDone, lle, sending, rfif, chan, timeLeft, sleepFlag, powerMode,
                     state, initialized, sensor, payload, spoilt>>
  BY DEF Boot2, Goto, radio, sleep, app
<1>3. /\ now \in 0..N - 1 /\ now = busy /\ busy \in 0..Work /\ state = "MEASURE"
      /\ ~initialized /\ compare \in 0..N /\ stie = TRUE /\ enabledFlag = TRUE
      /\ wakeupOld \in 0..N - 1 /\ waited \in 0..Late
  BY <1>2, Sizes DEF AlarmInv, TypeOK, Booting, TasksRight, Started
<1>4. TypeRest'
  <2>1. TypeRest
    BY TypeParts DEF AlarmInv
  <2> QED
    BY <1>2, <2>1 DEF TypeRest
<1>5. /\ task' \in [Tasks -> Task]
      /\ task'["ADV"].interval = Adv /\ daqEvery' = Initial /\ advCount' = Adv
      /\ task'["ADV"].enable = TRUE /\ task'["DAQ"].enable = TRUE
  <2>1. Adv \in 1..N - 1 /\ Adv \in 0..Horizon /\ Initial \in 1..N - 1 /\ Initial + now \in 0..Horizon
    BY <1>3, Sizes
  <2> QED
    BY <1>1, <2>1, TaskTypes DEF Boot2Counts
<1>6. TypeTimer'
  <2>1. now \in 0..N + Horizon
    BY <1>3, Sizes
  <2> QED
    BY <1>1, <1>2, <1>3, <1>5, <2>1 DEF TypeTimer, Boot2Counts
<1>7. AlarmAhead' /\ CompareRight'
  BY <1>1, <1>3 DEF AlarmAhead, CompareRight, Boot2Counts
<1>8. TasksRight'
  <2>1. Adv <= Adv + MaxDelay
    BY Sizes
  <2>2. enabledFlag' = TRUE /\ stie' = TRUE
    BY <1>1, <1>3 DEF Boot2Counts
  <2> QED
    BY <1>2, <1>3, <1>5, <2>1, <2>2 DEF TasksRight, Started
<1>9. Booting'
  BY <1>2 DEF Booting, Started
<1> QED
  BY <1>4, <1>6, <1>7, <1>8, <1>9, TypeParts DEF AlarmInv

LEMMA IsrAlarm == ASSUME AlarmInv, SleepIsr, Interrupt PROVE AlarmInv'
<1> USE DEF TASK_ADV, TASK_DAQ
<1>1. IsrCounts
  BY IsrOnTasks
<1>2. /\ wakeupOld' = now /\ stif' = FALSE /\ sleepFlag' = FALSE /\ waited' = 0
      /\ UNCHANGED <<now, stie, enabledFlag, lle, rfif, chan, timeLeft, powerMode, pc, busy>>
  BY DEF SleepIsr
<1>3. UNCHANGED <<state, initialized, sensor, payload>> /\ spoilt' \in BOOLEAN
  <2>1. spoilt' = (spoilt \/ pc = "wire") /\ UNCHANGED <<state, initialized, sensor, payload>>
    BY DEF Interrupt
  <2>2. spoilt \in BOOLEAN
    BY DEF AlarmInv, TypeOK
  <2> QED
    BY <2>1, <2>2
<1>4. TypeRest /\ TypeTimer
  BY TypeParts DEF AlarmInv
<1>5. txDone' \in BOOLEAN /\ sending' \in BOOLEAN /\ aired' \in 0..Air
  <2>1. txDone \in BOOLEAN /\ sending \in BOOLEAN /\ aired \in 0..Air /\ 0 \in 0..Air
    BY <1>4, Sizes DEF TypeRest
  <2>2. CASE AdvDue
    BY <1>1, <2>1, <2>2 DEF IsrCounts, CmdTx
  <2>3. CASE ~AdvDue
    BY <1>1, <2>1, <2>3 DEF IsrCounts
  <2> QED
    BY <2>2, <2>3
<1>6. TypeRest'
  <2>1. triggered' \subseteq Tasks
    BY <1>1, <1>4 DEF IsrCounts, TypeRest, Tasks
  <2> QED
    BY <1>2, <1>3, <1>4, <1>5, <2>1 DEF TypeRest
<1>7. /\ stie = TRUE /\ pc # "boot" /\ Started /\ now \in 0..N - 1
  BY <1>1, <1>4 DEF IsrCounts, Started, TypeTimer
<1>8. /\ First' \in MinLoad + 1 .. Adv + MaxDelay
      /\ advCount' \in Nat /\ advCount' <= Adv + MaxDelay
  <2>1. /\ First' > MinLoad /\ First' <= Adv + MaxDelay /\ advCount' \in Nat /\ daqCount' \in Nat
    BY <1>1 DEF IsrCounts
  <2>2. First' \in Nat
    BY <2>1 DEF First, Least
  <2>3. advCount' <= Adv + MaxDelay
    <3>1. /\ AdvDue => advCount' <= Adv - LateBy + MaxDelay
          /\ ~AdvDue => advCount' = advCount - Elapsed
          /\ LateBy \in 0..L - 1
      BY <1>1 DEF IsrCounts
    <3>2. Elapsed \in 0..N - 1 /\ advCount \in Nat /\ advCount <= Adv + MaxDelay
      BY <1>4, ElapsedIs, TaskFields DEF TypeTimer, AlarmInv, TasksRight
    <3> QED
      BY <2>1, <3>1, <3>2, Sizes
  <2> QED
    BY <2>1, <2>2, <2>3, Sizes
<1>9. /\ AlarmAhead' /\ CompareRight'
      /\ compare' \in 0..N /\ wakeup' \in 0..N + Horizon /\ Left' = First'
  <2> DEFINE t == First'
  <2>1. t \in MinLoad + 1 .. Adv + MaxDelay /\ SetWakeup(t)
    BY <1>1, <1>8 DEF IsrCounts
  <2>2. now' = now /\ stie' = TRUE
    BY <1>2, <1>7
  <2> HIDE DEF t
  <2>3. /\ AlarmAhead' /\ CompareRight'
        /\ compare' \in 0..N /\ wakeup' \in 0..N + Horizon /\ Left' = t
    BY <1>7, <2>1, <2>2, AlarmSet
  <2> QED
    BY <2>3 DEF t
<1>10. TypeTimer'
  <2>1. task' \in [Tasks -> Task] /\ 0 \in 0..Late
    BY <1>1, Sizes DEF IsrCounts
  <2> QED
    BY <1>2, <1>4, <1>9, <2>1 DEF TypeTimer
<1>11. TasksRight'
  <2>1. /\ task'["ADV"].interval = task["ADV"].interval /\ daqEvery' = daqEvery
        /\ task'["ADV"].enable = task["ADV"].enable /\ task'["DAQ"].enable = task["DAQ"].enable
    BY <1>1 DEF IsrCounts, Tasks, daqEvery
  <2>2. TasksRight
    BY DEF AlarmInv
  <2> QED
    BY <1>2, <1>3, <1>7, <1>8, <2>1, <2>2, Zenon DEF TasksRight, Started
<1>12. Booting'
  BY <1>2, <1>7 DEF Booting, Started
<1> QED
  BY <1>6, <1>9, <1>10, <1>11, <1>12, TypeParts DEF AlarmInv

LEMMA RescheduleAlarm == ASSUME AlarmInv, Reschedule PROVE AlarmInv'
<1> USE DEF TASK_ADV, TASK_DAQ
<1>1. RescheduleCounts
  BY RescheduleOnTasks
<1>2. /\ pc = "resched" /\ pc' = "loop"
      /\ UNCHANGED <<now, triggered, txDone, lle, sending, rfif, chan, timeLeft, sleepFlag, powerMode,
                     busy, aired, initialized, sensor, payload>>
      /\ state' = (IF state = "MEASURE" THEN "READ" ELSE "MEASURE")
      /\ spoilt' \in {spoilt, FALSE}
  BY DEF Reschedule, Goto, radio, sleep
<1>3. TypeRest /\ TypeTimer
  BY TypeParts DEF AlarmInv
<1>4. TypeRest'
  <2>1. state' \in {"MEASURE", "READ"} /\ spoilt' \in BOOLEAN
    BY <1>2, <1>3 DEF TypeRest
  <2> QED
    BY <1>2, <1>3, <2>1 DEF TypeRest
<1> DEFINE v == Next_daqEvery
<1>5. /\ v \in {Read, Measure} /\ v \in 1..N - 1 /\ v \in 0..Horizon /\ v \in Nat
      /\ Adv \in 1..N - 1 /\ Adv \in 0..Horizon /\ Least(Adv, v) \in MinLoad + 1 .. Adv + MaxDelay
  <2>1. v \in {Read, Measure}
    BY DEF Next_daqEvery
  <2> HIDE DEF v
  <2> QED
    BY <2>1, Sizes DEF Least
<1>6. now \in 0..N - 1 /\ enabledFlag' = TRUE /\ stif' = FALSE /\ stie' = TRUE
  BY <1>1, <1>3 DEF TypeTimer, RescheduleCounts
<1>7. /\ AlarmAhead' /\ CompareRight'
      /\ compare' \in 0..N /\ wakeup' \in 0..N + Horizon
  <2> HIDE DEF v
  <2>1. SetWakeup(Least(Adv, v))
    BY <1>1 DEF RescheduleCounts, v
  <2> QED
    BY <1>2, <1>5, <1>6, <2>1, AlarmSet
<1>8. /\ task' \in [Tasks -> Task]
      /\ task'["ADV"].interval = Adv /\ daqEvery' = v /\ advCount' = Adv
      /\ task'["ADV"].enable = TRUE /\ task'["DAQ"].enable = TRUE
  BY <1>1, <1>5, TaskTypes DEF RescheduleCounts
<1>9. TypeTimer'
  <2>1. 0 \in 0..Late /\ wakeupOld' = wakeupOld /\ waited' = 0
    BY <1>1, Sizes DEF RescheduleCounts
  <2> QED
    BY <1>2, <1>3, <1>6, <1>7, <1>8, <2>1 DEF TypeTimer
<1>10. TasksRight'
  <2>1. Adv <= Adv + MaxDelay
    BY Sizes
  <2>2. v = IF state' = "READ" THEN Read ELSE IF initialized' THEN Measure ELSE Initial
    <3>1. state \in {"MEASURE", "READ"}
      BY <1>3 DEF TypeRest
    <3>2. CASE state = "MEASURE"
      BY <1>2, <3>2 DEF Next_daqEvery
    <3>3. CASE state = "READ"
      <4>1. initialized
        BY <1>2, <3>3 DEF AlarmInv, TasksRight
      <4> QED
        BY <1>2, <3>3, <4>1 DEF Next_daqEvery
    <3> QED
      BY <3>1, <3>2, <3>3
  <2> HIDE DEF v
  <2> QED
    BY <1>2, <1>6, <1>8, <2>1, <2>2 DEF TasksRight, Started
<1>11. Booting'
  BY <1>2 DEF Booting, Started
<1> QED
  BY <1>4, <1>7, <1>9, <1>10, <1>11, TypeParts DEF AlarmInv

(* What leaves the timer alone.                                                 *)
LEMMA StillAlarm ==
  ASSUME AlarmInv, TypeRest', Started, Started', UNCHANGED <<now, timer, enabledFlag, task, waited, state>>,
         (initialized' = initialized) \/ (state = "READ" /\ initialized' = TRUE),
         pc' = "resched" => pc = "resched" \/ state = "MEASURE" \/ initialized' = TRUE
  PROVE  AlarmInv'
<1>1. UNCHANGED <<now, compare, stif, stie, wakeup, wakeupOld, enabledFlag, task, waited, state>>
  BY DEF timer
<1>2. TypeTimer /\ AlarmAhead /\ CompareRight /\ TasksRight
  BY TypeParts DEF AlarmInv
<1>3. TypeTimer'
  BY <1>1, <1>2 DEF TypeTimer
<1>4. AlarmAhead' /\ CompareRight'
  BY <1>1, <1>2 DEF AlarmAhead, CompareRight
<1>5. TasksRight'
  <2>1. daqEvery' = daqEvery /\ advCount' = advCount
    BY <1>1 DEF daqEvery, advCount
  <2>2. initialized' \in BOOLEAN /\ initialized \in BOOLEAN
    BY TypeParts DEF TypeRest, AlarmInv
  <2>3. daqEvery = IF state' = "READ" THEN Read ELSE IF initialized' THEN Measure ELSE Initial
    <3>1. daqEvery = IF state = "READ" THEN Read ELSE IF initialized THEN Measure ELSE Initial
      BY <1>2 DEF TasksRight
    <3>2. CASE state = "READ"
      BY <1>1, <3>1, <3>2, Zenon
    <3>3. CASE state # "READ"
      <4>1. initialized' = initialized
        BY <3>3
      <4> QED
        BY <1>1, <3>1, <4>1, Zenon
    <3> QED
      BY <3>2, <3>3
  <2>4. pc' = "resched" /\ state' = "READ" => initialized'
    <3>1. "READ" # "MEASURE"
      OBVIOUS
    <3> QED
      BY <1>1, <1>2, <2>2, <3>1, Zenon DEF TasksRight
  <2> QED
    BY <1>1, <1>2, <2>1, <2>3, <2>4, Zenon DEF TasksRight, Started
<1>6. Booting'
  BY DEF Booting, Started
<1> QED
  BY <1>3, <1>4, <1>5, <1>6, TypeParts DEF AlarmInv

LEMMA TimeLeftType ==
  ASSUME AlarmInv, Started
  PROVE  TimeUntilNextEvent \in 0..N + Horizon
<1>1. /\ now \in 0..N - 1 /\ wakeup \in 0..N + Horizon /\ compare \in 0..N /\ enabledFlag = TRUE
      /\ stif \/ (compare # Missed /\ (compare - now) % N \in 1..Adv + Max(Delays) /\ compare = wakeup % N)
  BY DEF AlarmInv, TypeOK, TasksRight, Started, AlarmAhead, CompareRight
<1>2. CASE stif
  BY <1>2, Sizes DEF TimeUntilNextEvent
<1>3. CASE ~stif
  <2>1. compare \in 0..N - 1 /\ Left # 0
    BY <1>1, <1>3, Sizes DEF Missed, Left
  <2>2. compare # now
    <3>1. Left = IF compare >= now THEN compare - now ELSE compare - now + N
      BY <1>1, <2>1, LeftIs
    <3> QED
      BY <1>1, <2>1, <3>1, Sizes
  <2>3. wakeup # now
    <3>1. now % N = now
      <4>1. now \in (-N) .. 2 * N - 1
        BY <1>1, Sizes
      <4> QED
        BY <1>1, <4>1, Turns, Sizes
    <3> QED
      BY <1>1, <1>3, <2>2, <3>1
  <2> QED
    BY <1>1, <1>3, <2>3, Sizes DEF TimeUntilNextEvent
<1> QED
  BY <1>2, <1>3

LEMMA StillSteps ==
  ASSUME AlarmInv,
         \/ Collect \/ StartConversion \/ ReadConversion
         \/ SleepStep /\ UNCHANGED app
         \/ PacketSent /\ UNCHANGED app
         \/ RfIsr /\ Interrupt
  PROVE  AlarmInv'
<1>1. TypeRest /\ TypeTimer /\ TasksRight /\ Booting
  BY TypeParts DEF AlarmInv
<1> USE DEF TASK_ADV, TASK_DAQ
<1>2. CASE Collect
  <2>1. TypeRest' /\ Started /\ Started'
    BY <1>1, <1>2 DEF Collect, Goto, TypeRest, radio, sleep, pace, app, Started
  <2> QED
    BY <1>1, <1>2, <2>1, StillAlarm DEF Collect, Goto, pace, app
<1>3. CASE StartConversion
  <2>1. TypeRest' /\ Started /\ Started'
    BY <1>1, <1>3 DEF StartConversion, Goto, TypeRest, sched, radio, sleep, pace, Started
  <2> QED
    BY <1>1, <1>3, <2>1, StillAlarm DEF StartConversion, Goto, pace, sched
<1>4. CASE ReadConversion
  <2>1. payload' \in {"none", "old", "new"}
    BY <1>1, <1>4 DEF ReadConversion, TypeRest
  <2>2. sending' \in BOOLEAN /\ aired' \in 0..Air
    <3>1. sending \in BOOLEAN /\ aired \in 0..Air /\ 0 \in 0..Air
      BY <1>1, Sizes DEF TypeRest
    <3>2. \/ UNCHANGED <<sending, aired>>
          \/ sending' = TRUE /\ aired' = 0
      BY <1>4, Zenon DEF ReadConversion, CmdTx
    <3> QED
      BY <3>1, <3>2
  <2>3. TypeRest' /\ Started /\ Started'
    BY <1>1, <1>4, <2>1, <2>2 DEF ReadConversion, Goto, TypeRest, sched, sleep, Started
  <2> QED
    BY <1>1, <1>4, <2>3, StillAlarm DEF ReadConversion, sched
<1>5. CASE SleepStep /\ UNCHANGED app
  <2>1. CASE EnterSleep
    <3>1. Started /\ Started'
      BY <2>1 DEF EnterSleep, Goto, Started
    <3>2. timeLeft' \in 0..N + Horizon
      BY <2>1, <3>1, TimeLeftType DEF EnterSleep
    <3>3. TypeRest'
      BY <1>1, <1>5, <2>1, <3>2 DEF EnterSleep, Goto, TypeRest, sched, radio, pace, app
    <3> QED
      BY <1>1, <1>5, <2>1, <3>1, <3>3, StillAlarm DEF EnterSleep, Goto, sched, pace, app
  <2>2. CASE ChoosePowerMode
    <3>1. TypeRest' /\ Started /\ Started'
      BY <1>1, <1>5, <2>2, Sizes DEF ChoosePowerMode, Goto, TypeRest, sched, radio, pace, app, Started
    <3> QED
      BY <1>1, <1>5, <2>2, <3>1, StillAlarm DEF ChoosePowerMode, Goto, sched, pace, app
  <2>3. CASE WaitTxDone
    <3>1. TypeRest' /\ Started /\ Started'
      BY <1>1, <1>5, <2>3 DEF WaitTxDone, Goto, TypeRest, sched, radio, sleep, pace, app, Started
    <3> QED
      BY <1>1, <1>5, <2>3, <3>1, StillAlarm DEF WaitTxDone, Goto, sched, pace, app
  <2>4. CASE WaitLleIdle
    <3>1. TypeRest' /\ Started /\ Started'
      BY <1>1, <1>5, <2>4 DEF WaitLleIdle, Goto, TypeRest, sched, radio, sleep, pace, app, Started
    <3> QED
      BY <1>1, <1>5, <2>4, <3>1, StillAlarm DEF WaitLleIdle, Goto, sched, pace, app
  <2>5. CASE ResetLle
    <3>1. TypeRest' /\ Started /\ Started'
      BY <1>1, <1>5, <2>5 DEF ResetLle, Goto, TypeRest, sched, sleep, pace, app, Started
    <3> QED
      BY <1>1, <1>5, <2>5, <3>1, StillAlarm DEF ResetLle, Goto, sched, pace, app
  <2>6. CASE SleepUsingFlag
    <3>1. TypeRest' /\ Started /\ Started'
      BY <1>1, <1>5, <2>6, Sizes DEF SleepUsingFlag, Goto, TypeRest, sched, radio, sleep, app, Started
    <3> QED
      BY <1>1, <1>5, <2>6, <3>1, StillAlarm DEF SleepUsingFlag, Goto, sched, app
  <2>7. CASE Wake
    <3>1. TypeRest' /\ Started /\ Started'
      BY <1>1, <1>5, <2>7 DEF Wake, Goto, TypeRest, sched, radio, sleep, pace, app, Started
    <3> QED
      BY <1>1, <1>5, <2>7, <3>1, StillAlarm DEF Wake, Goto, sched, pace, app
  <2>8. CASE EnableLle
    <3>1. TypeRest' /\ Started /\ Started'
      BY <1>1, <1>5, <2>8 DEF EnableLle, Goto, TypeRest, sched, sleep, pace, app, Started
    <3> QED
      BY <1>1, <1>5, <2>8, <3>1, StillAlarm DEF EnableLle, Goto, sched, pace, app
  <2> QED
    BY <1>5, <2>1, <2>2, <2>3, <2>4, <2>5, <2>6, <2>7, <2>8 DEF SleepStep
<1>6. CASE PacketSent /\ UNCHANGED app
  <2>1. Started
    BY <1>1, <1>6 DEF PacketSent, Booting
  <2>2. TypeRest' /\ Started'
    BY <1>1, <1>6, <2>1 DEF PacketSent, TypeRest, sched, sleep, pace, app, Started
  <2> QED
    BY <1>1, <1>6, <2>1, <2>2, StillAlarm DEF PacketSent, sched, pace, app
<1>7. CASE RfIsr /\ Interrupt
  <2>1. Started
    BY <1>1, <1>7 DEF RfIsr, Booting
  <2>2. chan' \in ActiveChannels /\ txDone' \in BOOLEAN /\ sending' \in BOOLEAN /\ rfif' = FALSE
    <3>1. Min(Later) \in ActiveChannels \/ Later = {}
      <4>1. Later \in SUBSET {37, 38, 39} /\ Later \subseteq ActiveChannels
        BY ChannelAssumption DEF Later
      <4> QED
        BY <4>1, MinChannel
    <3>2. firstActiveChannel \in ActiveChannels
      BY ChannelAssumption, MinChannel DEF firstActiveChannel
    <3> QED
      BY <1>1, <1>7, <3>1, <3>2 DEF RfIsr, TypeRest
  <2>3. spoilt' \in BOOLEAN /\ UNCHANGED <<state, initialized, sensor, payload>>
    <3>1. spoilt' = (spoilt \/ pc = "wire") /\ UNCHANGED <<state, initialized, sensor, payload>>
      BY <1>7 DEF Interrupt
    <3>2. spoilt \in BOOLEAN
      BY <1>1 DEF TypeRest
    <3> QED
      BY <3>1, <3>2
  <2>4. TypeRest' /\ Started'
    BY <1>1, <1>7, <2>1, <2>2, <2>3 DEF RfIsr, TypeRest, sched, pace, Started
  <2> QED
    BY <1>1, <1>7, <2>1, <2>3, <2>4, StillAlarm DEF RfIsr, sched, pace
<1> QED
  BY <1>2, <1>3, <1>4, <1>5, <1>6, <1>7

LEMMA TickAlarm == ASSUME AlarmInv, Tick, UNCHANGED app PROVE AlarmInv'
<1> USE DEF TASK_ADV, TASK_DAQ
<1>1. TypeRest /\ TypeTimer /\ TasksRight /\ Booting /\ AlarmAhead /\ CompareRight
  BY TypeParts DEF AlarmInv
<1>2. /\ UNCHANGED <<compare, stie, wakeup, wakeupOld, enabledFlag, task, triggered, txDone, lle,
                     sending, rfif, chan, timeLeft, sleepFlag, powerMode, pc,
                     state, initialized, sensor, payload, spoilt>>
      /\ stif' = (stif \/ now' = compare)
      /\ Waiting \/ busy < Work
      /\ busy' = IF Waiting THEN busy ELSE busy + 1
  BY DEF Tick, sched, radio, sleep, app
<1>3. /\ waited' \in 0..Late /\ aired' \in 0..Air /\ busy' \in 0..Work
  <2>1. waited \in 0..Late /\ aired \in 0..Air /\ busy \in 0..Work
    BY <1>1 DEF TypeRest, TypeTimer
  <2>2. waited' \in 0..Late
    BY <2>1, Sizes DEF Tick
  <2>3. aired' \in 0..Air
    BY <2>1, Sizes DEF Tick
  <2>4. busy' \in 0..Work
    BY <1>2, <2>1, Sizes
  <2> QED
    BY <2>2, <2>3, <2>4
<1>4. /\ now' \in 0..N - 1 /\ now' = IF now = N - 1 THEN 0 ELSE now + 1
      /\ compare \in 0..N - 1 =>
           IF Left = 0 THEN N > 1 => now' # compare
           ELSE Left' = Left - 1 /\ (now' = compare <=> Left = 1)
  BY <1>1, TickOfTimer DEF TypeTimer
<1>5. TypeRest'
  BY <1>1, <1>2, <1>3 DEF TypeRest
<1>6. TypeTimer'
  <2>1. stif' \in BOOLEAN
    BY <1>1, <1>2 DEF TypeTimer
  <2> QED
    BY <1>1, <1>2, <1>3, <1>4, <2>1 DEF TypeTimer
<1>7. enabledFlag /\ ~stif => compare \in 0..N - 1 /\ Left \in 1..Adv + MaxDelay
  BY <1>1, Sizes DEF AlarmAhead, TypeTimer, Missed, Left, MaxDelay
<1>8. AlarmAhead'
  <2>1. SUFFICES ASSUME enabledFlag, ~stif' PROVE compare # Missed /\ Left' \in 1..Adv + MaxDelay
    BY <1>1, <1>2 DEF AlarmAhead, Left, Missed, MaxDelay
  <2>2. ~stif /\ now' # compare
    BY <1>2, <2>1
  <2> QED
    BY <1>4, <1>7, <2>1, <2>2, Sizes DEF Missed
<1>9. CompareRight'
  BY <1>1, <1>2 DEF CompareRight
<1>10. TasksRight'
  <2>1. daqEvery' = daqEvery /\ advCount' = advCount
    BY <1>2 DEF daqEvery, advCount
  <2> QED
    BY <1>1, <1>2, <2>1, Zenon DEF TasksRight, Started
<1>11. Booting'
  <2>1. SUFFICES ASSUME ~Started PROVE Booting'
    BY <1>2 DEF Booting, Started
  <2>2. /\ now = busy /\ wakeupOld = 0 /\ ~stif /\ state = "MEASURE" /\ ~initialized
        /\ ~sending /\ ~rfif /\ txDone /\ lle /\ triggered = {}
        /\ pc = "boot" => compare = 0 /\ daqCount = Initial
        /\ pc = "boot2" => advCount = Adv /\ Left >= Adv - busy /\ enabledFlag
    BY <1>1, <2>1 DEF Booting, TasksRight
  <2>3. busy' = busy + 1 /\ busy < Work /\ busy \in Nat
    <3>1. ~Waiting
      BY <2>1 DEF Waiting, Started
    <3> QED
      BY <1>1, <1>2, <3>1, Sizes DEF TypeRest
  <2>4. now' = busy'
    BY <1>4, <2>2, <2>3, Sizes
  <2>5. now' # compare
    <3>1. CASE pc = "boot"
      BY <2>2, <2>3, <2>4, <3>1
    <3>2. CASE pc = "boot2"
      <4>1. compare \in 0..N - 1 /\ Left \in 1..Adv + MaxDelay /\ Left >= Adv - busy
        BY <1>7, <2>2, <3>2
      <4>2. Left # 1 /\ Left # 0
        BY <2>3, <4>1, Sizes
      <4> QED
        BY <1>4, <4>1, <4>2
    <3> QED
      BY <2>1, <3>1, <3>2 DEF Started
  <2>6. pc = "boot2" => Left' >= Adv - busy'
    BY <1>4, <1>7, <2>2, <2>3, Sizes
  <2>7. advCount' = advCount /\ daqCount' = daqCount
    BY <1>2 DEF advCount, daqCount
  <2>8. ~stif'
    BY <1>2, <2>2, <2>5
  <2> QED
    BY <1>2, <2>1, <2>2, <2>4, <2>6, <2>7, <2>8 DEF Booting, Started
<1> QED
  BY <1>5, <1>6, <1>8, <1>9, <1>10, <1>11, TypeParts DEF AlarmInv

LEMMA AlarmNext == AlarmInv /\ [Next]_vars => AlarmInv'
<1> SUFFICES ASSUME AlarmInv, [Next]_vars PROVE AlarmInv'
  OBVIOUS
<1>1. CASE Boot
  BY <1>1, BootAlarm
<1>2. CASE Boot2
  BY <1>2, Boot2Alarm
<1>3. CASE Reschedule
  BY <1>3, RescheduleAlarm
<1>4. CASE SleepIsr /\ Interrupt
  BY <1>4, IsrAlarm
<1>5. CASE \/ Collect \/ StartConversion \/ ReadConversion
           \/ SleepStep /\ UNCHANGED app
           \/ PacketSent /\ UNCHANGED app
           \/ RfIsr /\ Interrupt
  BY <1>5, StillSteps
<1>6. CASE Tick /\ UNCHANGED app
  BY <1>6, TickAlarm
<1>7. CASE UNCHANGED vars
  <2>1. /\ UNCHANGED <<now, compare, stif, stie, wakeup, wakeupOld, enabledFlag, task, waited>>
        /\ UNCHANGED <<triggered, txDone, lle, sending, rfif, chan, timeLeft, sleepFlag, powerMode,
                       busy, aired, pc, state, initialized, sensor, payload, spoilt>>
    BY <1>7 DEF vars, bleVars, timer, sched, radio, sleep, pace, app
  <2>2. TypeOK'
    BY <2>1, TypeParts DEF AlarmInv, TypeRest, TypeTimer
  <2>3. AlarmAhead' /\ CompareRight'
    BY <2>1 DEF AlarmInv, AlarmAhead, CompareRight
  <2>4. /\ daqEvery' = daqEvery /\ advCount' = advCount /\ daqCount' = daqCount /\ Left' = Left
        /\ task' = task
    BY <2>1 DEF daqEvery, advCount, daqCount, Left
  <2>5. TasksRight' /\ Booting'
    BY <2>1, <2>4, Zenon DEF AlarmInv, TasksRight, Booting, Started
  <2> QED
    BY <2>2, <2>3, <2>5 DEF AlarmInv
<1>8. CASE Interrupt
  <2>1. \/ SleepIsr /\ Interrupt
        \/ RfIsr /\ Interrupt
    BY <1>8, Zenon DEF Interrupt
  <2> QED
    BY <1>4, <1>5, <2>1
<1>9. CASE MainStep
  <2>1. \/ Boot \/ Boot2 \/ Collect \/ StartConversion \/ ReadConversion \/ Reschedule
        \/ SleepStep /\ UNCHANGED app
    BY <1>9, Zenon DEF MainStep
  <2> QED
    BY <1>1, <1>2, <1>3, <1>5, <2>1
<1> QED
  <2>1. \/ MainStep \/ Interrupt
        \/ PacketSent /\ UNCHANGED app
        \/ Tick /\ UNCHANGED app
        \/ UNCHANGED vars
    BY Zenon DEF Next
  <2> QED
    BY <1>5, <1>6, <1>7, <1>8, <1>9, <2>1

(* The interrupt for each event comes: with the code's margins the timer is     *)
(* never loaded too late, however the steps and the interrupts interleave.      *)
THEOREM AlarmIsAhead == Spec => []WakesForEvents
<1>1. Init => AlarmInv
  BY InitAlarm
<1>2. AlarmInv /\ [Next]_vars => AlarmInv'
  BY AlarmNext
<1>3. AlarmInv => WakesForEvents
  BY DEF AlarmInv, WakesForEvents
<1> QED
  BY <1>1, <1>2, <1>3, PTL DEF Spec

------------------------------------------------------------------------------
(* Where the main context is when the interrupts come.                          *)

(* The countdowns are counted from the last interrupt, which was Before + Since *)
(* ticks ago; the alarm is counted from Since ticks ago, which is later when    *)
(* the tasks were restarted.                                                    *)
Since  == IF stif THEN First + waited ELSE First - Left
Before == Elapsed - Since

Quiet  == pc \in {"loop", "mode", "waitTx", "waitIdle", "reset", "sleep"}
Entry  == Quiet /\ pc # "loop"
Owed   == TASK_DAQ \in triggered \/ pc \in {"wire", "resched"}
OnAir  == sending \/ rfif
(* miniBleEnableTask asked for an interrupt at once.                            *)
Kicked == stif /\ pc = "loop" /\ daqEvery = Initial
Normal == Started /\ ~Kicked
(* What is left of a measuring interval after an advertising one.               *)
Spare  == Measure - L + 1 - Adv - MaxDelay

KickIsFirst ==
  Kicked => /\ Elapsed <= busy /\ daqCount = Initial + Elapsed - waited /\ advCount = Adv
            /\ now = wakeup + waited /\ wakeupOld = 0
            /\ triggered = {} /\ state = "MEASURE" /\ ~initialized /\ ~OnAir /\ lle

(* An interrupt that waits found the device asleep, or was for a measurement.   *)
WaitsRarely ==
  /\ ~stif => waited = 0
  /\ Normal =>
       /\ Before \in 0..Awake
       /\ Owed => Before = 0
       /\ pc \in {"wire", "resched"} => TASK_DAQ \notin triggered
       /\ stif => \/ pc \in {"asleep", "woken", "collect"}
                  \/ state = "MEASURE" /\ initialized

(* The device is not awake for long after an interrupt.                         *)
AwakeShortly ==
  Normal =>
    /\ OnAir /\ pc \notin {"wire", "resched"} => Since <= aired
    /\ Entry /\ ~sleepFlag => Since <= Air + busy + waited
    /\ Quiet \/ pc \in {"wire", "resched"} \/ (pc \in {"woken", "collect"} /\ ~stif)
         => Since <= Air + Work + busy + waited
    /\ pc = "asleep" => busy = 0
    /\ ~initialized /\ pc # "asleep" /\ ~stif => Since <= busy
    /\ ~initialized => ~OnAir
    /\ ~initialized /\ Entry => sleepFlag

(* The next advertisement is far while the device gets to sleep.                *)
AdvIsFar ==
  Normal =>
    /\ ~Owed => advCount - Before >= Adv - L - Awake
    /\ TASK_DAQ \in triggered /\ Quiet => advCount >= Adv - L - 2 * Awake - Late

(* Before the first measurement nothing but its interrupt is near.              *)
FirstMeasure ==
  Normal /\ ~initialized /\ state = "MEASURE" =>
    /\ ~Owed => /\ Before = 0 /\ wakeup <= Work + Initial
                /\ now = IF stif THEN wakeup + waited ELSE wakeup - Left
                /\ daqCount \in Initial - Late..Initial
                /\ advCount >= Adv - Work
                /\ stif => pc \in {"asleep", "woken", "collect"}
    /\ Owed => /\ daqCount >= Initial - Late
               /\ ~stif /\ pc \in {"collect", "wire", "resched"}
               /\ advCount >= Adv - Work - Initial - Late

(* While a conversion runs no advertisement is near: its end comes first, and    *)
(* finds the radio free.                                                        *)
Reading ==
  Normal /\ state = "READ" =>
    /\ ~Owed => /\ daqCount = Read /\ advCount = Adv
                /\ stif => pc \in {"asleep", "woken", "collect"}
    /\ Owed => /\ pc \in {"collect", "wire", "resched"} /\ ~stif
               /\ pc # "resched" => txDone /\ ~OnAir
               /\ daqCount >= Read - L + 1 /\ advCount >= Adv - Awake - Read - Late

(* While a measurement is owed the next one is more than Spare ticks away: from  *)
(* the next interrupt, or from the last one if the main context is at it.       *)
Measuring ==
  Normal /\ state = "MEASURE" /\ initialized /\ Owed =>
    \/ daqCount >= Spare + First
    \/ /\ pc \in {"collect", "wire", "resched"}
       /\ daqCount - Since + busy >= Spare - Late

(* The engine is in reset for a deep sleep only, which begins and ends with      *)
(* nothing on the air.                                                          *)
RadioRight ==
  /\ ~txDone => OnAir
  /\ ~lle => pc \in {"sleep", "asleep", "woken"} /\ powerMode = 2 /\ txDone /\ ~OnAir
  /\ pc \in {"waitTx", "waitIdle", "reset"} => powerMode = 2
  /\ pc = "reset" => txDone /\ ~OnAir

PaceInv == /\ KickIsFirst /\ WaitsRarely /\ AwakeShortly /\ AdvIsFar
           /\ FirstMeasure /\ Reading /\ Measuring /\ RadioRight

(* The numbers that PaceInv relates.                                            *)
Numbers ==
  /\ Elapsed \in Nat /\ Elapsed < N /\ First \in Nat /\ Left \in Nat /\ Since \in Int /\ Before \in Int
  /\ Since = (IF stif THEN First + waited ELSE First - Left) /\ Before = Elapsed - Since
  /\ advCount \in Nat /\ daqCount \in Nat /\ advCount <= Adv + MaxDelay
  /\ First <= advCount /\ First <= daqCount /\ (First = advCount \/ First = daqCount)
  /\ waited \in Nat /\ waited <= Late /\ busy \in Nat /\ busy <= Work /\ aired \in Nat /\ aired <= Air
  /\ now \in Nat /\ now < N /\ wakeup \in Nat
  /\ Started /\ ~stif => Left >= 1 /\ Left <= Adv + MaxDelay

LEMMA NumbersHold == AlarmInv => Numbers
<1> SUFFICES ASSUME AlarmInv PROVE Numbers
  OBVIOUS
<1>1. /\ now \in 0..N - 1 /\ wakeupOld \in 0..N - 1 /\ compare \in 0..N /\ wakeup \in Nat
      /\ waited \in 0..Late /\ busy \in 0..Work /\ aired \in 0..Air
  BY Sizes, TypeParts DEF AlarmInv, TypeRest, TypeTimer
<1>2. Elapsed \in 0..N - 1
  BY <1>1, ElapsedIs
<1>3. advCount \in 0..Horizon /\ daqCount \in 0..Horizon /\ advCount <= Adv + MaxDelay
  BY TaskFields DEF AlarmInv, TasksRight
<1>4. Left \in Nat
  <2> DEFINE r == compare - now
  <2>1. r \in (-N) .. 2 * N - 1
    BY <1>1, Sizes
  <2>2. Left = r % N
    BY DEF Left
  <2> HIDE DEF r
  <2>3. r % N = IF r < 0 THEN r + N ELSE IF r < N THEN r ELSE r - N
    BY <2>1, Turns
  <2> QED
    BY <2>1, <2>2, <2>3, Sizes
<1>5. /\ First \in Nat /\ First <= advCount /\ First <= daqCount
      /\ (First = advCount \/ First = daqCount)
  BY <1>3, Sizes DEF First, Least
<1>6. Started /\ ~stif => Left >= 1 /\ Left <= Adv + MaxDelay
  <2>1. SUFFICES ASSUME Started, ~stif PROVE Left \in 1..Adv + Max(Delays)
    BY <1>4, Sizes DEF MaxDelay
  <2> QED
    BY <2>1 DEF AlarmInv, AlarmAhead, TasksRight, Started, Left
<1>7. Since = (IF stif THEN First + waited ELSE First - Left) /\ Before = Elapsed - Since
  BY DEF Since, Before
<1>8. Since \in Int /\ Before \in Int
  BY <1>1, <1>2, <1>4, <1>5, <1>7, Sizes
<1> QED
  BY <1>1, <1>2, <1>3, <1>4, <1>5, <1>6, <1>7, <1>8, Sizes DEF Numbers

LEMMA ClockStill ==
  ASSUME UNCHANGED <<now, compare, stif, wakeupOld, task, waited>>
  PROVE  UNCHANGED <<Elapsed, First, Left, Since, Before, advCount, daqCount, daqEvery>>
<1>1. UNCHANGED <<Elapsed, Left, advCount, daqCount, daqEvery>>
  BY DEF Elapsed, Left, advCount, daqCount, daqEvery
<1>2. First' = First
  BY <1>1 DEF First
<1>3. Since' = Since
  BY <1>1, <1>2 DEF Since
<1> QED
  BY <1>1, <1>2, <1>3 DEF Before

(* The intervals tell the states apart.                                         *)
LEMMA EveryTells ==
  ASSUME AlarmInv
  PROVE  daqEvery = Initial <=> state = "MEASURE" /\ ~initialized
<1>1. Initial < Read /\ Initial < Measure /\ Initial \in Nat /\ Read \in Nat /\ Measure \in Nat
  BY Sizes
<1>2. state \in {"MEASURE", "READ"} /\ initialized \in BOOLEAN
  BY TypeParts DEF AlarmInv, TypeRest
<1>3. daqEvery = IF state = "READ" THEN Read ELSE IF initialized THEN Measure ELSE Initial
  BY DEF AlarmInv, TasksRight
<1> QED
  BY <1>1, <1>2, <1>3

LEMMA EnterSleepPace == ASSUME AlarmInv, Numbers, PaceInv, EnterSleep, UNCHANGED app PROVE PaceInv'
<1>1. UNCHANGED <<now, compare, stif, wakeupOld, wakeup, task, waited>> /\ pc = "loop"
  BY DEF EnterSleep, Goto, timer, sched, pace
<1>2. /\ pc' \in {"collect", "mode"}
      /\ sleepFlag' = TRUE
      /\ UNCHANGED <<triggered, txDone, lle, sending, rfif, powerMode, busy, aired, state, initialized>>
  BY DEF EnterSleep, Goto, Pending, sched, radio, pace, app
<1>3. UNCHANGED <<Elapsed, First, Left, Since, Before, advCount, daqCount, daqEvery>>
  BY <1>1, ClockStill
<1>4. stif = FALSE /\ rfif = FALSE
  <2>1. stif \in BOOLEAN /\ rfif \in BOOLEAN /\ stie = TRUE
    BY <1>1 DEF AlarmInv, TypeOK, TasksRight
  <2>2. CanInterrupt /\ (CanInterrupt => ~Pending)
    BY <1>1 DEF EnterSleep, Goto, CanInterrupt
  <2> QED
    BY <2>1, <2>2 DEF Pending
<1>5. /\ KickIsFirst /\ WaitsRarely /\ AwakeShortly /\ AdvIsFar
      /\ FirstMeasure /\ Reading /\ Measuring /\ RadioRight
  BY DEF PaceInv
<1> USE <1>1, <1>2, <1>3, <1>4 DEF Kicked, Normal, Started, Owed, OnAir, Quiet, Entry
<1>6. KickIsFirst'
  BY <1>5, Sizes DEF KickIsFirst, Numbers
<1>7. WaitsRarely'
  BY <1>5, Sizes DEF WaitsRarely, Numbers
<1>8. AwakeShortly'
  BY <1>5, Sizes DEF AwakeShortly, RadioRight, WaitsRarely, Numbers
<1>9. AdvIsFar'
  BY <1>5, Sizes DEF AdvIsFar, Numbers
<1>10. FirstMeasure'
  BY <1>5, Sizes DEF FirstMeasure, Numbers
<1>11. Reading'
  BY <1>5, Sizes DEF Reading, Numbers
<1>12. Measuring'
  BY <1>5, Sizes DEF Measuring, Numbers
<1>13. RadioRight'
  BY <1>5, Sizes DEF RadioRight, Numbers
<1> QED
  BY <1>6, <1>7, <1>8, <1>9, <1>10, <1>11, <1>12, <1>13 DEF PaceInv

LEMMA ChoosePowerModePace == ASSUME AlarmInv, Numbers, PaceInv, ChoosePowerMode, UNCHANGED app PROVE PaceInv'
<1>1. UNCHANGED <<now, compare, stif, wakeupOld, wakeup, task, waited>> /\ pc = "mode"
  BY DEF ChoosePowerMode, Goto, timer, sched, pace
<1>2. /\ pc' \in {"sleep", "waitTx"}
      /\ pc' = "waitTx" => powerMode' = 2
      /\ UNCHANGED <<triggered, txDone, lle, sending, rfif, sleepFlag, busy, aired, state, initialized>>
  BY DEF ChoosePowerMode, Goto, Pending, sched, radio, pace, app
<1>3. UNCHANGED <<Elapsed, First, Left, Since, Before, advCount, daqCount, daqEvery>>
  BY <1>1, ClockStill
<1>4. stif = FALSE /\ rfif = FALSE
  <2>1. stif \in BOOLEAN /\ rfif \in BOOLEAN /\ stie = TRUE
    BY <1>1 DEF AlarmInv, TypeOK, TasksRight
  <2>2. CanInterrupt /\ (CanInterrupt => ~Pending)
    BY <1>1 DEF ChoosePowerMode, Goto, CanInterrupt
  <2> QED
    BY <2>1, <2>2 DEF Pending
<1>5. /\ KickIsFirst /\ WaitsRarely /\ AwakeShortly /\ AdvIsFar
      /\ FirstMeasure /\ Reading /\ Measuring /\ RadioRight
  BY DEF PaceInv
<1> USE <1>1, <1>2, <1>3, <1>4 DEF Kicked, Normal, Started, Owed, OnAir, Quiet, Entry
<1>6. KickIsFirst'
  BY <1>5, Sizes DEF KickIsFirst, Numbers
<1>7. WaitsRarely'
  BY <1>5, Sizes DEF WaitsRarely, Numbers
<1>8. AwakeShortly'
  BY <1>5, Sizes DEF AwakeShortly, RadioRight, WaitsRarely, Numbers
<1>9. AdvIsFar'
  BY <1>5, Sizes DEF AdvIsFar, Numbers
<1>10. FirstMeasure'
  BY <1>5, Sizes DEF FirstMeasure, Numbers
<1>11. Reading'
  BY <1>5, Sizes DEF Reading, Numbers
<1>12. Measuring'
  BY <1>5, Sizes DEF Measuring, Numbers
<1>13. RadioRight'
  BY <1>5, Sizes DEF RadioRight, Numbers
<1> QED
  BY <1>6, <1>7, <1>8, <1>9, <1>10, <1>11, <1>12, <1>13 DEF PaceInv

LEMMA WaitTxDonePace == ASSUME AlarmInv, Numbers, PaceInv, WaitTxDone, UNCHANGED app PROVE PaceInv'
<1>1. UNCHANGED <<now, compare, stif, wakeupOld, wakeup, task, waited>> /\ pc = "waitTx"
  BY DEF WaitTxDone, Goto, timer, sched, pace
<1>2. /\ pc' = "waitIdle"
      /\ txDone
      /\ UNCHANGED <<triggered, txDone, lle, sending, rfif, sleepFlag, powerMode, busy, aired, state, initialized>>
  BY DEF WaitTxDone, Goto, Pending, sched, radio, sleep, pace, app
<1>3. UNCHANGED <<Elapsed, First, Left, Since, Before, advCount, daqCount, daqEvery>>
  BY <1>1, ClockStill
<1>4. stif = FALSE /\ rfif = FALSE
  <2>1. stif \in BOOLEAN /\ rfif \in BOOLEAN /\ stie = TRUE
    BY <1>1 DEF AlarmInv, TypeOK, TasksRight
  <2>2. CanInterrupt /\ (CanInterrupt => ~Pending)
    BY <1>1 DEF WaitTxDone, Goto, CanInterrupt
  <2> QED
    BY <2>1, <2>2 DEF Pending
<1>5. /\ KickIsFirst /\ WaitsRarely /\ AwakeShortly /\ AdvIsFar
      /\ FirstMeasure /\ Reading /\ Measuring /\ RadioRight
  BY DEF PaceInv
<1> USE <1>1, <1>2, <1>3, <1>4 DEF Kicked, Normal, Started, Owed, OnAir, Quiet, Entry
<1>6. KickIsFirst'
  BY <1>5, Sizes DEF KickIsFirst, Numbers
<1>7. WaitsRarely'
  BY <1>5, Sizes DEF WaitsRarely, Numbers
<1>8. AwakeShortly'
  BY <1>5, Sizes DEF AwakeShortly, RadioRight, WaitsRarely, Numbers
<1>9. AdvIsFar'
  BY <1>5, Sizes DEF AdvIsFar, Numbers
<1>10. FirstMeasure'
  BY <1>5, Sizes DEF FirstMeasure, Numbers
<1>11. Reading'
  BY <1>5, Sizes DEF Reading, Numbers
<1>12. Measuring'
  BY <1>5, Sizes DEF Measuring, Numbers
<1>13. RadioRight'
  BY <1>5, Sizes DEF RadioRight, Numbers
<1> QED
  BY <1>6, <1>7, <1>8, <1>9, <1>10, <1>11, <1>12, <1>13 DEF PaceInv

LEMMA WaitLleIdlePace == ASSUME AlarmInv, Numbers, PaceInv, WaitLleIdle, UNCHANGED app PROVE PaceInv'
<1>1. UNCHANGED <<now, compare, stif, wakeupOld, wakeup, task, waited>> /\ pc = "waitIdle"
  BY DEF WaitLleIdle, Goto, timer, sched, pace
<1>2. /\ pc' = "reset"
      /\ ~sending
      /\ UNCHANGED <<triggered, txDone, lle, sending, rfif, sleepFlag, powerMode, busy, aired, state, initialized>>
  BY DEF WaitLleIdle, Goto, Pending, sched, radio, sleep, pace, app
<1>3. UNCHANGED <<Elapsed, First, Left, Since, Before, advCount, daqCount, daqEvery>>
  BY <1>1, ClockStill
<1>4. stif = FALSE /\ rfif = FALSE
  <2>1. stif \in BOOLEAN /\ rfif \in BOOLEAN /\ stie = TRUE
    BY <1>1 DEF AlarmInv, TypeOK, TasksRight
  <2>2. CanInterrupt /\ (CanInterrupt => ~Pending)
    BY <1>1 DEF WaitLleIdle, Goto, CanInterrupt
  <2> QED
    BY <2>1, <2>2 DEF Pending
<1>5. /\ KickIsFirst /\ WaitsRarely /\ AwakeShortly /\ AdvIsFar
      /\ FirstMeasure /\ Reading /\ Measuring /\ RadioRight
  BY DEF PaceInv
<1> USE <1>1, <1>2, <1>3, <1>4 DEF Kicked, Normal, Started, Owed, OnAir, Quiet, Entry
<1>6. KickIsFirst'
  BY <1>5, Sizes DEF KickIsFirst, Numbers
<1>7. WaitsRarely'
  BY <1>5, Sizes DEF WaitsRarely, Numbers
<1>8. AwakeShortly'
  BY <1>5, Sizes DEF AwakeShortly, RadioRight, WaitsRarely, Numbers
<1>9. AdvIsFar'
  BY <1>5, Sizes DEF AdvIsFar, Numbers
<1>10. FirstMeasure'
  BY <1>5, Sizes DEF FirstMeasure, Numbers
<1>11. Reading'
  BY <1>5, Sizes DEF Reading, Numbers
<1>12. Measuring'
  BY <1>5, Sizes DEF Measuring, Numbers
<1>13. RadioRight'
  BY <1>5, Sizes DEF RadioRight, Numbers
<1> QED
  BY <1>6, <1>7, <1>8, <1>9, <1>10, <1>11, <1>12, <1>13 DEF PaceInv

LEMMA ResetLlePace == ASSUME AlarmInv, Numbers, PaceInv, ResetLle, UNCHANGED app PROVE PaceInv'
<1>1. UNCHANGED <<now, compare, stif, wakeupOld, wakeup, task, waited>> /\ pc = "reset"
  BY DEF ResetLle, Goto, timer, sched, pace
<1>2. /\ pc' = "sleep"
      /\ lle' = FALSE
      /\ sending' = FALSE
      /\ UNCHANGED <<triggered, txDone, rfif, sleepFlag, powerMode, busy, aired, state, initialized>>
  BY DEF ResetLle, Goto, Pending, sched, sleep, pace, app
<1>3. UNCHANGED <<Elapsed, First, Left, Since, Before, advCount, daqCount, daqEvery>>
  BY <1>1, ClockStill
<1>4. stif = FALSE /\ rfif = FALSE
  <2>1. stif \in BOOLEAN /\ rfif \in BOOLEAN /\ stie = TRUE
    BY <1>1 DEF AlarmInv, TypeOK, TasksRight
  <2>2. CanInterrupt /\ (CanInterrupt => ~Pending)
    BY <1>1 DEF ResetLle, Goto, CanInterrupt
  <2> QED
    BY <2>1, <2>2 DEF Pending
<1>5. /\ KickIsFirst /\ WaitsRarely /\ AwakeShortly /\ AdvIsFar
      /\ FirstMeasure /\ Reading /\ Measuring /\ RadioRight
  BY DEF PaceInv
<1> USE <1>1, <1>2, <1>3, <1>4 DEF Kicked, Normal, Started, Owed, OnAir, Quiet, Entry
<1>6. KickIsFirst'
  BY <1>5, Sizes DEF KickIsFirst, Numbers
<1>7. WaitsRarely'
  BY <1>5, Sizes DEF WaitsRarely, Numbers
<1>8. AwakeShortly'
  BY <1>5, Sizes DEF AwakeShortly, RadioRight, WaitsRarely, Numbers
<1>9. AdvIsFar'
  BY <1>5, Sizes DEF AdvIsFar, Numbers
<1>10. FirstMeasure'
  BY <1>5, Sizes DEF FirstMeasure, Numbers
<1>11. Reading'
  BY <1>5, Sizes DEF Reading, Numbers
<1>12. Measuring'
  BY <1>5, Sizes DEF Measuring, Numbers
<1>13. RadioRight'
  BY <1>5, Sizes DEF RadioRight, Numbers
<1> QED
  BY <1>6, <1>7, <1>8, <1>9, <1>10, <1>11, <1>12, <1>13 DEF PaceInv

LEMMA SleepUsingFlagPace == ASSUME AlarmInv, Numbers, PaceInv, SleepUsingFlag, UNCHANGED app PROVE PaceInv'
<1>1. UNCHANGED <<now, compare, stif, wakeupOld, wakeup, task, waited>> /\ pc = "sleep"
  BY DEF SleepUsingFlag, Goto, timer, sched, pace
<1>2. /\ pc' = IF sleepFlag THEN "asleep" ELSE "woken"
      /\ busy' = 0
      /\ UNCHANGED <<triggered, txDone, lle, sending, rfif, sleepFlag, powerMode, aired, state, initialized>>
  BY DEF SleepUsingFlag, Goto, Pending, sched, radio, sleep, app
<1>3. UNCHANGED <<Elapsed, First, Left, Since, Before, advCount, daqCount, daqEvery>>
  BY <1>1, ClockStill
<1>4. stif = FALSE /\ rfif = FALSE
  <2>1. stif \in BOOLEAN /\ rfif \in BOOLEAN /\ stie = TRUE
    BY <1>1 DEF AlarmInv, TypeOK, TasksRight
  <2>2. CanInterrupt /\ (CanInterrupt => ~Pending)
    BY <1>1 DEF SleepUsingFlag, Goto, CanInterrupt
  <2> QED
    BY <2>1, <2>2 DEF Pending
<1>5. /\ KickIsFirst /\ WaitsRarely /\ AwakeShortly /\ AdvIsFar
      /\ FirstMeasure /\ Reading /\ Measuring /\ RadioRight
  BY DEF PaceInv
<1> USE <1>1, <1>2, <1>3, <1>4 DEF Kicked, Normal, Started, Owed, OnAir, Quiet, Entry
<1>6. KickIsFirst'
  BY <1>5, Sizes DEF KickIsFirst, Numbers
<1>7. WaitsRarely'
  BY <1>5, Sizes DEF WaitsRarely, Numbers
<1>8. AwakeShortly'
  BY <1>5, Sizes DEF AwakeShortly, RadioRight, WaitsRarely, Numbers
<1>9. AdvIsFar'
  BY <1>5, Sizes DEF AdvIsFar, Numbers
<1>10. FirstMeasure'
  BY <1>5, Sizes DEF FirstMeasure, Numbers
<1>11. Reading'
  BY <1>5, Sizes DEF Reading, Numbers
<1>12. Measuring'
  BY <1>5, Sizes DEF Measuring, Numbers
<1>13. RadioRight'
  BY <1>5, Sizes DEF RadioRight, Numbers
<1> QED
  BY <1>6, <1>7, <1>8, <1>9, <1>10, <1>11, <1>12, <1>13 DEF PaceInv

LEMMA WakePace == ASSUME AlarmInv, Numbers, PaceInv, Wake, UNCHANGED app PROVE PaceInv'
<1>1. UNCHANGED <<now, compare, stif, wakeupOld, wakeup, task, waited>> /\ pc = "asleep"
  BY DEF Wake, Goto, timer, sched, pace
<1>2. /\ pc' = "woken"
      /\ stif \/ rfif
      /\ UNCHANGED <<triggered, txDone, lle, sending, rfif, sleepFlag, powerMode, busy, aired, state, initialized>>
  BY DEF Wake, Goto, Pending, sched, radio, sleep, pace, app
<1>3. UNCHANGED <<Elapsed, First, Left, Since, Before, advCount, daqCount, daqEvery>>
  BY <1>1, ClockStill
<1>4. stif \in BOOLEAN /\ rfif \in BOOLEAN
  BY DEF AlarmInv, TypeOK
<1>5. /\ KickIsFirst /\ WaitsRarely /\ AwakeShortly /\ AdvIsFar
      /\ FirstMeasure /\ Reading /\ Measuring /\ RadioRight
  BY DEF PaceInv
<1> USE <1>1, <1>2, <1>3, <1>4 DEF Kicked, Normal, Started, Owed, OnAir, Quiet, Entry
<1>6. KickIsFirst'
  BY <1>5, Sizes DEF KickIsFirst, Numbers
<1>7. WaitsRarely'
  BY <1>5, Sizes DEF WaitsRarely, Numbers
<1>8. AwakeShortly'
  BY <1>5, Sizes DEF AwakeShortly, RadioRight, WaitsRarely, Numbers
<1>9. AdvIsFar'
  BY <1>5, Sizes DEF AdvIsFar, Numbers
<1>10. FirstMeasure'
  BY <1>5, Sizes DEF FirstMeasure, Numbers
<1>11. Reading'
  BY <1>5, Sizes DEF Reading, Numbers
<1>12. Measuring'
  BY <1>5, Sizes DEF Measuring, Numbers
<1>13. RadioRight'
  BY <1>5, Sizes DEF RadioRight, Numbers
<1> QED
  BY <1>6, <1>7, <1>8, <1>9, <1>10, <1>11, <1>12, <1>13 DEF PaceInv

LEMMA EnableLlePace == ASSUME AlarmInv, Numbers, PaceInv, EnableLle, UNCHANGED app PROVE PaceInv'
<1>1. UNCHANGED <<now, compare, stif, wakeupOld, wakeup, task, waited>> /\ pc = "woken"
  BY DEF EnableLle, Goto, timer, sched, pace
<1>2. /\ pc' = "collect"
      /\ lle' = IF powerMode > 0 THEN TRUE ELSE lle
      /\ powerMode' = 0
      /\ UNCHANGED <<triggered, txDone, sending, rfif, sleepFlag, busy, aired, state, initialized>>
  BY DEF EnableLle, Goto, Pending, sched, sleep, pace, app
<1>3. UNCHANGED <<Elapsed, First, Left, Since, Before, advCount, daqCount, daqEvery>>
  BY <1>1, ClockStill
<1>4. stif \in BOOLEAN /\ rfif \in BOOLEAN
  BY DEF AlarmInv, TypeOK
<1>5. /\ KickIsFirst /\ WaitsRarely /\ AwakeShortly /\ AdvIsFar
      /\ FirstMeasure /\ Reading /\ Measuring /\ RadioRight
  BY DEF PaceInv
<1> USE <1>1, <1>2, <1>3, <1>4 DEF Kicked, Normal, Started, Owed, OnAir, Quiet, Entry
<1>6. KickIsFirst'
  BY <1>5, Sizes DEF KickIsFirst, Numbers
<1>7. WaitsRarely'
  BY <1>5, Sizes DEF WaitsRarely, Numbers
<1>8. AwakeShortly'
  BY <1>5, Sizes DEF AwakeShortly, RadioRight, WaitsRarely, Numbers
<1>9. AdvIsFar'
  BY <1>5, Sizes DEF AdvIsFar, Numbers
<1>10. FirstMeasure'
  BY <1>5, Sizes DEF FirstMeasure, Numbers
<1>11. Reading'
  BY <1>5, Sizes DEF Reading, Numbers
<1>12. Measuring'
  BY <1>5, Sizes DEF Measuring, Numbers
<1>13. RadioRight'
  BY <1>5, Sizes DEF RadioRight, Numbers
<1> QED
  BY <1>6, <1>7, <1>8, <1>9, <1>10, <1>11, <1>12, <1>13 DEF PaceInv

LEMMA CollectPace == ASSUME AlarmInv, Numbers, PaceInv, Collect PROVE PaceInv'
<1>1. UNCHANGED <<now, compare, stif, wakeupOld, wakeup, task, waited>> /\ pc = "collect"
  BY DEF Collect, Goto, timer, sched, pace
<1>2. /\ pc' = IF TASK_DAQ \in triggered THEN "wire" ELSE "loop"
      /\ triggered' = {}
      /\ UNCHANGED <<txDone, lle, sending, rfif, sleepFlag, powerMode, busy, aired, state, initialized>>
  BY DEF Collect, Goto, Pending, radio, sleep, pace, app
<1>3. UNCHANGED <<Elapsed, First, Left, Since, Before, advCount, daqCount, daqEvery>>
  BY <1>1, ClockStill
<1>4. stif = FALSE /\ rfif = FALSE
  <2>1. stif \in BOOLEAN /\ rfif \in BOOLEAN /\ stie = TRUE
    BY <1>1 DEF AlarmInv, TypeOK, TasksRight
  <2>2. CanInterrupt /\ (CanInterrupt => ~Pending)
    BY <1>1 DEF Collect, Goto, CanInterrupt
  <2> QED
    BY <2>1, <2>2 DEF Pending
<1>5. /\ KickIsFirst /\ WaitsRarely /\ AwakeShortly /\ AdvIsFar
      /\ FirstMeasure /\ Reading /\ Measuring /\ RadioRight
  BY DEF PaceInv
<1> USE <1>1, <1>2, <1>3, <1>4 DEF Kicked, Normal, Started, Owed, OnAir, Quiet, Entry
<1>6. KickIsFirst'
  BY <1>5, Sizes DEF KickIsFirst, Numbers
<1>7. WaitsRarely'
  BY <1>5, Sizes DEF WaitsRarely, Numbers
<1>8. AwakeShortly'
  BY <1>5, Sizes DEF AwakeShortly, RadioRight, WaitsRarely, Numbers
<1>9. AdvIsFar'
  BY <1>5, Sizes DEF AdvIsFar, Numbers
<1>10. FirstMeasure'
  BY <1>5, Sizes DEF FirstMeasure, Numbers
<1>11. Reading'
  BY <1>5, Sizes DEF Reading, Numbers
<1>12. Measuring'
  BY <1>5, Sizes DEF Measuring, Numbers
<1>13. RadioRight'
  BY <1>5, Sizes DEF RadioRight, Numbers
<1> QED
  BY <1>6, <1>7, <1>8, <1>9, <1>10, <1>11, <1>12, <1>13 DEF PaceInv

LEMMA StartConversionPace == ASSUME AlarmInv, Numbers, PaceInv, StartConversion PROVE PaceInv'
<1>1. UNCHANGED <<now, compare, stif, wakeupOld, wakeup, task, waited>> /\ pc = "wire"
  BY DEF StartConversion, Goto, timer, sched, pace
<1>2. /\ pc' = "resched"
      /\ state = "MEASURE"
      /\ UNCHANGED <<triggered, txDone, lle, sending, rfif, sleepFlag, powerMode, busy, aired, state, initialized>>
  BY DEF StartConversion, Goto, Pending, sched, radio, sleep, pace
<1>3. UNCHANGED <<Elapsed, First, Left, Since, Before, advCount, daqCount, daqEvery>>
  BY <1>1, ClockStill
<1>4. stif = FALSE /\ rfif = FALSE
  <2>1. stif \in BOOLEAN /\ rfif \in BOOLEAN /\ stie = TRUE
    BY <1>1 DEF AlarmInv, TypeOK, TasksRight
  <2>2. CanInterrupt /\ (CanInterrupt => ~Pending)
    BY <1>1 DEF StartConversion, Goto, CanInterrupt
  <2> QED
    BY <2>1, <2>2 DEF Pending
<1>5. /\ KickIsFirst /\ WaitsRarely /\ AwakeShortly /\ AdvIsFar
      /\ FirstMeasure /\ Reading /\ Measuring /\ RadioRight
  BY DEF PaceInv
<1> USE <1>1, <1>2, <1>3, <1>4 DEF Kicked, Normal, Started, Owed, OnAir, Quiet, Entry
<1>6. KickIsFirst'
  BY <1>5, Sizes DEF KickIsFirst, Numbers
<1>7. WaitsRarely'
  BY <1>5, Sizes DEF WaitsRarely, Numbers
<1>8. AwakeShortly'
  BY <1>5, Sizes DEF AwakeShortly, RadioRight, WaitsRarely, Numbers
<1>9. AdvIsFar'
  BY <1>5, Sizes DEF AdvIsFar, Numbers
<1>10. FirstMeasure'
  BY <1>5, Sizes DEF FirstMeasure, Numbers
<1>11. Reading'
  BY <1>5, Sizes DEF Reading, Numbers
<1>12. Measuring'
  BY <1>5, Sizes DEF Measuring, Numbers
<1>13. RadioRight'
  BY <1>5, Sizes DEF RadioRight, Numbers
<1> QED
  BY <1>6, <1>7, <1>8, <1>9, <1>10, <1>11, <1>12, <1>13 DEF PaceInv
LEMMA ReadConversionPace == ASSUME AlarmInv, Numbers, PaceInv, ReadConversion PROVE PaceInv'
<1>1. /\ UNCHANGED <<now, compare, stif, wakeupOld, wakeup, task, waited>>
      /\ pc = "wire" /\ pc' = "resched" /\ state = "READ" /\ initialized' = TRUE
      /\ UNCHANGED <<triggered, txDone, lle, rfif, sleepFlag, powerMode, busy, state>>
  BY DEF ReadConversion, Goto, timer, sched, sleep
<1>2. sending' = sending \/ sending' = TRUE
  BY Zenon DEF ReadConversion, CmdTx
<1>3. UNCHANGED <<Elapsed, First, Left, Since, Before, advCount, daqCount, daqEvery>>
  BY <1>1, ClockStill
<1>4. stif = FALSE /\ rfif = FALSE
  <2>1. stif \in BOOLEAN /\ rfif \in BOOLEAN /\ stie = TRUE
    BY <1>1 DEF AlarmInv, TypeOK, TasksRight
  <2>2. CanInterrupt /\ (CanInterrupt => ~Pending)
    BY <1>1 DEF ReadConversion, Goto, CanInterrupt
  <2> QED
    BY <2>1, <2>2 DEF Pending
<1>5. /\ KickIsFirst /\ WaitsRarely /\ AwakeShortly /\ AdvIsFar
      /\ FirstMeasure /\ Reading /\ Measuring /\ RadioRight
  BY DEF PaceInv
<1> USE <1>1, <1>2, <1>3, <1>4 DEF Kicked, Normal, Started, Owed, OnAir, Quiet, Entry
<1>6. KickIsFirst'
  BY <1>5, Sizes DEF KickIsFirst, Numbers
<1>7. WaitsRarely'
  BY <1>5, Sizes DEF WaitsRarely, Numbers
<1>8. AwakeShortly'
  BY <1>5, Sizes DEF AwakeShortly, RadioRight, WaitsRarely, Numbers
<1>9. AdvIsFar'
  BY <1>5, Sizes DEF AdvIsFar, Numbers
<1>10. FirstMeasure'
  BY <1>5, Sizes DEF FirstMeasure, Numbers
<1>11. Reading'
  BY <1>5, Sizes DEF Reading, Numbers
<1>12. Measuring'
  BY <1>5, Sizes DEF Measuring, Numbers
<1>13. RadioRight'
  BY <1>5, Sizes DEF RadioRight, Numbers
<1> QED
  BY <1>6, <1>7, <1>8, <1>9, <1>10, <1>11, <1>12, <1>13 DEF PaceInv

(* The tasks begin again, and the interrupt before stays the last one.          *)
LEMMA ReschedulePace == ASSUME AlarmInv, Numbers, PaceInv, Reschedule PROVE PaceInv'
<1>1. /\ pc = "resched" /\ pc' = "loop"
      /\ UNCHANGED <<now, triggered, txDone, lle, sending, rfif, sleepFlag, powerMode,
                     busy, aired, initialized>>
      /\ state' = (IF state = "MEASURE" THEN "READ" ELSE "MEASURE")
  BY DEF Reschedule, Goto, radio, sleep
<1>2. /\ stif' = FALSE /\ waited' = 0 /\ wakeupOld' = wakeupOld /\ Left' = First'
      /\ advCount' = Adv /\ daqCount' = IF state = "MEASURE" THEN Read ELSE Measure
  <2>1. RescheduleCounts
    BY RescheduleOnTasks
  <2> DEFINE v == Next_daqEvery
             t == Least(Adv, v)
  <2>2. /\ v \in 1..N - 1 /\ v \in 0..Horizon /\ Adv \in 1..N - 1 /\ Adv \in 0..Horizon
        /\ t \in MinLoad + 1 .. Adv + MaxDelay /\ now \in 0..N - 1
    <3>1. v \in {Read, Measure}
      BY DEF Next_daqEvery
    <3>2. now \in 0..N - 1
      BY DEF AlarmInv, TypeOK
    <3> HIDE DEF v
    <3> QED
      BY <3>1, <3>2, Sizes DEF Least
  <2> HIDE DEF v
  <2>3. advCount' = Adv /\ daqCount' = v
    BY <2>1, <2>2, TaskTypes DEF RescheduleCounts, v
  <2>4. First' = t
    BY <2>3 DEF First
  <2>5. SetWakeup(t) /\ stif' = FALSE /\ waited' = 0 /\ wakeupOld' = wakeupOld /\ stie' = TRUE
    BY <2>1 DEF RescheduleCounts, v
  <2> HIDE DEF t
  <2>6. Left' = t
    BY <1>1, <2>2, <2>5, AlarmSet
  <2> QED
    BY <2>3, <2>4, <2>5, <2>6 DEF v, Next_daqEvery
<1>3. Elapsed' = Elapsed
  BY <1>1, <1>2 DEF Elapsed
<1>4. /\ KickIsFirst /\ WaitsRarely /\ AwakeShortly /\ AdvIsFar
      /\ FirstMeasure /\ Reading /\ Measuring /\ RadioRight
      /\ state \in {"MEASURE", "READ"} /\ (state = "READ" => initialized)
  BY <1>1 DEF PaceInv, AlarmInv, TypeOK, TasksRight
<1>5. Since' = 0 /\ Before' = Elapsed
  <2>1. First' \in Nat
    BY <1>2, Sizes DEF First, Least
  <2>2. Since' = 0
    <3>1. Since' = IF stif' THEN First' + waited' ELSE First' - Left'
      BY DEF Since
    <3>2. ~stif' /\ Left' = First'
      BY <1>2
    <3>3. Since' = First' - First'
      BY <3>1, <3>2, Zenon
    <3>4. \A x \in Nat : x - x = 0
      OBVIOUS
    <3> QED
      BY <2>1, <3>3, <3>4, Zenon
  <2> QED
    BY <1>3, <2>2, Sizes DEF Before, Numbers
<1>6. stif = FALSE /\ rfif = FALSE
  <2>1. stif \in BOOLEAN /\ rfif \in BOOLEAN /\ stie = TRUE
    BY <1>1 DEF AlarmInv, TypeOK, TasksRight
  <2>2. CanInterrupt /\ (CanInterrupt => ~Pending)
    BY <1>1 DEF Reschedule, Goto, CanInterrupt
  <2> QED
    BY <2>1, <2>2 DEF Pending
<1> USE <1>1, <1>2, <1>5, <1>6 DEF Kicked, Normal, Started, Owed, OnAir, Quiet, Entry
<1>7. /\ TASK_DAQ \notin triggered /\ Before = 0 /\ Since <= Awake
  BY <1>4, Sizes DEF WaitsRarely, AwakeShortly, Numbers
<1>8. Elapsed \in 0..Awake
  BY <1>7, Sizes DEF Numbers
<1>9. KickIsFirst'
  BY <1>4, <1>7, <1>8, Sizes DEF KickIsFirst, Numbers
<1>10. WaitsRarely'
  BY <1>4, <1>7, <1>8, Sizes DEF WaitsRarely, Numbers
<1>11. AwakeShortly'
  BY <1>4, <1>7, <1>8, Sizes DEF AwakeShortly, RadioRight, WaitsRarely, Numbers
<1>12. AdvIsFar'
  BY <1>4, <1>7, <1>8, Sizes DEF AdvIsFar, Numbers
<1>13. FirstMeasure'
  BY <1>4, <1>7, <1>8, Sizes DEF FirstMeasure, Numbers
<1>14. Reading'
  BY <1>4, <1>7, <1>8, Sizes DEF Reading, Numbers
<1>15. Measuring'
  BY <1>4, <1>7, <1>8, Sizes DEF Measuring, Numbers
<1>16. RadioRight'
  BY <1>4, <1>7, <1>8, Sizes DEF RadioRight, Numbers
<1> QED
  BY <1>9, <1>10, <1>11, <1>12, <1>13, <1>14, <1>15, <1>16 DEF PaceInv

LEMMA PacketSentPace == ASSUME AlarmInv, Numbers, PaceInv, PacketSent, UNCHANGED app PROVE PaceInv'
<1>1. /\ UNCHANGED <<now, compare, stif, wakeupOld, wakeup, task, waited>>
      /\ sending = TRUE /\ sending' = FALSE /\ rfif' = TRUE
      /\ UNCHANGED <<triggered, txDone, lle, sleepFlag, powerMode, busy, aired, state, initialized, pc>>
  <2>1. sending \in BOOLEAN
    BY DEF AlarmInv, TypeOK
  <2> QED
    BY <2>1 DEF PacketSent, timer, sched, sleep, pace, app
<1>2. UNCHANGED <<Elapsed, First, Left, Since, Before, advCount, daqCount, daqEvery>>
  BY <1>1, ClockStill
<1>3. Started
  BY <1>1 DEF AlarmInv, Booting
<1>5. /\ KickIsFirst /\ WaitsRarely /\ AwakeShortly /\ AdvIsFar
      /\ FirstMeasure /\ Reading /\ Measuring /\ RadioRight
  BY DEF PaceInv
<1> USE <1>1, <1>2, <1>3 DEF Kicked, Normal, Started, Owed, OnAir, Quiet, Entry
<1>6. KickIsFirst'
  BY <1>5, Sizes DEF KickIsFirst, Numbers
<1>7. WaitsRarely'
  BY <1>5, Sizes DEF WaitsRarely, Numbers
<1>8. AwakeShortly'
  BY <1>5, Sizes DEF AwakeShortly, RadioRight, WaitsRarely, Numbers
<1>9. AdvIsFar'
  BY <1>5, Sizes DEF AdvIsFar, Numbers
<1>10. FirstMeasure'
  BY <1>5, Sizes DEF FirstMeasure, Numbers
<1>11. Reading'
  BY <1>5, Sizes DEF Reading, Numbers
<1>12. Measuring'
  BY <1>5, Sizes DEF Measuring, Numbers
<1>13. RadioRight'
  BY <1>5, Sizes DEF RadioRight, Numbers
<1> QED
  BY <1>6, <1>7, <1>8, <1>9, <1>10, <1>11, <1>12, <1>13 DEF PaceInv

LEMMA RfIsrPace == ASSUME AlarmInv, Numbers, PaceInv, RfIsr, Interrupt PROVE PaceInv'
<1>1. /\ UNCHANGED <<now, compare, stif, wakeupOld, wakeup, task, waited>>
      /\ rfif = TRUE /\ rfif' = FALSE /\ sleepFlag' = FALSE /\ pc \notin {"asleep", "woken"}
      /\ UNCHANGED <<triggered, lle, powerMode, busy, aired, state, initialized, pc>>
  <2>1. rfif \in BOOLEAN
    BY DEF AlarmInv, TypeOK
  <2> QED
    BY <2>1 DEF RfIsr, Interrupt, CanInterrupt, timer, sched, pace
<1>2. UNCHANGED <<Elapsed, First, Left, Since, Before, advCount, daqCount, daqEvery>>
  BY <1>1, ClockStill
<1>3. Started
  BY <1>1 DEF AlarmInv, Booting
<1>4. \/ txDone' = TRUE /\ sending' = sending
      \/ txDone' = FALSE /\ sending' = IF lle THEN TRUE ELSE sending
  BY Zenon DEF RfIsr
<1>5. /\ KickIsFirst /\ WaitsRarely /\ AwakeShortly /\ AdvIsFar
      /\ FirstMeasure /\ Reading /\ Measuring /\ RadioRight
  BY DEF PaceInv
<1> USE <1>1, <1>2, <1>3, <1>4 DEF Kicked, Normal, Started, Owed, OnAir, Quiet, Entry
<1>6. KickIsFirst'
  BY <1>5, Sizes DEF KickIsFirst, Numbers
<1>7. WaitsRarely'
  BY <1>5, Sizes DEF WaitsRarely, Numbers
<1>8. AwakeShortly'
  BY <1>5, Sizes DEF AwakeShortly, RadioRight, WaitsRarely, Numbers
<1>9. AdvIsFar'
  BY <1>5, Sizes DEF AdvIsFar, Numbers
<1>10. FirstMeasure'
  BY <1>5, Sizes DEF FirstMeasure, Numbers
<1>11. Reading'
  BY <1>5, Sizes DEF Reading, Numbers
<1>12. Measuring'
  BY <1>5, Sizes DEF Measuring, Numbers
<1>13. RadioRight'
  BY <1>5, Sizes DEF RadioRight, Numbers
<1> QED
  BY <1>6, <1>7, <1>8, <1>9, <1>10, <1>11, <1>12, <1>13 DEF PaceInv
LEMMA BootPace == ASSUME AlarmInv, PaceInv, Boot PROVE PaceInv'
<1>1. /\ pc = "boot" /\ pc' = "boot2" /\ UNCHANGED <<txDone, lle, sending, rfif, powerMode>>
  BY DEF Boot, Goto, radio, sleep
<1>2. waited' = 0 /\ stif' = FALSE
  BY BootOnTasks DEF BootCounts
<1>3. RadioRight
  BY DEF PaceInv
<1>4. RadioRight'
  BY <1>1, <1>3 DEF RadioRight, OnAir
<1> QED
  BY <1>1, <1>2, <1>4 DEF PaceInv, KickIsFirst, WaitsRarely, AwakeShortly, AdvIsFar, FirstMeasure,
                          Reading, Measuring, Normal, Kicked, Started

LEMMA Boot2Pace == ASSUME AlarmInv, Numbers, PaceInv, Boot2 PROVE PaceInv'
<1> USE DEF TASK_ADV, TASK_DAQ
<1>1. /\ pc = "boot2" /\ pc' = "loop" /\ UNCHANGED <<now, triggered, txDone, lle, sending, rfif, powerMode>>
      /\ UNCHANGED <<busy, state, initialized>>
  BY DEF Boot2, Goto, radio, sleep, app
<1>2. /\ now = busy /\ wakeupOld = 0 /\ ~stif /\ state = "MEASURE" /\ ~initialized
      /\ ~sending /\ ~rfif /\ txDone /\ lle /\ triggered = {} /\ now \in 0..N - 1
  BY <1>1 DEF AlarmInv, Booting, Started, TypeOK
<1>3. /\ wakeup' = now /\ stif' = TRUE /\ waited' = waited /\ wakeupOld' = wakeupOld
      /\ advCount' = Adv /\ daqCount' = Initial + now /\ daqEvery' = Initial
  <2>1. Boot2Counts
    BY Boot2OnTasks
  <2>2. /\ Adv \in 1..N - 1 /\ Adv \in 0..Horizon /\ Initial \in 1..N - 1 /\ Initial + now \in 0..Horizon
    BY <1>2, Sizes DEF Numbers
  <2>3. advCount' = Adv /\ daqCount' = Initial + now /\ daqEvery' = Initial
    BY <2>1, <2>2, TaskTypes DEF Boot2Counts
  <2> QED
    BY <2>1, <2>3 DEF Boot2Counts
<1>4. waited = 0
  BY <1>2 DEF PaceInv, WaitsRarely
<1>5. Elapsed' = now
  <2>1. Elapsed = now
    <3>1. 0 \in 0..N - 1
      BY Sizes
    <3> QED
      BY <1>2, <3>1, ElapsedIs, Sizes
  <2>2. Elapsed' = Elapsed
    BY <1>1, <1>3 DEF Elapsed
  <2> QED
    BY <2>1, <2>2
<1>6. Kicked' /\ ~Normal'
  BY <1>1, <1>3 DEF Kicked, Normal
<1>7. KickIsFirst'
  BY <1>1, <1>2, <1>3, <1>4, <1>5, Sizes DEF KickIsFirst, OnAir, Numbers
<1>8. RadioRight'
  BY <1>1, <1>2 DEF RadioRight, OnAir
<1> QED
  BY <1>3, <1>6, <1>7, <1>8 DEF PaceInv, WaitsRarely, AwakeShortly, AdvIsFar, FirstMeasure, Reading, Measuring

(* Where an alarm of the next tick finds the device.                            *)
LEMMA AlarmFinds ==
  ASSUME AlarmInv, Numbers, PaceInv, Started, ~stif, Left = 1
  PROVE  /\ pc \in {"asleep", "woken", "collect"} \/ (state = "MEASURE" /\ initialized)
         /\ (~initialized \/ state = "READ") /\ Owed => FALSE
<1>1. /\ WaitsRarely /\ AwakeShortly /\ FirstMeasure /\ Reading /\ Normal
  BY DEF PaceInv, Normal, Kicked
<1>2. /\ Since = First - 1 /\ waited = 0
      /\ pc \in {"boot", "boot2", "loop", "mode", "waitTx", "waitIdle", "reset", "sleep",
             "asleep", "woken", "collect", "wire", "resched"}
      /\ state \in {"MEASURE", "READ"}
  BY <1>1 DEF Numbers, WaitsRarely, AlarmInv, TypeOK
<1>3. Quiet \/ pc \in {"asleep", "woken", "collect", "wire", "resched"}
  BY <1>2 DEF Quiet, Started
<1>4. CASE state = "READ"
  <2>1. First > Awake + 1
    BY <1>1, <1>4, Sizes DEF Reading, Numbers
  <2>2. Quiet \/ pc \in {"wire", "resched"} \/ pc \in {"woken", "collect"} => FALSE
    BY <1>1, <1>2, <2>1, Sizes DEF AwakeShortly, Numbers
  <2>3. Owed => pc \in {"collect", "wire", "resched"}
    BY <1>1, <1>4 DEF Reading
  <2> QED
    BY <1>3, <2>2, <2>3
<1>5. CASE state = "MEASURE" /\ ~initialized
  <2>1. First > Work + 1
    BY <1>1, <1>5, Sizes DEF FirstMeasure, Numbers
  <2>2. pc = "asleep"
    BY <1>1, <1>2, <1>5, <2>1, Sizes DEF AwakeShortly, Numbers
  <2>3. Owed => pc \in {"collect", "wire", "resched"}
    BY <1>1, <1>5 DEF FirstMeasure
  <2> QED
    BY <2>2, <2>3
<1> QED
  BY <1>2, <1>4, <1>5

LEMMA TickPace == ASSUME AlarmInv, Numbers, PaceInv, Tick, UNCHANGED app PROVE PaceInv'
<1>1. /\ UNCHANGED <<compare, stie, wakeup, wakeupOld, task, triggered, txDone, lle, sending, rfif,
                     sleepFlag, powerMode, pc, state, initialized>>
      /\ now' = (now + 1) % N /\ stif' = (stif \/ now' = compare)
      /\ waited' = (IF stif /\ stie THEN waited + 1 ELSE 0)
      /\ aired' = (IF sending \/ rfif THEN aired + 1 ELSE aired)
      /\ Waiting \/ busy < Work
      /\ busy' = IF Waiting THEN busy ELSE busy + 1
  BY DEF Tick, sched, radio, sleep, app
<1>2. /\ KickIsFirst /\ WaitsRarely /\ AwakeShortly /\ AdvIsFar
      /\ FirstMeasure /\ Reading /\ Measuring /\ RadioRight
  BY DEF PaceInv
<1>3. /\ stif \in BOOLEAN /\ stif' \in BOOLEAN /\ state \in {"MEASURE", "READ"} /\ initialized \in BOOLEAN
      /\ now \in 0..N - 1 /\ wakeupOld \in 0..N - 1 /\ compare \in 0..N
      /\ pc \in {"boot", "boot2", "loop", "mode", "waitTx", "waitIdle", "reset", "sleep",
             "asleep", "woken", "collect", "wire", "resched"}
  BY <1>1 DEF AlarmInv, TypeOK
<1>4. UNCHANGED <<advCount, daqCount, daqEvery, First>>
  <2>1. UNCHANGED <<advCount, daqCount, daqEvery>>
    BY <1>1 DEF advCount, daqCount, daqEvery
  <2> QED
    BY <2>1 DEF First
<1>5. CASE ~Started
  <2>1. ~stif /\ waited' = 0
    BY <1>1, <1>5 DEF AlarmInv, Booting
  <2>2. RadioRight'
    BY <1>1, <1>2 DEF RadioRight, OnAir
  <2> QED
    BY <1>1, <1>5, <2>1, <2>2 DEF PaceInv, KickIsFirst, WaitsRarely, AwakeShortly, AdvIsFar, FirstMeasure,
                          Reading, Measuring, Normal, Kicked, Started
<1>6. CASE Started
  <2>1. Elapsed < N - 1 /\ Since <= First + Late
    <3>1. CASE Kicked
      BY <1>2, <3>1, Sizes DEF KickIsFirst, Kicked, Numbers
    <3>2. CASE ~Kicked
      <4>1. Since <= First + Late
        BY <1>6, Sizes DEF Numbers
      <4>2. Before <= Awake
        BY <1>2, <1>6, <3>2, Sizes DEF WaitsRarely, Normal, Numbers
      <4>3. Awake + Adv + MaxDelay + Late < N - 1
        BY Sizes
      <4> QED
        BY <4>1, <4>2, <4>3, Sizes DEF Numbers
    <3> QED
      BY <3>1, <3>2
  <2>2. /\ now' = (IF now = N - 1 THEN 0 ELSE now + 1)
        /\ Elapsed' = Elapsed + 1
        /\ compare \in 0..N - 1 =>
             IF Left = 0 THEN N > 1 => now' # compare
             ELSE Left' = Left - 1 /\ (now' = compare <=> Left = 1)
    BY <1>3, <2>1, TickOfTimer
  <2>3. /\ stif => stif' /\ waited' = waited + 1
        /\ ~stif => waited = 0 /\ waited' = 0
        /\ ~stif => IF Left = 1 THEN stif' = TRUE ELSE stif' = FALSE /\ Left' = Left - 1
    <3>1. stie = TRUE
      BY <1>6 DEF AlarmInv, TasksRight, Started
    <3>2. ~stif => compare \in 0..N - 1 /\ Left >= 1
      BY <1>3, <1>6, Sizes DEF AlarmInv, AlarmAhead, TasksRight, Started, Missed, Numbers
    <3>3. ~stif => waited = 0
      BY <1>2 DEF WaitsRarely
    <3>4. CASE stif
      BY <1>1, <3>1, <3>4
    <3>5. CASE ~stif
      <4>1. waited = 0 /\ waited' = 0 /\ (stif' <=> now' = compare)
        BY <1>1, <3>3, <3>5
      <4>2. Left # 0 /\ Left' = Left - 1 /\ (now' = compare <=> Left = 1)
        BY <2>2, <3>2, <3>5, Sizes DEF Numbers
      <4> QED
        BY <1>3, <3>5, <4>1, <4>2
    <3> QED
      BY <3>4, <3>5
  <2>4. Since' = Since + 1 /\ Before' = Before
    <3>1. Since' = IF stif' THEN First + waited' ELSE First - Left'
      BY <1>4 DEF Since
    <3>2. stif => Since' = Since + 1
      BY <2>3, <3>1, Sizes DEF Numbers
    <3>3. ~stif /\ Left = 1 => Since' = Since + 1
      BY <2>3, <3>1, Sizes DEF Numbers
    <3>4. ~stif /\ Left # 1 => Since' = Since + 1
      BY <2>3, <3>1, Sizes DEF Numbers
    <3>5. Since' = Since + 1
      BY <1>3, <3>2, <3>3, <3>4
    <3> QED
      BY <2>2, <3>5, Sizes DEF Before, Numbers
  <2>5. /\ ~stif /\ stif' => pc \in {"asleep", "woken", "collect"} \/ (state = "MEASURE" /\ initialized)
        /\ ~stif /\ stif' /\ (~initialized \/ state = "READ") => ~Owed
    BY <1>6, <2>3, AlarmFinds
  <2>6. daqEvery = Initial <=> state = "MEASURE" /\ ~initialized
    BY EveryTells
  <2>7. Kicked' <=> Kicked
    BY <1>1, <1>3, <1>4, <2>3, <2>5, <2>6 DEF Kicked
  <2>8. UNCHANGED <<Started, Quiet, Entry, Owed, OnAir>> /\ Normal' = Normal
    BY <1>1, <2>7 DEF Started, Quiet, Entry, Owed, OnAir, Normal
  <2>9. /\ Waiting => pc = "asleep" \/ (OnAir /\ pc \in {"waitTx", "waitIdle"})
        /\ Waiting \/ busy' = busy + 1
        /\ OnAir => aired' = aired + 1
    BY <1>1, <1>2 DEF Waiting, RadioRight, OnAir
  <2>10. KickIsFirst'
    <3>1. SUFFICES ASSUME Kicked PROVE KickIsFirst'
      BY <2>7 DEF KickIsFirst
    <3>2. /\ Elapsed <= busy /\ daqCount = Initial + Elapsed - waited /\ advCount = Adv
            /\ now = wakeup + waited /\ wakeupOld = 0
            /\ triggered = {} /\ state = "MEASURE" /\ ~initialized /\ ~OnAir /\ lle
      BY <1>2, <3>1 DEF KickIsFirst
    <3>3. busy' = busy + 1 /\ stif
      BY <1>1, <3>1 DEF Kicked, Waiting
    <3>4. now = Elapsed
      <4>1. 0 \in 0..N - 1
        BY Sizes
      <4> QED
        BY <1>3, <3>2, <4>1, ElapsedIs, Sizes
    <3>5. now' = now + 1
      BY <1>3, <2>1, <2>2, <3>4, Sizes
    <3> QED
      BY <1>1, <1>4, <2>2, <2>3, <2>8, <3>2, <3>3, <3>5, Sizes DEF KickIsFirst, Numbers
  <2>11. WaitsRarely'
    BY <1>1, <1>2, <1>3, <2>3, <2>4, <2>5, <2>8 DEF WaitsRarely
  <2>12. AwakeShortly'
    <3>1. SUFFICES ASSUME Normal PROVE AwakeShortly'
      BY <2>8 DEF AwakeShortly
    <3>2. waited' >= waited
      BY <1>3, <2>3, Sizes DEF Numbers
    <3>3. OnAir /\ pc \notin {"wire", "resched"} => Since' <= aired' /\ aired' <= Air
      <4>1. OnAir => aired' <= Air
        <5>1. OnAir => aired < Air
          BY DEF Tick, OnAir
        <5> QED
          BY <2>9, <5>1, Sizes DEF Numbers
      <4> QED
        BY <1>2, <2>4, <2>9, <3>1, <4>1, Sizes DEF AwakeShortly, Numbers
    <3>4. Entry /\ ~sleepFlag => Since' <= Air + busy' + waited'
      <4>1. CASE Waiting
        <5>1. Entry => Since' <= Air
          BY <2>4, <2>9, <3>3, <4>1, Sizes DEF Entry, Quiet, Numbers
        <5>2. busy' = busy /\ (waited' = waited \/ waited' = waited + 1)
          BY <1>1, <1>3, <2>3, <4>1
        <5> QED
          BY <2>4, <5>1, <5>2, Sizes DEF Numbers
      <4>2. CASE ~Waiting
        BY <1>2, <2>3, <2>4, <2>9, <3>1, <3>2, <4>2, Sizes DEF AwakeShortly, Numbers
      <4> QED
        BY <4>1, <4>2
    <3>5. Quiet \/ pc \in {"wire", "resched"} \/ (pc \in {"woken", "collect"} /\ ~stif')
            => Since' <= Air + Work + busy' + waited'
      <4>1. CASE Waiting
        <5>1. Quiet \/ pc \in {"wire", "resched", "woken", "collect"} => Since' <= Air
          BY <2>4, <2>9, <3>3, <4>1, Sizes DEF Quiet, Numbers
        <5>2. busy' = busy /\ (waited' = waited \/ waited' = waited + 1)
          BY <1>1, <1>3, <2>3, <4>1
        <5> QED
          BY <2>4, <5>1, <5>2, Sizes DEF Numbers
      <4>2. CASE ~Waiting
        BY <1>2, <1>3, <2>3, <2>4, <2>9, <3>1, <3>2, <4>2, Sizes DEF AwakeShortly, Numbers
      <4> QED
        BY <4>1, <4>2
    <3>6. pc = "asleep" => busy' = 0
      BY <1>1, <1>2, <3>1 DEF AwakeShortly, Waiting
    <3>7. ~initialized /\ pc # "asleep" /\ ~stif' => Since' <= busy'
      BY <1>2, <1>3, <2>3, <2>4, <2>9, <3>1, Sizes DEF AwakeShortly, Numbers
    <3> QED
      BY <1>1, <1>2, <2>8, <3>1, <3>3, <3>4, <3>5, <3>6, <3>7 DEF AwakeShortly
  <2>13. AdvIsFar'
    BY <1>1, <1>2, <1>4, <2>4, <2>8 DEF AdvIsFar
  <2>14. FirstMeasure'
    <3>1. SUFFICES ASSUME Normal, ~initialized, state = "MEASURE" PROVE FirstMeasure'
      BY <1>1, <2>8 DEF FirstMeasure
    <3>2. CASE ~Owed
      <4>1. /\ Before = 0 /\ wakeup <= Work + Initial
                /\ now = (IF stif THEN wakeup + waited ELSE wakeup - Left)
                /\ daqCount \in Initial - Late..Initial
                /\ advCount >= Adv - Work
                /\ (stif => pc \in {"asleep", "woken", "collect"})
        BY <1>2, <3>1, <3>2 DEF FirstMeasure
      <4>2. now' = now + 1
        BY <1>3, <2>2, <4>1, Sizes DEF Numbers
      <4>3. now' = IF stif' THEN wakeup + waited' ELSE wakeup - Left'
        <5>1. CASE stif
          BY <2>3, <4>1, <4>2, <5>1, Sizes DEF Numbers
        <5>2. CASE ~stif /\ Left = 1
          BY <2>3, <4>1, <4>2, <5>2, Sizes DEF Numbers
        <5>3. CASE ~stif /\ Left # 1
          BY <2>3, <4>1, <4>2, <5>3, Sizes DEF Numbers
        <5> QED
          BY <1>3, <5>1, <5>2, <5>3
      <4> QED
        BY <1>1, <1>3, <1>4, <2>4, <2>5, <2>8, <3>1, <3>2, <4>1, <4>3 DEF FirstMeasure
    <3>3. CASE Owed
      BY <1>1, <1>2, <1>3, <1>4, <2>5, <2>8, <3>1, <3>3 DEF FirstMeasure
    <3> QED
      BY <3>2, <3>3
  <2>15. Reading'
    BY <1>1, <1>2, <1>3, <1>4, <2>5, <2>8 DEF Reading
  <2>16. Measuring'
    <3>1. pc \in {"collect", "wire", "resched"} => daqCount - Since' + busy' = daqCount - Since + busy
      BY <1>1, <2>4, Sizes DEF Waiting, Numbers
    <3> QED
      BY <1>1, <1>2, <1>4, <2>8, <3>1 DEF Measuring
  <2>17. RadioRight'
    BY <1>1, <1>2, <2>8 DEF RadioRight
  <2> QED
    BY <2>10, <2>11, <2>12, <2>13, <2>14, <2>15, <2>16, <2>17 DEF PaceInv
<1> QED
  BY <1>5, <1>6
(* Where the interrupt of the timer finds the device, and with what.            *)
IsrFinds ==
  /\ stif /\ Started /\ pc \notin {"asleep", "woken"} /\ Since = First + waited
  /\ Kicked => ~AdvDue /\ ~DaqDue
  /\ Normal => AdvDue \/ DaqDue
  /\ Normal /\ (state = "READ" \/ ~initialized) => ~AdvDue /\ ~Owed /\ pc = "collect" /\ DaqDue
  /\ Normal /\ Quiet => ~Owed /\ ~AdvDue
  /\ Normal /\ Owed => ~DaqDue /\ daqCount - Elapsed + busy >= Spare - Late

LEMMA IsrFindsIt == ASSUME AlarmInv, Numbers, PaceInv, SleepIsr PROVE IsrFinds
<1>1. stif /\ Started /\ pc \notin {"asleep", "woken"} /\ Since = First + waited
  BY IsrOnTasks DEF IsrCounts, Numbers, SleepIsr, CanInterrupt
<1>2. /\ KickIsFirst /\ WaitsRarely /\ AwakeShortly /\ AdvIsFar
      /\ FirstMeasure /\ Reading /\ Measuring /\ RadioRight
      /\ state \in {"MEASURE", "READ"} /\ initialized \in BOOLEAN
      /\ pc \in {"boot", "boot2", "loop", "mode", "waitTx", "waitIdle", "reset", "sleep",
             "asleep", "woken", "collect", "wire", "resched"}
  BY DEF PaceInv, AlarmInv, TypeOK
<1>3. CASE Kicked
  <2>1. ~AdvDue /\ ~DaqDue
    BY <1>2, <1>3, Sizes DEF KickIsFirst, AdvDue, DaqDue, Numbers
  <2> QED
    BY <1>1, <1>3, <2>1 DEF IsrFinds, Normal
<1>4. CASE ~Kicked
  <2>1. Normal /\ Before \in 0..Awake /\ (Owed => Before = 0)
    BY <1>1, <1>2, <1>4 DEF Normal, WaitsRarely
  <2>2. Elapsed = Before + First + waited
    BY <1>1, Sizes DEF Numbers
  <2>3. AdvDue \/ DaqDue
    BY <2>1, <2>2, Sizes DEF AdvDue, DaqDue, Numbers
  <2>4. CASE state = "READ"
    <3>1. pc = "collect"
      BY <1>1, <1>2, <2>1, <2>4 DEF WaitsRarely
    <3>2. ~Owed /\ daqCount = Read /\ advCount = Adv
      BY <1>1, <1>2, <2>1, <2>4 DEF Reading
    <3>3. ~AdvDue
      BY <2>1, <2>2, <3>2, Sizes DEF AdvDue, Numbers
    <3> QED
      BY <1>1, <1>4, <2>1, <2>3, <3>1, <3>2, <3>3 DEF IsrFinds, Quiet
  <2>5. CASE state = "MEASURE" /\ ~initialized
    <3>1. pc = "collect"
      BY <1>1, <1>2, <2>1, <2>5 DEF WaitsRarely
    <3>2. /\ ~Owed /\ Before = 0 /\ daqCount \in Initial - Late..Initial /\ advCount >= Adv - Work
      BY <1>1, <1>2, <2>1, <2>5 DEF FirstMeasure
    <3>3. ~AdvDue
      BY <2>2, <3>2, Sizes DEF AdvDue, Numbers
    <3> QED
      BY <1>1, <1>4, <2>1, <2>3, <2>5, <3>1, <3>2, <3>3 DEF IsrFinds, Quiet
  <2>6. CASE state = "MEASURE" /\ initialized
    <3>1. Quiet => Since <= Awake + Late
      BY <1>2, <2>1, Sizes DEF AwakeShortly, Numbers
    <3>2. Quiet => ~Owed
      <4>1. SUFFICES ASSUME Quiet, Owed PROVE FALSE
        OBVIOUS
      <4>2. daqCount >= Spare + First /\ TASK_DAQ \in triggered
        BY <1>2, <2>1, <2>6, <4>1 DEF Measuring, Owed, Quiet
      <4>3. advCount >= Adv - L - 2 * Awake - Late
        BY <1>2, <2>1, <4>1, <4>2 DEF AdvIsFar
      <4>4. Spare > 0
        BY Sizes DEF Spare
      <4> QED
        BY <1>1, <3>1, <4>1, <4>2, <4>3, <4>4, Sizes DEF Numbers, Spare
    <3>3. Quiet => ~AdvDue
      BY <1>2, <2>1, <2>2, <3>1, <3>2, Sizes DEF AdvIsFar, AdvDue, Numbers
    <3>4. Owed => daqCount - Elapsed + busy >= Spare - Late /\ ~DaqDue
      <4>1. SUFFICES ASSUME Owed PROVE daqCount - Elapsed + busy >= Spare - Late /\ ~DaqDue
        OBVIOUS
      <4>2. Elapsed = Since
        BY <2>1, <4>1, Sizes DEF Numbers
      <4>3. daqCount - Since + busy >= Spare - Late
        BY <1>1, <1>2, <2>1, <2>6, <4>1, Sizes DEF Measuring, Numbers, Spare
      <4> QED
        BY <4>2, <4>3, Sizes DEF DaqDue, Numbers, Spare
    <3> QED
      BY <1>1, <1>4, <2>1, <2>3, <2>6, <3>2, <3>3, <3>4 DEF IsrFinds
  <2> QED
    BY <1>2, <2>4, <2>5, <2>6
<1> QED
  BY <1>3, <1>4

LEMMA Zeros == \A a \in Nat : a - 0 = a
OBVIOUS

LEMMA SleepIsrPace == ASSUME AlarmInv, Numbers, PaceInv, SleepIsr, Interrupt PROVE PaceInv'
<1> USE DEF TASK_ADV, TASK_DAQ
<1>1. IsrCounts /\ IsrFinds
  BY IsrOnTasks, IsrFindsIt
<1>2. /\ wakeupOld' = now /\ stif' = FALSE /\ sleepFlag' = FALSE /\ waited' = 0
      /\ UNCHANGED <<now, stie, lle, rfif, powerMode, pc, busy, state, initialized>>
  BY DEF SleepIsr, Interrupt
<1>3. /\ KickIsFirst /\ WaitsRarely /\ AwakeShortly /\ AdvIsFar
      /\ FirstMeasure /\ Reading /\ Measuring /\ RadioRight
      /\ state \in {"MEASURE", "READ"} /\ initialized \in BOOLEAN /\ now \in 0..N - 1 /\ wakeupOld \in 0..N - 1
      /\ pc \in {"boot", "boot2", "loop", "mode", "waitTx", "waitIdle", "reset", "sleep",
             "asleep", "woken", "collect", "wire", "resched"}
  BY DEF PaceInv, AlarmInv, TypeOK
<1>4. /\ First' \in Nat /\ First' > MinLoad /\ First' <= Adv + MaxDelay /\ Left' = First'
      /\ wakeup' = now + First'
  <2> DEFINE t == First'
  <2>1. t \in MinLoad + 1 .. Adv + MaxDelay
    <3>1. advCount' \in Nat /\ daqCount' \in Nat /\ t > MinLoad /\ t <= Adv + MaxDelay
      BY <1>1 DEF IsrCounts
    <3>2. t \in Nat
      BY <3>1 DEF First, Least
    <3> HIDE DEF t
    <3> QED
      BY <3>1, <3>2, Sizes
  <2>2. SetWakeup(t) /\ stie' = TRUE
    BY <1>1, <1>2 DEF IsrCounts, AlarmInv, TypeOK
  <2> HIDE DEF t
  <2>3. Left' = t
    BY <1>2, <1>3, <2>1, <2>2, AlarmSet
  <2>4. wakeup' = now + t
    BY <2>2 DEF SetWakeup
  <2> QED
    BY <2>1, <2>3, <2>4, Sizes DEF t
<1>5. Since' = 0 /\ Before' = 0 /\ Elapsed' = 0
  <2>1. Since' = IF stif' THEN First' + waited' ELSE First' - Left'
    BY DEF Since
  <2>2. Since' = First' - First'
    BY <1>2, <1>4, <2>1, Zenon
  <2>3. \A x \in Nat : x - x = 0
    OBVIOUS
  <2>4. Since' = 0
    BY <1>4, <2>2, <2>3, Zenon
  <2>5. Elapsed' = 0
    <3>1. Elapsed' = (now - now) % N
      BY <1>2 DEF Elapsed
    <3>2. now - now = 0 /\ 0 \in (-N) .. 2 * N - 1
      BY <1>3, Sizes
    <3>3. 0 % N = 0
      BY <3>2, Turns, Sizes
    <3> QED
      BY <3>1, <3>2, <3>3
  <2> QED
    BY <2>4, <2>5 DEF Before
<1>6. ~Kicked' /\ Normal' /\ (Quiet' <=> Quiet) /\ (Entry' <=> Entry)
  BY <1>1, <1>2 DEF Kicked, Normal, Started, Quiet, Entry, IsrFinds
<1>7. /\ advCount' \in Nat /\ daqCount' \in Nat /\ daqCount' >= daqNext /\ daqNext \in Int
      /\ AdvDue => advCount' >= Adv - LateBy
      /\ ~AdvDue => advCount' = advCount - Elapsed
      /\ DaqDue => daqNext = daqEvery - LateBy
      /\ ~DaqDue => daqNext = daqCount - Elapsed
      /\ LateBy \in 0..L - 1
      /\ daqCount' = daqNext \/ (daqCount' = advCount' /\ advCount' - daqNext < ST_SCHEDULE_MARGIN)
  <2>1. daqEvery \in Int /\ LateBy \in Int
    BY <1>1, Sizes, TaskFields DEF IsrCounts, AlarmInv
  <2>2. daqNext \in Int
    BY <2>1 DEF daqNext, Numbers
  <2> QED
    BY <1>1, <2>1, <2>2 DEF IsrCounts, daqNext
<1>8. /\ Owed' <=> Owed \/ DaqDue
      /\ DaqDue => "DAQ" \in triggered'
      /\ ~DaqDue => ("DAQ" \in triggered' <=> "DAQ" \in triggered)
  BY <1>1, <1>2 DEF IsrCounts, Owed
<1>9. /\ ~AdvDue => UNCHANGED <<txDone, sending, aired, OnAir>>
      /\ AdvDue => /\ Normal /\ pc \in {"collect", "wire", "resched"} /\ state = "MEASURE" /\ initialized /\ lle
                   /\ txDone' = FALSE /\ sending' = TRUE /\ aired' = 0 /\ OnAir'
  <2>1. ~AdvDue => UNCHANGED <<txDone, sending, aired, OnAir>>
    BY <1>1, <1>2 DEF IsrCounts, OnAir
  <2>2. AdvDue => /\ Normal /\ pc \in {"collect", "wire", "resched"} /\ state = "MEASURE" /\ initialized /\ lle
    BY <1>1, <1>3 DEF IsrFinds, Normal, Started, Quiet, RadioRight
  <2>3. AdvDue => txDone' = FALSE /\ sending' = TRUE /\ aired' = 0
    BY <1>1, <2>2, Zenon DEF IsrCounts, CmdTx
  <2>4. AdvDue => OnAir'
    BY <2>3 DEF OnAir
  <2> QED
    BY <2>1, <2>2, <2>3, <2>4
<1>10. KickIsFirst'
  BY <1>6 DEF KickIsFirst
<1>11. Kicked => pc = "loop" /\ state = "MEASURE" /\ ~initialized
  BY <1>3 DEF KickIsFirst, Kicked
<1>12. Normal \/ Kicked
  BY <1>1 DEF Normal, IsrFinds
<1>13. WaitsRarely'
  <2>1. pc' \in {"wire", "resched"} => TASK_DAQ \notin triggered'
    BY <1>1, <1>2, <1>3, <1>8, <1>11, <1>12 DEF IsrFinds, WaitsRarely, Owed
  <2> QED
    BY <1>2, <1>5, <2>1, Sizes DEF WaitsRarely
<1>14. AwakeShortly'
  <2>1. ~initialized => ~AdvDue /\ ~OnAir /\ pc \in {"loop", "collect"}
    BY <1>1, <1>3, <1>11, <1>12 DEF IsrFinds, AwakeShortly, KickIsFirst
  <2>2. aired' \in Nat
    BY <1>9, Sizes DEF Numbers
  <2>3. /\ Since' <= aired' /\ Since' <= Air + busy' + waited' /\ Since' <= Air + Work + busy' + waited'
        /\ Since' <= busy'
    <3>1. 0 <= aired' /\ 0 <= busy /\ 0 <= Air + busy + 0 /\ 0 <= Air + Work + busy + 0
      BY <2>2, Sizes DEF Numbers
    <3> QED
      BY <1>2, <1>5, <3>1, Zenon
  <2>4. pc' # "asleep" /\ (~initialized' => ~OnAir' /\ ~Entry')
    <3>1. pc' = pc /\ initialized' = initialized /\ pc # "asleep"
      BY <1>1, <1>2, Zenon DEF IsrFinds
    <3>2. ~initialized => ~OnAir'
      BY <1>9, <2>1, Zenon
    <3>3. ~initialized => ~Entry
      BY <2>1 DEF Entry, Quiet
    <3> QED
      BY <1>6, <3>1, <3>2, <3>3, Zenon
  <2> QED
    BY <2>3, <2>4 DEF AwakeShortly
<1>15. AdvIsFar'
  <2>1. CASE AdvDue
    <3>1. advCount' >= Adv - L /\ advCount' \in Nat
      BY <1>7, <2>1, Sizes
    <3>2. advCount' - Before' >= Adv - L - Awake /\ advCount' >= Adv - L - 2 * Awake - Late
      <4>1. advCount' - Before' = advCount'
        BY <1>5, <3>1, Zeros, Zenon
      <4> QED
        BY <3>1, <4>1, Sizes
    <3> QED
      BY <3>2 DEF AdvIsFar
  <2>2. CASE ~AdvDue /\ Kicked
    BY <1>3, <1>5, <1>7, <2>2, Sizes DEF AdvIsFar, KickIsFirst, Numbers
  <2>3. CASE ~AdvDue /\ Normal
    <3>1. Owed'
      BY <1>1, <1>8, <2>3 DEF IsrFinds
    <3>2. Quiet => advCount' >= Adv - L - 2 * Awake - Late
      <4>1. SUFFICES ASSUME Quiet PROVE advCount' >= Adv - L - 2 * Awake - Late
        OBVIOUS
      <4>2. advCount - Before >= Adv - L - Awake
        BY <1>1, <1>3, <2>3, <4>1 DEF IsrFinds, AdvIsFar
      <4>3. Since <= Awake + Late
        BY <1>3, <2>3, <4>1, Sizes DEF AwakeShortly, Numbers
      <4>4. advCount' = advCount - Elapsed /\ Elapsed = Before + Since
        BY <1>7, <2>3, Sizes DEF Numbers
      <4> QED
        BY <4>2, <4>3, <4>4, Sizes DEF Numbers
    <3> QED
      BY <1>6, <3>1, <3>2 DEF AdvIsFar
  <2> QED
    BY <1>12, <2>1, <2>2, <2>3
<1>16. FirstMeasure'
  <2>1. SUFFICES ASSUME ~initialized, state = "MEASURE" PROVE FirstMeasure'
    BY <1>2 DEF FirstMeasure
  <2>2. daqEvery = Initial /\ ~AdvDue /\ advCount' = advCount - Elapsed
    BY <1>1, <1>7, <1>12, <2>1, EveryTells DEF IsrFinds
  <2>3. CASE Kicked
    <3>1. /\ Elapsed <= busy /\ daqCount = Initial + Elapsed - waited /\ advCount = Adv
          /\ now = wakeup + waited /\ wakeupOld = 0 /\ triggered = {}
      BY <1>3, <2>3 DEF KickIsFirst
    <3>2. ~Owed' /\ daqNext = Initial - waited
      BY <1>1, <1>7, <1>8, <1>11, <2>3, <3>1, Sizes DEF IsrFinds, Owed, Numbers
    <3>3. now = Elapsed
      <4>1. 0 \in 0..N - 1
        BY Sizes
      <4> QED
        BY <1>3, <3>1, <4>1, ElapsedIs, Sizes
    <3>4. advCount' >= Adv - Work /\ advCount' \in Nat
      BY <1>7, <2>2, <3>1, Sizes DEF Numbers
    <3>5. daqCount' = daqNext
      <4>1. Adv - Work - Initial >= ST_SCHEDULE_MARGIN /\ daqNext <= Initial
        BY <3>2, Sizes DEF Numbers
      <4>2. PICK a \in Nat : a = advCount'
        BY <3>4
      <4>3. a >= Adv - Work
        BY <3>4, <4>2
      <4>4. ~(a - daqNext < ST_SCHEDULE_MARGIN)
        BY <1>7, <4>1, <4>3, Sizes DEF Numbers
      <4> QED
        BY <1>7, <4>2, <4>4, Zenon
    <3>6. First' <= daqCount'
      BY <1>7 DEF First, Least
    <3>7. wakeup' <= Work + Initial /\ now = wakeup' - Left'
      <4>1. First' <= Initial /\ now <= Work
        BY <1>4, <1>7, <3>1, <3>2, <3>3, <3>5, <3>6, Sizes DEF Numbers
      <4>2. PICK f \in Nat : f = First'
        BY <1>4
      <4>3. f <= Initial /\ wakeup' = now + f /\ Left' = f
        BY <1>4, <4>1, <4>2
      <4>4. PICK w \in Nat : w = now + f
        BY DEF Numbers
      <4>5. wakeup' = w
        BY <4>3, <4>4
      <4>6. w <= Work + Initial /\ w - f = now
        BY <4>1, <4>3, <4>4, Sizes DEF Numbers
      <4> QED
        BY <4>3, <4>5, <4>6, Zenon
    <3> QED
      BY <1>2, <1>5, <3>2, <3>4, <3>5, <3>7, Sizes DEF FirstMeasure, Numbers
  <2>4. CASE Normal
    <3>1. ~Owed /\ pc = "collect" /\ DaqDue
      BY <1>1, <2>1, <2>4 DEF IsrFinds
    <3>2. /\ Before = 0 /\ now = wakeup + waited /\ daqCount \in Initial - Late..Initial
          /\ advCount >= Adv - Work
      BY <1>1, <1>3, <2>1, <2>4, <3>1 DEF FirstMeasure, IsrFinds
    <3>3. LateBy = waited
      BY <1>3, <3>2, LateByType, Sizes DEF Numbers
    <3>4. daqCount' >= Initial - Late
      BY <1>7, <2>2, <3>1, <3>3, Sizes DEF Numbers
    <3>5. Elapsed <= Initial + Late
      BY <1>1, <3>2, Sizes DEF IsrFinds, Numbers
    <3>6. advCount' >= Adv - Work - Initial - Late
      BY <2>2, <3>2, <3>5, Sizes DEF Numbers
    <3> QED
      BY <1>2, <1>8, <3>1, <3>4, <3>6 DEF FirstMeasure
  <2> QED
    BY <1>12, <2>3, <2>4
<1>17. Reading'
  <2>1. SUFFICES ASSUME state = "READ" PROVE Reading'
    BY <1>2 DEF Reading
  <2>2. Normal /\ ~AdvDue /\ ~Owed /\ pc = "collect" /\ DaqDue
    BY <1>1, <1>11, <1>12, <2>1 DEF IsrFinds
  <2>3. daqCount = Read /\ advCount = Adv /\ daqEvery = Read /\ Before <= Awake
    BY <1>3, <2>1, <2>2 DEF Reading, WaitsRarely, AlarmInv, TasksRight
  <2>4. First = Read
    BY <2>3, Sizes DEF First, Least
  <2>5. txDone /\ ~OnAir
    <3>1. ~OnAir
      BY <1>1, <1>3, <2>2, <2>4, Sizes DEF AwakeShortly, IsrFinds, Numbers
    <3> QED
      BY <1>3, <3>1 DEF RadioRight
  <2>6. daqCount' >= Read - L + 1
    BY <1>7, <2>2, <2>3, Sizes
  <2>7. advCount' >= Adv - Awake - Read - Late
    BY <1>1, <1>7, <2>2, <2>3, <2>4, Sizes DEF IsrFinds, Numbers
  <2> QED
    BY <1>2, <1>8, <1>9, <2>2, <2>5, <2>6, <2>7 DEF Reading
<1>18. Measuring'
  <2>1. SUFFICES ASSUME state = "MEASURE", initialized, Owed' PROVE Measuring'
    BY <1>2 DEF Measuring
  <2>2. Normal
    BY <1>11, <1>12, <2>1
  <2>3. CASE DaqDue
    <3>1. daqEvery = Measure
      BY <2>1 DEF AlarmInv, TasksRight
    <3>2. daqCount' >= Spare + First'
      <4>1. daqCount' >= Measure - LateBy /\ daqCount' \in Nat
        BY <1>7, <2>3, <3>1, Sizes
      <4>2. Measure - LateBy >= Spare + Adv + MaxDelay /\ LateBy \in Int
        BY <1>7, Sizes DEF Spare
      <4>3. PICK f \in Nat, d \in Nat : f = First' /\ d = daqCount'
        BY <1>4, <4>1
      <4>4. f <= Adv + MaxDelay /\ d >= Measure - LateBy
        BY <1>4, <4>1, <4>3
      <4>5. d >= Spare + f
        BY <4>2, <4>4, Sizes DEF Spare
      <4> QED
        BY <4>3, <4>5, Zenon
    <3> QED
      BY <3>2 DEF Measuring
  <2>4. CASE ~DaqDue
    <3>1. Owed
      BY <1>8, <2>1, <2>4
    <3>2. pc \in {"collect", "wire", "resched"}
      BY <1>1, <1>3, <2>2, <3>1 DEF IsrFinds, Quiet, Started
    <3>3. daqCount - Elapsed + busy >= Spare - Late
      BY <1>1, <2>2, <3>1 DEF IsrFinds
    <3>4. daqCount' - Since' + busy' >= Spare - Late
      <4>1. daqCount' >= daqCount - Elapsed /\ daqCount' \in Nat
        BY <1>7, <2>4
      <4>2. daqCount' - Since' + busy' = daqCount' + busy
        BY <1>2, <1>5, <4>1 DEF Numbers
      <4> QED
        BY <3>3, <4>1, <4>2, Sizes DEF Numbers, Spare
    <3> QED
      BY <1>2, <3>2, <3>4 DEF Measuring
  <2> QED
    BY <2>3, <2>4
<1>19. RadioRight'
  BY <1>1, <1>2, <1>3, <1>9 DEF RadioRight, IsrFinds
<1> QED
  BY <1>10, <1>13, <1>14, <1>15, <1>16, <1>17, <1>18, <1>19 DEF PaceInv

LEMMA PaceNext == AlarmInv /\ PaceInv /\ [Next]_vars => PaceInv'
<1> SUFFICES ASSUME AlarmInv, PaceInv, [Next]_vars PROVE PaceInv'
  OBVIOUS
<1>1. Numbers
  BY NumbersHold
<1>2. CASE Boot
  BY <1>2, BootPace
<1>3. CASE Boot2
  BY <1>1, <1>3, Boot2Pace
<1>4. CASE Collect
  BY <1>1, <1>4, CollectPace
<1>5. CASE StartConversion
  BY <1>1, <1>5, StartConversionPace
<1>6. CASE ReadConversion
  BY <1>1, <1>6, ReadConversionPace
<1>7. CASE Reschedule
  BY <1>1, <1>7, ReschedulePace
<1>8. CASE SleepStep /\ UNCHANGED app
  BY <1>1, <1>8, EnterSleepPace, ChoosePowerModePace, WaitTxDonePace, WaitLleIdlePace, ResetLlePace,
     SleepUsingFlagPace, WakePace, EnableLlePace DEF SleepStep
<1>9. CASE Interrupt
  <2>1. SleepIsr \/ RfIsr
    BY <1>9 DEF Interrupt
  <2> QED
    BY <1>1, <1>9, <2>1, SleepIsrPace, RfIsrPace
<1>10. CASE PacketSent /\ UNCHANGED app
  BY <1>1, <1>10, PacketSentPace
<1>11. CASE Tick /\ UNCHANGED app
  BY <1>1, <1>11, TickPace
<1>12. CASE UNCHANGED vars
  <2>1. /\ UNCHANGED <<now, compare, stif, stie, wakeup, wakeupOld, enabledFlag, task, waited>>
        /\ UNCHANGED <<triggered, txDone, lle, sending, rfif, chan, timeLeft, sleepFlag, powerMode,
                       busy, aired, pc, state, initialized, sensor, payload, spoilt>>
    BY <1>12 DEF vars, bleVars, timer, sched, radio, sleep, pace, app
  <2>2. UNCHANGED <<Elapsed, First, Left, Since, Before, advCount, daqCount, daqEvery>>
    BY <2>1, ClockStill
  <2>3. UNCHANGED <<Started, Quiet, Entry, Owed, OnAir, Kicked, Normal>>
    BY <2>1, <2>2 DEF Started, Quiet, Entry, Owed, OnAir, Kicked, Normal
  <2>4. KickIsFirst' /\ WaitsRarely' /\ AwakeShortly' /\ AdvIsFar'
    BY <2>1, <2>2, <2>3 DEF PaceInv, KickIsFirst, WaitsRarely, AwakeShortly, AdvIsFar
  <2>5. FirstMeasure' /\ Reading' /\ Measuring' /\ RadioRight'
    BY <2>1, <2>2, <2>3 DEF PaceInv, FirstMeasure, Reading, Measuring, RadioRight
  <2> QED
    BY <2>4, <2>5 DEF PaceInv
<1>13. CASE MainStep
  <2>1. \/ Boot \/ Boot2 \/ Collect \/ StartConversion \/ ReadConversion \/ Reschedule
        \/ SleepStep /\ UNCHANGED app
    BY <1>13, Zenon DEF MainStep
  <2> QED
    BY <1>2, <1>3, <1>4, <1>5, <1>6, <1>7, <1>8, <2>1
<1> QED
  <2>1. \/ MainStep \/ Interrupt
        \/ PacketSent /\ UNCHANGED app
        \/ Tick /\ UNCHANGED app
        \/ UNCHANGED vars
    BY Zenon DEF Next
  <2> QED
    BY <1>9, <1>10, <1>11, <1>12, <1>13, <2>1

LEMMA InitPace == Init => PaceInv
<1> SUFFICES ASSUME Init PROVE PaceInv
  OBVIOUS
<1>1. /\ stif = FALSE /\ waited = 0 /\ txDone = TRUE /\ lle = TRUE /\ pc = "boot"
  BY DEF Init, BleInit, TasksInit, PhyInit
<1> QED
  BY <1>1 DEF PaceInv, KickIsFirst, WaitsRarely, AwakeShortly, AdvIsFar, FirstMeasure,
              Reading, Measuring, RadioRight, Normal, Kicked, Started

LEMMA SpecInv == Spec => [](AlarmInv /\ PaceInv)
<1>1. Init => AlarmInv /\ PaceInv
  BY InitAlarm, InitPace
<1>2. AlarmInv /\ PaceInv /\ [Next]_vars => (AlarmInv /\ PaceInv)'
  BY AlarmNext, PaceNext
<1> QED
  BY <1>1, <1>2, PTL DEF Spec

------------------------------------------------------------------------------
(* What the pace is for.                                                        *)

(* Each transmission is commanded to an engine that hears it, and the engine is *)
(* never reset while it sends, whichever interrupt comes between the steps of   *)
(* going to sleep: no advertisement is due there.                               *)
THEOREM EngineHears == Spec => EngineIsReady
<1> DEFINE Step == /\ (SleepIsr \/ RfIsr) /\ ~txDone' => lle
                   /\ ResetLle => ~sending
<1>1. AlarmInv /\ PaceInv /\ [Next]_vars => [Step]_vars
  <2>1. SUFFICES ASSUME AlarmInv, PaceInv PROVE Step
    OBVIOUS
  <2>2. RadioRight /\ Numbers
    BY <2>1, NumbersHold DEF PaceInv
  <2>3. SleepIsr /\ ~txDone' => lle
    <3>1. SUFFICES ASSUME SleepIsr, ~txDone', ~lle PROVE FALSE
      OBVIOUS
    <3>2. IsrCounts /\ IsrFinds
      BY <2>1, <2>2, <3>1, IsrOnTasks, IsrFindsIt
    <3>3. pc = "sleep" /\ txDone
      BY <2>2, <3>1, <3>2 DEF RadioRight, IsrFinds
    <3>4. AdvDue
      BY <3>1, <3>2, <3>3 DEF IsrCounts
    <3> QED
      BY <3>2, <3>3, <3>4 DEF IsrFinds, Normal, Kicked, Quiet
  <2>4. RfIsr /\ ~txDone' => lle
    BY <2>2 DEF RfIsr, RadioRight, OnAir
  <2>5. ResetLle => ~sending
    BY <2>2 DEF ResetLle, Goto, RadioRight, OnAir
  <2> QED
    BY <2>3, <2>4, <2>5
<1> QED
  BY <1>1, SpecInv, PTL DEF Spec, EngineIsReady

(* The refusal that temp_sensor_task ignores never happens: a payload is only   *)
(* made while the radio is free, Read ticks after the last restart of the       *)
(* advertisements and more than an advertising event before the next one.       *)
THEOREM PayloadGetsThrough == Spec => PayloadIsTaken
<1> DEFINE Step == ReadConversion /\ ~spoilt /\ sensor = "new" => payload' = "new"
<1>1. AlarmInv /\ PaceInv /\ [Next]_vars => [Step]_vars
  <2>1. SUFFICES ASSUME PaceInv, ReadConversion, ~spoilt, sensor = "new" PROVE payload' = "new"
    OBVIOUS
  <2>2. state = "READ" /\ pc = "wire"
    BY <2>1 DEF ReadConversion, Goto
  <2>3. txDone /\ ~OnAir
    BY <2>1, <2>2 DEF PaceInv, Reading, Normal, Kicked, Started, Owed
  <2>4. TakesPayload
    BY <2>3 DEF TakesPayload, OnAir
  <2> QED
    BY <2>1, <2>4 DEF ReadConversion
<1> QED
  BY <1>1, SpecInv, PTL DEF Spec, PayloadIsTaken
=============================================================================
