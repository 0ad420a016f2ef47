---------------------------- MODULE PowerMonitor ----------------------------
(***************************************************************************)
(* apps/powermon: polls the load power over SNMP every refresh_interval    *)
(* and switches all miners off when it is too high, on again when it was   *)
(* low for a while.                                                        *)
(*                                                                         *)
(* Every poll has a session of its own, so several are under way when the  *)
(* device is slow, their answers come in any order and any may be lost.    *)
(* Every command to a miner has a TCP connection of its own that nobody    *)
(* waits for.                                                              *)
(* The awaits of processLoadPower only await calls that do no I/O of their *)
(* own, so no other callback runs before it returns: it is one step.       *)
(***************************************************************************)
EXTENDS Naturals, SequencesExt

CONSTANTS
  Miners,          (* config.miners.                                       *)
  DelayCycles,     (* powerHighDelayTime / refresh_interval: 30000 / 250.  *)
  MaxOutstanding,  (* Polls under way at once: a poll ends after timeout * *)
                   (* (retries + 1), so at most 10000 / 250.               *)
  MaxCommands      (* Bound: commands under way to one miner.              *)

ASSUME DelayAssumption == DelayCycles \in Nat \ {0}
ASSUME BoundAssumption == MaxOutstanding \in Nat /\ MaxCommands \in Nat \ {0}

(* At or below powerLowLimit, at or above powerHighLimit, or between. *)
Loads == {"low", "mid", "high"}

VARIABLES
  load,          (* The load power, as it is.                              *)
  asked,         (* Polls whose request the device did not read yet.       *)
  answers,       (* Polls whose answer is under way, by what it says.      *)
  lpstate,       (* 0: miners on, 1: off, 2: off and waiting.              *)
  delay_cycles,
  commands,      (* Commands under way to each miner, oldest first.        *)
  miner,         (* Each miner is on.                                      *)
  missed,        (* History: the latest command to the miner was lost, or  *)
                 (* got there before an older one.                         *)
  ticks,         (* History: timer ticks since the wait began, as far as   *)
                 (* DelayCycles.                                           *)
  before         (* History: polls under way when the wait began.          *)

polls == <<asked, answers>>
orders == <<commands, miner, missed>>
history == <<ticks, before>>
powerVars == <<load, polls, lpstate, delay_cycles, orders, history>>

Outstanding == asked + answers["low"] + answers["mid"] + answers["high"]

(* main() switches the miners on and starts the timer. *)
PowerInit ==
  /\ load \in Loads
  /\ asked = 0 /\ answers = [v \in Loads |-> 0]
  /\ lpstate = 0 /\ delay_cycles = 0
  /\ commands = [m \in Miners |-> <<TRUE>>]
  /\ miner \in [Miners -> BOOLEAN]
  /\ missed = [m \in Miners |-> FALSE]
  /\ ticks = 0 /\ before = 0

-----------------------------------------------------------------------------
(* The polls *)

(* power_status_timer_callback *)
Tick ==
  /\ Outstanding < MaxOutstanding
  /\ asked' = asked + 1
  /\ ticks' = IF lpstate = 2 /\ ticks < DelayCycles THEN ticks + 1 ELSE ticks
  /\ UNCHANGED <<load, answers, lpstate, delay_cycles, orders, before>>

(* The device reads the load and answers. *)
Sample ==
  /\ asked > 0
  /\ asked' = asked - 1
  /\ answers' = [answers EXCEPT ![load] = @ + 1]
  /\ UNCHANGED <<load, lpstate, delay_cycles, orders, history>>

(* An answer is lost and net-snmp sends the request again. *)
Retry(v) ==
  /\ answers[v] > 0
  /\ answers' = [answers EXCEPT ![v] = @ - 1]
  /\ asked' = asked + 1
  /\ UNCHANGED <<load, lpstate, delay_cycles, orders, history>>

(* A poll ends in an error, of the session or of the value: it is logged. *)
PollFails ==
  /\ \/ asked > 0 /\ asked' = asked - 1 /\ UNCHANGED answers
     \/ \E v \in Loads : /\ answers[v] > 0
                         /\ answers' = [answers EXCEPT ![v] = @ - 1]
                         /\ UNCHANGED asked
  /\ UNCHANGED <<load, lpstate, delay_cycles, orders, history>>

LoadChanges ==
  /\ \E v \in Loads \ {load} : load' = v
  /\ UNCHANGED <<polls, lpstate, delay_cycles, orders, history>>

-----------------------------------------------------------------------------
(* The miners *)

AllMinersEnable(enable) ==
  /\ commands' = [m \in Miners |-> Append(commands[m], enable)]
  /\ missed' = [m \in Miners |-> FALSE]
  /\ UNCHANGED miner

(* A connection opens and the miner obeys, or it fails and that is logged. *)
Deliver(m, i) ==
  /\ miner' = [miner EXCEPT ![m] = commands[m][i]]
  /\ missed' = [missed EXCEPT ![m] = @ \/ (i = Len(commands[m]) /\ i > 1)]
Fail(m, i) ==
  /\ missed' = [missed EXCEPT ![m] = @ \/ i = Len(commands[m])]
  /\ UNCHANGED miner

CommandEnds(m) ==
  /\ \E i \in DOMAIN commands[m] :
       /\ commands' = [commands EXCEPT ![m] = RemoveAt(@, i)]
       /\ Deliver(m, i) \/ Fail(m, i)
  /\ UNCHANGED <<load, polls, lpstate, delay_cycles, history>>

-----------------------------------------------------------------------------
(* processLoadPower(v): what every answer does, and one action per case. *)
Answered(v) ==
  /\ answers[v] > 0
  /\ \A m \in Miners : Len(commands[m]) < MaxCommands
  /\ answers' = [answers EXCEPT ![v] = @ - 1]
  /\ UNCHANGED <<load, asked>>

(* Neither case 0 nor case 1 has anything to do. *)
Keep(v) ==
  /\ Answered(v)
  /\ \/ lpstate = 0 /\ v # "high"
     \/ lpstate = 1 /\ v # "low"
  /\ UNCHANGED <<lpstate, delay_cycles, orders, history>>

Disable(v) ==
  /\ Answered(v)
  /\ lpstate = 0 /\ v = "high"
  /\ AllMinersEnable(FALSE)
  /\ lpstate' = 1
  /\ UNCHANGED <<delay_cycles, history>>

StartDelay_short(v) ==
  /\ Answered(v)
  /\ lpstate = 1 /\ v = "low"
  /\ delay_cycles' = IF DelayCycles > 1 THEN DelayCycles - 1 ELSE 1
  /\ lpstate' = 2
  /\ ticks' = 0 /\ before' = Outstanding - 1
  /\ UNCHANGED orders
StartDelay(v) ==
  /\ Answered(v)
  /\ lpstate = 1 /\ v = "low"
  /\ delay_cycles' = DelayCycles
  /\ lpstate' = 2
  /\ ticks' = 0 /\ before' = Outstanding - 1
  /\ UNCHANGED orders

Wait(v) ==
  /\ Answered(v)
  /\ lpstate = 2 /\ delay_cycles # 1
  /\ delay_cycles' = delay_cycles - 1
  /\ UNCHANGED <<lpstate, orders, history>>

Enable_again(v) ==
  /\ Answered(v)
  /\ lpstate = 2 /\ delay_cycles = 1 /\ v = "low"
  /\ delay_cycles' = DelayCycles
  /\ AllMinersEnable(TRUE)
  /\ UNCHANGED <<lpstate, history>>
Enable(v) ==
  /\ Answered(v)
  /\ lpstate = 2 /\ delay_cycles = 1 /\ v = "low"
  /\ delay_cycles' = 0
  /\ AllMinersEnable(TRUE)
  /\ lpstate' = 0
  /\ UNCHANGED history

Abandon_on(v) ==
  /\ Answered(v)
  /\ lpstate = 2 /\ delay_cycles = 1 /\ v # "low"
  /\ delay_cycles' = 0
  /\ lpstate' = 0
  /\ UNCHANGED <<orders, history>>
Abandon(v) ==
  /\ Answered(v)
  /\ lpstate = 2 /\ delay_cycles = 1 /\ v # "low"
  /\ delay_cycles' = 0
  /\ lpstate' = 1
  /\ UNCHANGED <<orders, history>>

ProcessLoadPower(v) == \/ Keep(v) \/ Disable(v) \/ StartDelay(v)
                       \/ Wait(v) \/ Enable(v) \/ Abandon(v)

PowerNext == \/ Tick \/ Sample \/ PollFails \/ LoadChanges
             \/ \E v \in Loads : Retry(v) \/ ProcessLoadPower(v)
             \/ \E m \in Miners : CommandEnds(m)

PowerSpec == PowerInit /\ [][PowerNext]_powerVars

(* The timer goes on, every connection ends somehow, and the device is not  *)
(* silent for ever: of all the polls infinitely many are answered.          *)
PowerFairness == /\ WF_powerVars(Tick)
                 /\ SF_powerVars(Sample)
                 /\ SF_powerVars(\E v \in Loads : ProcessLoadPower(v))
                 /\ \A m \in Miners : WF_powerVars(CommandEnds(m))

FairPowerSpec == PowerSpec /\ PowerFairness

-----------------------------------------------------------------------------
(* Properties *)

PowerTypeOK ==
  /\ load \in Loads
  /\ asked \in Nat /\ answers \in [Loads -> Nat] /\ Outstanding <= MaxOutstanding
  /\ lpstate \in 0..2 /\ delay_cycles \in 0..DelayCycles
  /\ lpstate = 2 <=> delay_cycles > 0
  /\ commands \in [Miners -> Seq(BOOLEAN)]
  /\ miner \in [Miners -> BOOLEAN] /\ missed \in [Miners -> BOOLEAN]
  /\ ticks \in 0..DelayCycles /\ before \in Nat

(* A miner whose latest command got through, after all the older ones, is   *)
(* in the state the monitor believes the miners to be in; only a lost or an *)
(* overtaken latest command leaves it in another, until the next one.       *)
LatestCommandRules ==
  \A m \in Miners : commands[m] = << >> /\ ~missed[m] => (miner[m] <=> lpstate = 0)

(* The wait before the miners are switched on counts answers, not time: the *)
(* miners come back after at least DelayCycles ticks of the timer, but for  *)
(* the polls that were still unanswered when the wait began.                *)
EnableWaits ==
  [][lpstate = 2 /\ lpstate' = 0 => ticks + before >= DelayCycles]_powerVars

(* Behind EnableWaits: the answers that the wait has counted and the polls  *)
(* under way are all polls of before the wait or of a tick since.           *)
CountedPolls ==
  lpstate = 2 => \/ ticks = DelayCycles
                 \/ (DelayCycles - delay_cycles) + Outstanding <= before + ticks

(* A load that stays low gets the miners switched on for good, and one that *)
(* stays high gets them switched off for good, whatever answers are lost or *)
(* late.                                                                    *)
SteadyLoadDecides ==
  /\ <>[](load = "low")  => <>[](lpstate = 0)
  /\ <>[](load = "high") => <>[](lpstate = 1)
=============================================================================
