------------------------------- MODULE MCBoards -------------------------------
(* The programs of one thread beside the gateway, one at a time: a relay board,  *)
(* the command line client, the fan controller, the watt meter and the handlers  *)
(* of the LED dimmer.                                                            *)
(*                                                                               *)
(* The board is relay8, with three inputs instead of eight, which is enough for  *)
(* edges before, at and after the input that the interrupt is reading; of the    *)
(* coils the first, the last, coil 8, which relay8 accepts although it has no    *)
(* such relay, and one that is refused.  The command lines are those of up to    *)
(* four options: two addresses, reads and a write with numbers that need more    *)
(* than sixteen bits, a read of more registers than the client has room for,     *)
(* options without all of their operands, and one that the usage text names and  *)
(* the loop does not know.  The dimmer has channels of one and of two pixels, so *)
(* that a pixel number is one of both, of one or of none, and a colour whose     *)
(* numbers are no bytes and differ; its documents have up to two levels.         *)
EXTENDS RelayBoard, Integers, Sequences

CONSTANTS MaxOptions, Groups, Room,                        \* Modbusc
          Numbers,                                         \* FanControl
          Bytes, MaxBytes,                                 \* Watmeter
          MaxDepth, MaxElements,                           \* JsonOutput
          NumChannels, Length, Colours, Pixels             \* LedControl

MCNumbers == {-1, 0, 1, 50, 95, 96, 97, 100, 101}
MCLength == [channel \in 0..1 |-> channel + 1]

Colour(r, g, b) == [red |-> r, green |-> g, blue |-> b]
MCColours == {Colour(0, 0, 0), Colour(257, 2, -1)}

ASSUME FanAssumption == Numbers \subseteq Int

ASSUME LedAssumption == /\ NumChannels \in Nat \ {0}
                        /\ Length \in [0..NumChannels - 1 -> Nat]
                        /\ \A c \in Colours : {c.red, c.green, c.blue} \subseteq Int
                        /\ Pixels \subseteq Nat

VARIABLES which,
          mPc, command, ix, opts, called, printed, exit,   \* Modbusc
          started, timer, dutyTold, answer,                \* FanControl
          wPc, DIR, char, rx, tx, heard, line,             \* Watmeter
          ready, front, back, shown, staged,               \* LedControl
          element_count, siblings                          \* JsonOutput

clientVars == <<mPc, command, ix, opts, called, printed, exit>>
fanVars == <<started, timer, dutyTold, answer>>
meterVars == <<wPc, DIR, char, rx, tx, heard, line>>
ledVars == <<ready, front, back, shown, staged, element_count, siblings>>

Group(option, given) == [option |-> option, given |-> given]
MCGroups == {Group("-d", <<0>>), Group("-d", <<>>), Group("-a", <<7>>), Group("-a", <<65545>>),
             Group("-b", <<9600>>), Group("-rr", <<65539, 2>>), Group("-rc", <<4>>),
             Group("-ri", <<1, 65539>>), Group("-wr", <<4, 65537>>), Group("-wr", <<>>),
             Group("-wc", <<1, 1>>)}

\* Any command lines of options with numbers as operands.
ASSUME ClientAssumption ==
  /\ MaxOptions \in Nat /\ Room \in Nat
  /\ \A g \in Groups : g = Group(g.option, g.given) /\ g.given \in Seq(Int)

Client == INSTANCE Modbusc WITH
  pc <- mPc,
  Commands <- UNION {[1 .. n -> Groups] : n \in 0 .. MaxOptions}, Values <- {0, 513}

Fan == INSTANCE FanControl WITH told <- dutyTold

Meter == INSTANCE Watmeter WITH pc <- wPc, c <- char

Led == INSTANCE LedControl

MCInit ==
  /\ Init /\ Fan!Init /\ Meter!Init /\ Led!Init
  /\ \/ which \in {"fan", "led", "meter", "relays"}
        /\ mPc = "none" /\ command = <<>> /\ ix = 1 /\ opts = <<>> /\ called = <<>>
        /\ printed = {} /\ exit = "none"
     \/ which = "client" /\ Client!Init
  /\ which # "relays" => level = {}

MCNext ==
  /\ UNCHANGED which
  /\ \/ which = "relays" /\ Next /\ UNCHANGED <<clientVars, fanVars, meterVars, ledVars>>
     \/ which = "client" /\ Client!Next /\ UNCHANGED <<vars, fanVars, meterVars, ledVars>>
     \/ which = "client" /\ exit # "none"     \* the program has ended
        /\ UNCHANGED <<vars, clientVars, fanVars, meterVars, ledVars>>
     \/ which = "fan" /\ Fan!Next /\ UNCHANGED <<vars, clientVars, meterVars, ledVars>>
     \/ which = "meter" /\ Meter!Next /\ UNCHANGED <<vars, clientVars, fanVars, ledVars>>
     \/ which = "led" /\ Led!Next /\ UNCHANGED <<vars, clientVars, fanVars, meterVars>>

MCSpec == MCInit /\ [][MCNext]_<<which, vars, clientVars, fanVars, meterVars, ledVars>>

(* What the programs tell is so, as their modules state it: the exit status of   *)
(* the client, the OK of the fan controller, the echo of the meter.              *)
ProgramsTellTruth ==
  /\ which = "client" => Client!ExitTellsTruth
  /\ Fan!DutyIsAsTold
  /\ Meter!EchoIsHeard

(* What the dimmer acknowledged is on the strip, and its answers have their      *)
(* commas, as LedControl and JsonOutput state it.                                *)
AckedIsShown == Led!AckedIsShown
CommasRight == Led!CommasRight
==============================================================================
