----------------------------- MODULE BoardsProofs -----------------------------
(* Theorems about the programs of MCBoards: the relay board, for any number of   *)
(* relays and inputs and any requests; the LED dimmer, for any number of         *)
(* channels of any lengths; its JSON answers, for documents of any depth and any *)
(* length; the fan controller, for any numbers; the watt meter, for any bytes;   *)
(* the command line client, for any command lines.                               *)
EXTENDS MCBoards, SequenceTheorems, FiniteSetTheorems, WellFoundedInduction, TLAPS

(* Types, and that the interrupt only runs on a board with inputs.          *)
THEOREM TypeInvariant == Spec => []TypeOK
<1> USE SizeAssumption DEF Relay, Input, Idle, NoReply
<1>1. Init => TypeOK
  BY DEF Init, TypeOK
<1>2. TypeOK /\ [Next]_vars => TypeOK'
  <2> SUFFICES ASSUME TypeOK, [Next]_vars PROVE TypeOK'
    OBVIOUS
  <2>1. CASE RegisterIrq
    BY <2>1 DEF RegisterIrq, TypeOK, Running
  <2>2. CASE ReadCoils \/ ReadInputs \/ Refuse
    <3>1. UNCHANGED <<booted, relays_state, gpio, inputs_state, level, irq, isr, sampled, acked>>
      BY <2>2 DEF ReadCoils, ReadInputs, Refuse
    <3> QED
      BY <3>1 DEF TypeOK
  <2>3. ASSUME NEW c \in Coils, NEW d \in Data, WriteCoil(c, d) PROVE TypeOK'
    <3>1. /\ relays_state' \in SUBSET Relay
          /\ Relay \cup DOMAIN acked' \subseteq DOMAIN gpio'
          /\ \A g \in DOMAIN gpio' : gpio'[g] \in {0, 1}
      BY <2>3 DEF WriteCoil, SwitchCoil, TypeOK
    <3> QED
      BY <2>3, <3>1 DEF WriteCoil, TypeOK
  <2>4. ASSUME NEW i \in Input, Edge(i) PROVE TypeOK'
    BY <2>4 DEF Edge, TypeOK
  <2>5. CASE IsrBegin
    <3>1. Inputs > 0
      BY <2>5 DEF IsrBegin, TypeOK
    <3>2. isr' \in Input /\ inputs_state' \in SUBSET Input
      BY <2>5, <3>1 DEF IsrBegin
    <3> QED
      BY <2>5, <3>1, <3>2 DEF IsrBegin, TypeOK
  <2>6. CASE IsrRead
    <3>1. isr \in Input /\ Inputs > 0
      BY <2>6 DEF IsrRead, TypeOK
    <3>2. inputs_state' \in SUBSET Input
      BY <2>6, <3>1 DEF IsrRead, TypeOK
    <3>3. isr' \in Input \cup {Idle}
      BY <2>6, <3>1 DEF IsrRead, LastInput, TypeOK
    <3>4. sampled' = sampled \/ sampled' = (sampled \/ Running)
      BY <2>6, Zenon DEF IsrRead
    <3>5. sampled' \in BOOLEAN
      BY <3>4, Zenon DEF TypeOK
    <3> QED
      BY <2>6, <3>1, <3>2, <3>3, <3>5 DEF IsrRead, TypeOK
  <2>7. CASE UNCHANGED vars
    BY <2>7 DEF vars, TypeOK
  <2> QED
    BY <2>1, <2>2, <2>3, <2>4, <2>5, <2>6, <2>7 DEF Next, Request
<1> QED
  BY <1>1, <1>2, PTL DEF Spec

(* The scan of the inputs: what it has read is right unless an edge made    *)
(* the interrupt pending again, so that the state it leaves is the state of *)
(* the pins once nothing is pending.                                        *)
THEOREM ScanIsRight == Spec => []ScanRight
<1> USE SizeAssumption DEF Relay, Input, Idle
<1>1. Init => ScanRight
  BY DEF Init, ScanRight, InputsFresh
<1>2. TypeOK /\ TypeOK' /\ ScanRight /\ [Next]_vars => ScanRight'
  <2> SUFFICES ASSUME TypeOK, TypeOK', ScanRight, [Next]_vars PROVE ScanRight'
    OBVIOUS
  <2>1. CASE RegisterIrq
    BY <2>1 DEF RegisterIrq, ScanRight, InputsFresh, TypeOK
  <2>2. CASE Request
    <3>1. UNCHANGED <<booted, inputs_state, level, irq, isr, sampled>>
      BY <2>2 DEF Request, ReadCoils, ReadInputs, Refuse, WriteCoil
    <3> QED
      BY <3>1 DEF ScanRight, InputsFresh, Running
  <2>3. ASSUME NEW i \in Input, Edge(i) PROVE ScanRight'
    <3>1. irq' <=> irq \/ i < booted
      BY <2>3, Zenon DEF Edge
    <3>2. isr' = isr /\ inputs_state' = inputs_state
      BY <2>3 DEF Edge
    <3>3. (Running' <=> Running) /\ (sampled' <=> sampled)
      BY <2>3, Zenon DEF Edge, Running
    <3>4. CASE Running
      <4>1. i < booted
        BY <2>3, <3>4 DEF Running, TypeOK
      <4>2. irq'
        BY <3>1, <4>1, Zenon
      <4>3. isr' # Idle => \A j \in Input : j >= isr' => j \notin inputs_state'
        BY <3>2 DEF ScanRight
      <4> QED
        BY <3>4, <3>3, <4>2, <4>3 DEF ScanRight, InputsFresh
    <3>5. CASE ~Running
      <4>1. ~sampled
        BY <3>5 DEF ScanRight
      <4>2. ~Running' /\ ~sampled'
        BY <3>5, <3>3, <4>1, Zenon
      <4>3. isr' # Idle => \A j \in Input : j >= isr' => j \notin inputs_state'
        BY <3>2 DEF ScanRight
      <4> QED
        BY <4>2, <4>3 DEF ScanRight, InputsFresh
    <3> QED
      BY <3>4, <3>5
  <2>4. CASE IsrBegin
    <3>1. /\ isr' = 0 /\ inputs_state' = {} /\ sampled' = sampled
          /\ Running' <=> Running
      BY <2>4 DEF IsrBegin, Running
    <3> QED
      BY <3>1 DEF ScanRight, InputsFresh
  <2>5. CASE IsrRead
    <3>1. CASE isr < LastInput
      BY <2>5, <3>1 DEF IsrRead, LastInput, ScanRight, InputsFresh, Running, TypeOK
    <3>2. CASE ~(isr < LastInput)
      <4>1. isr = LastInput /\ isr' = Idle /\ isr \in Input
        BY <2>5, <3>2 DEF IsrRead, LastInput, TypeOK
      <4>2. sampled' <=> sampled \/ Running
        BY <2>5, <3>2, Zenon DEF IsrRead
      <4>3. irq' = irq /\ level' = level /\ (Running' <=> Running)
        BY <2>5 DEF IsrRead, Running
      <4>4. ASSUME Running, ~irq PROVE inputs_state' = level
        <5>1. \A i \in Input : i < isr => (i \in inputs_state <=> i \in level)
          BY <4>1, <4>4 DEF ScanRight
        <5>2. isr \notin inputs_state
          BY <4>1 DEF ScanRight, TypeOK
        <5>3. inputs_state' = IF isr \in level THEN inputs_state \cup {isr} ELSE inputs_state
          BY <2>5 DEF IsrRead
        <5>4. \A i \in Input : i < isr \/ i = isr
          BY <4>1 DEF LastInput
        <5>5. \A i \in Input : i \in inputs_state' <=> i \in level
          BY <5>1, <5>2, <5>3, <5>4, <4>1
        <5>6. inputs_state' \subseteq Input /\ level \subseteq Input
          BY DEF TypeOK
        <5> QED
          BY <5>5, <5>6
      <4>5. sampled' => Running
        BY <4>2 DEF ScanRight
      <4>6. isr' = Idle
        BY <4>1
      <4>7. sampled' /\ ~irq' => inputs_state' = level'
        BY <4>3, <4>4, <4>5
      <4> QED
        BY <4>3, <4>5, <4>6, <4>7 DEF ScanRight, InputsFresh
    <3> QED
      BY <3>1, <3>2
  <2>6. CASE UNCHANGED vars
    BY <2>6 DEF vars, ScanRight, InputsFresh, Running
  <2> QED
    BY <2>1, <2>2, <2>3, <2>4, <2>5, <2>6 DEF Next
<1> QED
  BY <1>1, <1>2, TypeInvariant, PTL DEF Spec

(* The inputs a board reports are those of its pins, once they were scanned *)
(* and no interrupt is pending.                                             *)
THEOREM InputsAreFresh == Spec => []InputsFresh
<1>1. ScanRight => InputsFresh
  BY DEF ScanRight
<1> QED
  BY <1>1, ScanIsRight, PTL

(* What READ_COILS reports, and the pins, are what was last acknowledged,   *)
(* also on relay8, which acknowledges a coil that it does not have.         *)
THEOREM AckedAreDone == Spec => []AckedIsDone
<1> USE SizeAssumption, RequestAssumption DEF Relay
<1>1. Init => AckedIsDone
  BY DEF Init, AckedIsDone, LastAcked
<1>2. TypeOK /\ AckedIsDone /\ [Next]_vars => AckedIsDone'
  <2> SUFFICES ASSUME TypeOK, AckedIsDone, [Next]_vars PROVE AckedIsDone'
    OBVIOUS
  <2>1. ASSUME NEW c \in Coils, NEW d \in Data, WriteCoil(c, d) PROVE AckedIsDone'
    <3>1. /\ DOMAIN acked' = DOMAIN acked \cup {c}
          /\ LastAcked(c)' = d
          /\ \A x : x # c => LastAcked(x)' = LastAcked(x)
      BY <2>1 DEF WriteCoil, LastAcked
    <3>2. relays_state' = {x \in Relay : LastAcked(x)' # 0}
      <4>1. relays_state' = IF d = 0 THEN relays_state \ {c}
                            ELSE (relays_state \cup {c}) \cap Relay
        BY <2>1 DEF WriteCoil, SwitchCoil
      <4>2. relays_state = {x \in Relay : LastAcked(x) # 0}
        BY DEF AckedIsDone
      <4>3. \A x : x \in relays_state' <=> x \in Relay /\ LastAcked(x)' # 0
        BY <3>1, <4>1, <4>2
      <4> QED
        BY <4>3
    <3>3. gpio' = [x \in DOMAIN gpio \cup {c} |->
                     IF x = c THEN (IF d = 0 THEN 1 ELSE 0) ELSE gpio[x]]
      BY <2>1 DEF WriteCoil, SwitchCoil
    <3>4. \A x \in Relay \cup DOMAIN acked' : gpio'[x] = 0 <=> LastAcked(x)' # 0
      <4> SUFFICES ASSUME NEW x \in Relay \cup DOMAIN acked'
                   PROVE  gpio'[x] = 0 <=> LastAcked(x)' # 0
        OBVIOUS
      <4>1. CASE x = c
        BY <3>1, <3>3, <4>1
      <4>2. CASE x # c
        <5>1. x \in Relay \cup DOMAIN acked
          BY <3>1, <4>2
        <5>2. x \in DOMAIN gpio
          BY <5>1 DEF TypeOK
        <5>3. gpio'[x] = gpio[x]
          BY <3>3, <4>2, <5>2
        <5> QED
          BY <3>1, <4>2, <5>1, <5>3 DEF AckedIsDone
      <4> QED
        BY <4>1, <4>2
    <3> QED
      BY <3>2, <3>4 DEF AckedIsDone
  <2>2. CASE ~(\E c \in Coils, d \in Data : WriteCoil(c, d))
    <3>1. UNCHANGED <<relays_state, gpio, acked>>
      BY <2>2 DEF Next, Request, RegisterIrq, ReadCoils, ReadInputs, Refuse, Edge,
                  IsrBegin, IsrRead, vars
    <3> QED
      BY <3>1 DEF AckedIsDone, LastAcked
  <2> QED
    BY <2>1, <2>2
<1> QED
  BY <1>1, <1>2, TypeInvariant, PTL DEF Spec

-------------------------------------------------------------------------------
(* A step of the programs is one of the dimmer or leaves it alone.               *)
LEMMA ProgramSteps ==
  ASSUME [MCNext]_<<which, vars, clientVars, fanVars, meterVars, ledVars>>
  PROVE  Led!Next \/ UNCHANGED ledVars
BY DEF MCNext

(* What a client was told of a pixel is in the buffer as the driver was given    *)
(* it, or nothing was told.                                                      *)
Truthful(promised, buffer) ==
  \A c \in Led!Channels : \A p \in Led!PixelsOf(c) :
    \A told \in promised[c][p] : buffer[c][p] = Led!RedBlueGreen(told)

LInv == Truthful(shown, front) /\ Truthful(staged, back)

LEMMA AllPixels ==
  ASSUME NEW v
  PROVE  \A c \in Led!Channels : \A p \in Led!PixelsOf(c) : Led!All(v)[c][p] = v
BY DEF Led!All

LEMMA NothingTold == ASSUME NEW buffer PROVE Truthful(Led!All(Led!NoColour), buffer)
BY AllPixels DEF Truthful, Led!NoColour

LEMMA Changed ==
  ASSUME NEW f, NEW cs, NEW ps, NEW v
  PROVE  \A c \in Led!Channels : \A p \in Led!PixelsOf(c) :
            Led!Change(f, cs, ps, v)[c][p] = IF c \in cs /\ p \in ps THEN v ELSE f[c][p]
BY DEF Led!Change

(* The same change of a buffer and of what is told of it, or nothing told.       *)
LEMMA ChangeKeeps ==
  ASSUME NEW promised, NEW buffer, NEW cs, NEW ps, NEW u, NEW v,
         Truthful(promised, buffer), \A told \in u : v = Led!RedBlueGreen(told)
  PROVE  Truthful(Led!Change(promised, cs, ps, u), Led!Change(buffer, cs, ps, v))
BY Changed DEF Truthful

(* Every pixel of a channel is among the natural numbers.                        *)
LEMMA PixelsAreNumbers == \A c \in Led!Channels : Led!PixelsOf(c) \subseteq Nat
BY LedAssumption DEF Led!PixelsOf

LEMMA ShowKeeps ==
  ASSUME LInv, NEW cs, NEW newBack, NEW newStaged,
         Truthful(newStaged, newBack), Led!Shows(cs, newBack, newStaged)
  PROVE  LInv'
<1>1. CASE Led!Restart
  BY <1>1, NothingTold DEF Led!Restart, LInv
<1>2. CASE Led!Show(cs, newBack, newStaged)
  <2>1. front' = [c \in Led!Channels |-> IF c \in cs THEN newBack[c] ELSE front[c]]
    BY <1>2 DEF Led!Show
  <2>2. shown' = [c \in Led!Channels |-> IF c \in cs THEN newStaged[c] ELSE shown[c]]
    BY <1>2 DEF Led!Show
  <2>3. Truthful(shown', front')
    <3>1. SUFFICES ASSUME NEW c \in Led!Channels, NEW p \in Led!PixelsOf(c),
                          NEW told \in shown'[c][p]
                   PROVE  front'[c][p] = Led!RedBlueGreen(told)
      BY DEF Truthful
    <3>2. CASE c \in cs
      <4>1. front'[c] = newBack[c] /\ shown'[c] = newStaged[c]
        BY <2>1, <2>2, <3>2
      <4> QED
        BY <3>1, <4>1 DEF Truthful
    <3>3. CASE c \notin cs
      <4>1. front'[c] = front[c] /\ shown'[c] = shown[c]
        BY <2>1, <2>2, <3>3
      <4> QED
        BY <3>1, <4>1 DEF LInv, Truthful
    <3> QED
      BY <3>2, <3>3
  <2>4. staged' = Led!Change(newStaged, cs, Nat, Led!NoColour)
    BY <1>2 DEF Led!Show
  <2>5. CASE back' = Led!Change(newBack, cs, Nat, Led!Off)
    <3>1. Truthful(staged', back')
      BY <2>4, <2>5, ChangeKeeps DEF Led!NoColour
    <3> QED
      BY <2>3, <3>1 DEF LInv
  <2>6. CASE back' = [c \in Led!Channels |-> IF c \in cs THEN front[c] ELSE newBack[c]]
    <3>1. SUFFICES ASSUME NEW c \in Led!Channels, NEW p \in Led!PixelsOf(c),
                          NEW told \in staged'[c][p]
                   PROVE  back'[c][p] = Led!RedBlueGreen(told)
      BY <2>3 DEF Truthful, LInv
    <3>2. p \in Nat
      BY PixelsAreNumbers
    <3>3. c \notin cs /\ staged'[c][p] = newStaged[c][p]
      BY <2>4, <3>1, <3>2, Changed DEF Led!NoColour
    <3>4. back'[c] = newBack[c]
      BY <2>6, <3>3
    <3> QED
      BY <3>1, <3>3, <3>4 DEF Truthful
  <2> QED
    BY <1>2, <2>5, <2>6 DEF Led!Show
<1> QED
  BY <1>1, <1>2 DEF Led!Shows

(* Setting a pixel: what failed is told as nothing.                              *)
LEMMA SetKeeps ==
  ASSUME LInv, NEW cs, NEW p, NEW colour
  PROVE  Truthful(Led!Change(staged, cs, {p}, Led!Told(Led!Succeeds(cs, p), colour)),
                  Led!SetPixels(cs, {p}, colour))
<1>1. \A told \in Led!Told(Led!Succeeds(cs, p), colour) : told = colour
  BY DEF Led!Told, Led!NoColour
<1> QED
  BY <1>1, ChangeKeeps DEF LInv, Led!SetPixels

LEMMA UpdateKeeps ==
  ASSUME LInv, NEW cs, NEW colour, Led!UpdateChannels(cs, colour)
  PROVE  LInv'
<1>1. Truthful(Led!Change(staged, cs, Nat, {colour}), Led!SetPixels(cs, Nat, colour))
  BY ChangeKeeps DEF LInv, Led!SetPixels
<1> QED
  BY <1>1, ShowKeeps DEF Led!UpdateChannels

LEMMA BlackIsOff == \A told \in {Led!Black} : Led!Off = Led!RedBlueGreen(told)
BY DEF Led!Black, Led!Off, Led!RedBlueGreen

LEMMA RequestKeeps ==
  ASSUME LInv, Led!Request
  PROVE  LInv'
<1>1. ASSUME NEW ch \in Led!Requested, NEW p \in Pixels, NEW colour \in Colours,
             Led!ledctl_set_pixel(ch, p, colour) \/ Led!ledctl_update_pixel(ch, p, colour)
      PROVE  LInv'
  <2> DEFINE cs == Led!Addressed(ch)
  <2>1. Truthful(Led!Change(staged, cs, {p}, Led!Told(Led!Succeeds(cs, p), colour)),
                 Led!SetPixels(cs, {p}, colour))
    BY SetKeeps
  <2>2. CASE Led!ledctl_set_pixel(ch, p, colour)
    <3>1. /\ back' = Led!SetPixels(cs, {p}, colour)
          /\ staged' = Led!Change(staged, cs, {p}, Led!Told(Led!Succeeds(cs, p), colour))
          /\ front' = front /\ shown' = shown
      BY <2>2 DEF Led!ledctl_set_pixel
    <3> QED
      BY <2>1, <3>1 DEF LInv
  <2>3. CASE Led!ledctl_update_pixel(ch, p, colour)
    BY <2>1, <2>3, ShowKeeps DEF Led!ledctl_update_pixel
  <2> QED
    BY <1>1, <2>2, <2>3
<1>2. ASSUME NEW ch \in Led!Requested, NEW colour \in Colours,
             \/ Led!ledctl_update_channel_pixels(ch, colour)
             \/ Led!ledctl_update_channel_pixels_ramp(ch, 0, colour)
      PROVE  LInv'
  BY <1>2, UpdateKeeps DEF Led!ledctl_update_channel_pixels, Led!ledctl_update_channel_pixels_ramp
<1>3. ASSUME NEW ch \in Led!Requested, Led!ledctl_refresh(ch)
      PROVE  LInv'
  BY <1>3, ShowKeeps DEF Led!ledctl_refresh, LInv
<1>4. ASSUME NEW ch \in Led!Requested, Led!ledctl_clear(ch)
      PROVE  LInv'
  <2> DEFINE cs == IF ch \in Led!Channels THEN {ch} ELSE Led!Channels
  <2>1. /\ back' = Led!Change(back, cs, Nat, Led!Off)
        /\ staged' = Led!Change(staged, cs, Nat, {Led!Black})
        /\ front' = front /\ shown' = shown
    BY <1>4 DEF Led!ledctl_clear
  <2> HIDE DEF cs
  <2>2. Truthful(staged', back')
    BY <2>1, BlackIsOff, ChangeKeeps DEF LInv
  <2> QED
    BY <2>1, <2>2 DEF LInv
<1>5. CASE Led!rest_api_sys_restart
  BY <1>5, NothingTold DEF Led!rest_api_sys_restart, Led!Restart, LInv
<1> QED
  BY <1>1, <1>2, <1>3, <1>4, <1>5 DEF Led!Request

LEMMA InitKeeps ==
  ASSUME LInv, Led!ledctl_init
  PROVE  LInv'
<1>1. /\ back' = Led!Change(back, {ready}, Nat, Led!Off)
      /\ staged' = Led!Change(staged, {ready}, Nat, Led!NoColour)
      /\ front' = front /\ shown' = shown
  BY DEF Led!ledctl_init
<1>2. Truthful(staged', back')
  BY <1>1, ChangeKeeps DEF LInv, Led!NoColour
<1> QED
  BY <1>1, <1>2 DEF LInv

(* What clients were told is on the strip, however many channels there are,      *)
(* whatever their lengths, and whichever calls fail or come during the start.    *)
THEOREM AckedIsAlwaysShown == MCSpec => []AckedIsShown
<1>1. MCInit => LInv
  BY NothingTold DEF MCInit, Led!Init, Led!LedInit, LInv
<1>2. LInv /\ [MCNext]_<<which, vars, clientVars, fanVars, meterVars, ledVars>> => LInv'
  <2> SUFFICES ASSUME LInv, Led!Next \/ UNCHANGED ledVars PROVE LInv'
    BY ProgramSteps
  <2>1. CASE UNCHANGED Led!lvars
    BY <2>1 DEF Led!lvars, LInv
  <2>2. CASE Led!ledctl_init
    BY <2>2, InitKeeps
  <2>3. CASE Led!Request
    BY <2>3, RequestKeeps
  <2> QED
    BY <2>1, <2>2, <2>3 DEF Led!Next, Led!lvars, ledVars
<1>3. LInv => AckedIsShown
  <2>1. \A told : Led!RedBlueGreen(told) = <<told.red % 256, told.blue % 256, told.green % 256>>
    BY DEF Led!RedBlueGreen
  <2> DEFINE Carries(buffer, c, p, told) ==
               buffer[c][p] = <<told.red % 256, told.blue % 256, told.green % 256>>
  <2>2. ASSUME LInv, NEW c \in Led!Channels, NEW p \in Led!PixelsOf(c)
        PROVE  /\ \A told \in shown[c][p] : Carries(front, c, p, told)
               /\ \A told \in staged[c][p] : Carries(back, c, p, told)
    <3>1. ASSUME NEW told \in shown[c][p] PROVE Carries(front, c, p, told)
      <4>1. front[c][p] = Led!RedBlueGreen(told)
        BY <2>2, Zenon DEF LInv, Truthful
      <4> QED
        BY <2>1, <4>1, Zenon
    <3>2. ASSUME NEW told \in staged[c][p] PROVE Carries(back, c, p, told)
      <4>1. back[c][p] = Led!RedBlueGreen(told)
        BY <2>2, Zenon DEF LInv, Truthful
      <4> QED
        BY <2>1, <4>1, Zenon
    <3> QED
      BY <3>1, <3>2, Zenon
  <2> QED
    BY <2>2, Zenon DEF AckedIsShown, Led!AckedIsShown
<1> QED
  BY <1>1, <1>2, <1>3, PTL DEF MCSpec

-------------------------------------------------------------------------------
(* The counter is right for the innermost object or array because it is positive *)
(* whenever one is closed: every object and array around another has an element, *)
(* the one that is open in it, and so has the one that comes to be the innermost.*)
JsonInv ==
    /\ Led!JsonTypeOK
    /\ Led!CommasRight
    /\ \A i \in 1..(Led!Depth - 1) : siblings[i] > 0

LEMMA CountedType ==
  ASSUME Led!JsonTypeOK, Led!Depth > 0
  PROVE  /\ Led!Counted \in Seq(Nat) /\ Len(Led!Counted) = Led!Depth
         /\ Led!Counted[Led!Depth] > 0
         /\ \A i \in 1..(Led!Depth - 1) : Led!Counted[i] = siblings[i]
  BY DEF Led!JsonTypeOK, Led!Depth, Led!Counted

LEMMA JsonStep ==
  ASSUME JsonInv, Led!JsonNext \/ UNCHANGED Led!jvars
  PROVE  JsonInv'
<1> USE DEF JsonInv, Led!JsonTypeOK, Led!CommasRight
<1>1. CASE Led!rest_output_begin
  BY <1>1 DEF Led!rest_output_begin, Led!Depth
<1>2. CASE Led!rest_output_end
  BY <1>2 DEF Led!rest_output_end, Led!Depth
<1>3. CASE Led!rest_output_open
  <2>1. /\ Led!Counted \in Seq(Nat) /\ Len(Led!Counted) = Led!Depth /\ Led!Counted[Led!Depth] > 0
        /\ \A i \in 1..(Led!Depth - 1) : Led!Counted[i] = siblings[i]
        /\ siblings' = Append(Led!Counted, 0) /\ element_count' = 0
    BY <1>3, CountedType DEF Led!rest_output_open, Led!MayAdd
  <2>2. siblings' \in Seq(Nat) /\ Led!Depth' = Led!Depth + 1 /\ siblings'[Led!Depth'] = 0
    BY <2>1 DEF Led!Depth
  <2>3. Led!Depth \in Nat /\ \A i \in 1..Led!Depth : siblings'[i] = Led!Counted[i]
    BY <2>1 DEF Led!Depth
  <2>4. \A i \in 1..Led!Depth : i \in 1..(Led!Depth - 1) \/ i = Led!Depth
    BY <2>3
  <2>5. \A i \in 1..Led!Depth : siblings'[i] > 0
    BY <2>1, <2>3, <2>4
  <2> QED
    BY <2>1, <2>2, <2>5 DEF Led!Depth
<1>4. CASE Led!rest_output_close
  <2>1. /\ siblings' \in Seq(Nat) /\ Led!Depth' = Led!Depth - 1 /\ Led!Depth' > 0
        /\ \A i \in 1..Led!Depth' : siblings'[i] = siblings[i]
        /\ element_count' = element_count + 1
    BY <1>4 DEF Led!rest_output_close, Led!Depth
  <2>2. \A i \in 1..Led!Depth' : siblings'[i] > 0
    BY <2>1 DEF Led!Depth
  <2> QED
    BY <2>1, <2>2 DEF Led!Depth
<1>5. CASE Led!rest_output_value
  <2>1. /\ Led!Counted \in Seq(Nat) /\ Len(Led!Counted) = Led!Depth /\ Led!Counted[Led!Depth] > 0
        /\ \A i \in 1..(Led!Depth - 1) : Led!Counted[i] = siblings[i]
        /\ siblings' = Led!Counted /\ element_count' = element_count + 1
    BY <1>5, CountedType DEF Led!rest_output_value, Led!MayAdd
  <2> QED
    BY <2>1 DEF Led!Depth
<1>6. CASE UNCHANGED Led!jvars
  BY <1>6 DEF Led!jvars, Led!Depth
<1> QED
  BY <1>1, <1>2, <1>3, <1>4, <1>5, <1>6 DEF Led!JsonNext

(* Whatever document is written, a comma stands before every element but the     *)
(* first of its object or array, and before no first one.                        *)
THEOREM CommasAreRight == MCSpec => []CommasRight
<1>1. MCInit => JsonInv
  BY DEF MCInit, Led!Init, Led!JsonInit, JsonInv, Led!JsonTypeOK, Led!CommasRight, Led!Depth
<1>2. JsonInv /\ [MCNext]_<<which, vars, clientVars, fanVars, meterVars, ledVars>> => JsonInv'
  <2> SUFFICES ASSUME JsonInv, Led!Next \/ UNCHANGED ledVars PROVE JsonInv'
    BY ProgramSteps
  <2>1. Led!JsonNext \/ UNCHANGED Led!jvars
    BY DEF Led!Next, Led!jvars, ledVars
  <2> QED
    BY <2>1, JsonStep
<1>3. JsonInv => CommasRight
  BY DEF JsonInv, CommasRight
<1> QED
  BY <1>1, <1>2, <1>3, PTL DEF MCSpec

-------------------------------------------------------------------------------
(* A step of the programs is one of the fan controller, or leaves it alone; and  *)
(* so for the watt meter.                                                        *)
LEMMA FanSteps ==
  ASSUME [MCNext]_<<which, vars, clientVars, fanVars, meterVars, ledVars>>
  PROVE  Fan!Next \/ UNCHANGED fanVars
BY DEF MCNext

LEMMA MeterSteps ==
  ASSUME [MCNext]_<<which, vars, clientVars, fanVars, meterVars, ledVars>>
  PROVE  Meter!Next \/ UNCHANGED meterVars
BY DEF MCNext

(* What timer and answers have in common: once the fan is started, the pulse is  *)
(* that of the duty last acknowledged.                                           *)
DutyInv ==
  /\ dutyTold \in 0..100
  /\ started # "none" => timer = [Period |-> 2880, Pulse |-> 30 * dutyTold, on |-> TRUE]
  /\ started = "none" => dutyTold = 20

LEMMA PulseIs ==
  ASSUME NEW pct \in 0..100
  PROVE  (Fan!MAX_PULSE * pct) \div 100 = 30 * pct
BY DEF Fan!MAX_PULSE

LEMMA Sets ==
  ASSUME NEW pct \in 0..100, Fan!fanpwm_set(pct)
  PROVE  timer' = [Period |-> 2880, Pulse |-> 30 * pct, on |-> TRUE]
BY PulseIs DEF Fan!fanpwm_set, Fan!timer_set_pwm, Fan!PERIOD

(* The fan runs as the last OK said, for any number a command may have.          *)
THEOREM DutyStaysAsTold == MCSpec => []Fan!DutyIsAsTold
<1>1. MCInit => DutyInv
  BY DEF MCInit, Fan!Init, Fan!INIT_PULSE, DutyInv
<1>2. DutyInv /\ [MCNext]_<<which, vars, clientVars, fanVars, meterVars, ledVars>> => DutyInv'
  <2> SUFFICES ASSUME DutyInv, Fan!Next \/ UNCHANGED fanVars PROVE DutyInv'
    BY FanSteps
  <2> USE DEF DutyInv
  <2>1. CASE Fan!fanpwm_init
    <3>1. dutyTold = 20 /\ Fan!fanpwm_set(20) /\ started' = "fan" /\ dutyTold' = dutyTold
      BY <2>1 DEF Fan!fanpwm_init, Fan!INIT_PULSE
    <3> QED
      BY <3>1, Sets
  <2>2. CASE Fan!console_init
    BY <2>2 DEF Fan!console_init
  <2>3. CASE Fan!BadArguments \/ Fan!OtherCommand
    BY <2>3 DEF Fan!BadArguments, Fan!OtherCommand
  <2>4. ASSUME NEW pct \in Numbers, Fan!console_cmd_fanpwm(pct) PROVE DutyInv'
    <3>1. started # "none" /\ started' = started
      BY <2>4 DEF Fan!console_cmd_fanpwm
    <3>2. CASE pct \in 0..100
      <4>1. Fan!fanpwm_set(pct) /\ dutyTold' = pct
        BY <2>4, <3>2 DEF Fan!console_cmd_fanpwm
      <4> QED
        BY <3>1, <3>2, <4>1, Sets
    <3>3. CASE pct \notin 0..100
      <4>1. UNCHANGED <<timer, dutyTold>>
        BY <2>4, <3>3 DEF Fan!console_cmd_fanpwm, Fan!fanpwm_set
      <4> QED
        BY <3>1, <4>1
    <3> QED
      BY <3>2, <3>3
  <2>5. CASE UNCHANGED fanVars
    BY <2>5 DEF fanVars
  <2> QED
    BY <2>1, <2>2, <2>3, <2>4, <2>5 DEF Fan!Next
<1>3. DutyInv => Fan!DutyIsAsTold
  BY DEF DutyInv, Fan!DutyIsAsTold, Fan!High
<1> QED
  BY <1>1, <1>2, <1>3, PTL DEF MCSpec

(* The first byte of the later part goes to the end of the earlier one.          *)
LEMMA HeadMoves ==
  ASSUME NEW S, NEW s \in Seq(S), NEW t \in Seq(S), t # <<>>
  PROVE  /\ Head(t) \in S /\ Tail(t) \in Seq(S)
         /\ Append(s, Head(t)) \o Tail(t) = s \o t
         /\ s \o <<Head(t)>> = Append(s, Head(t))
<1>1. Head(t) \in S /\ Tail(t) \in Seq(S) /\ Len(t) > 0
  OBVIOUS
<1>2. Len(Append(s, Head(t)) \o Tail(t)) = Len(s \o t)
  BY <1>1
<1>3. \A i \in 1..Len(s \o t) : (Append(s, Head(t)) \o Tail(t))[i] = (s \o t)[i]
  <2>1. SUFFICES ASSUME NEW i \in 1..Len(s) + Len(t)
                 PROVE  (Append(s, Head(t)) \o Tail(t))[i] = (s \o t)[i]
    OBVIOUS
  <2>2. CASE i <= Len(s)
    BY <1>1, <2>2
  <2>3. CASE i = Len(s) + 1
    BY <1>1, <2>3
  <2>4. CASE i > Len(s) + 1
    BY <1>1, <2>4
  <2> QED
    BY <2>2, <2>3, <2>4
<1>4. s \o <<Head(t)>> = Append(s, Head(t))
  BY <1>1, AppendIsConcat
<1> QED
  BY <1>1, <1>2, <1>3, <1>4, SeqEqual

LEMMA AppendLast ==
  ASSUME NEW S, NEW s \in Seq(S), NEW t \in Seq(S), NEW e \in S
  PROVE  s \o Append(t, e) = Append(s \o t, e)
<1>1. s \o t \in Seq(S) /\ <<e>> \in Seq(S)
  OBVIOUS
<1>2. Append(s \o t, e) = (s \o t) \o <<e>> /\ Append(t, e) = t \o <<e>>
  BY <1>1, AppendIsConcat
<1> QED
  BY <1>1, <1>2, ConcatAssociative

(* The line is driven while a byte waits to be sent, and a byte is in hand only  *)
(* between the two calls that take it and send it.                               *)
EchoInv ==
  /\ char \in Seq(Bytes) /\ rx \in Seq(Bytes) /\ tx \in Seq(Bytes)
  /\ heard \in Seq(Bytes) /\ line \in Seq(Bytes)
  /\ tx # <<>> => DIR
  /\ char # <<>> => wPc \in {"transmit", "putchar"}
  /\ wPc = "putchar" => DIR
  /\ Meter!EchoIsHeard

(* Every byte heard is on the line once, in order, or on its way, for any bytes. *)
THEOREM EchoStaysHeard == MCSpec => []Meter!EchoIsHeard
<1>1. MCInit => EchoInv
  <2> SUFFICES ASSUME MCInit PROVE EchoInv
    OBVIOUS
  <2>1. wPc = "receive" /\ char = <<>> /\ rx = <<>> /\ tx = <<>> /\ heard = <<>> /\ line = <<>>
    BY DEF MCInit, Meter!Init
  <2> QED
    BY <2>1 DEF EchoInv, Meter!EchoIsHeard
<1>2. EchoInv /\ [MCNext]_<<which, vars, clientVars, fanVars, meterVars, ledVars>> => EchoInv'
  <2> SUFFICES ASSUME EchoInv, Meter!Next \/ UNCHANGED meterVars PROVE EchoInv'
    BY MeterSteps
  <2> USE DEF EchoInv, Meter!EchoIsHeard
  <2>1. CASE Meter!EnableRx
    BY <2>1 DEF Meter!EnableRx
  <2>2. CASE Meter!GetChar
    <3>1. CASE rx = <<>>
      BY <2>2, <3>1 DEF Meter!GetChar
    <3>2. CASE rx # <<>>
      <4>1. char = <<>> /\ char' = <<Head(rx)>> /\ rx' = Tail(rx) /\ wPc' = "transmit"
        BY <2>2, <3>2 DEF Meter!GetChar
      <4>2. Head(rx) \in Bytes /\ Tail(rx) \in Seq(Bytes)
        BY <3>2
      <4>3. UNCHANGED <<DIR, tx, heard, line>>
        BY <2>2 DEF Meter!GetChar
      <4>4. line \o tx \in Seq(Bytes) /\ (line \o tx) \o char = line \o tx
        BY <4>1
      <4>5. /\ Append(line \o tx, Head(rx)) \o Tail(rx) = (line \o tx) \o rx
            /\ (line \o tx) \o <<Head(rx)>> = Append(line \o tx, Head(rx))
        <5>1. rx \in Seq(Bytes)
          OBVIOUS
        <5> QED
          BY ONLY <5>1, <4>4, <3>2, HeadMoves
      <4>6. line' \o tx' \o char' \o rx' = line \o tx \o char \o rx
        BY ONLY <4>1, <4>3, <4>4, <4>5, Zenon
      <4>7. heard' = line' \o tx' \o char' \o rx'
        <5>1. heard = line \o tx \o char \o rx
          OBVIOUS
        <5> QED
          BY ONLY <5>1, <4>3, <4>6, Zenon
      <4>8. tx' # <<>> => DIR'
        BY <4>3
      <4> QED
        BY <4>1, <4>2, <4>3, <4>7, <4>8
    <3> QED
      BY <3>1, <3>2
  <2>3. CASE Meter!EnableTx
    BY <2>3 DEF Meter!EnableTx
  <2>4. CASE Meter!PutChar
    <3>1. /\ wPc = "putchar" /\ wPc' = "receive" /\ tx' = tx \o char /\ char' = <<>>
          /\ UNCHANGED <<DIR, rx, heard, line>>
      BY <2>4 DEF Meter!PutChar
    <3>2. line' \o tx' \o char' \o rx' = line \o tx \o char \o rx
      <4>1. line \in Seq(Bytes) /\ tx \in Seq(Bytes) /\ char \in Seq(Bytes)
        OBVIOUS
      <4>2. tx \o char \in Seq(Bytes) /\ line \o (tx \o char) \in Seq(Bytes)
        BY ONLY <4>1
      <4>3. line \o (tx \o char) = (line \o tx) \o char
        BY ONLY <4>1, ConcatAssociative
      <4>4. (line \o (tx \o char)) \o <<>> = line \o (tx \o char)
        BY ONLY <4>2, ConcatEmptySeq
      <4> QED
        BY ONLY <3>1, <4>3, <4>4, Zenon
    <3>3. tx' \in Seq(Bytes)
      BY <3>1
    <3> QED
      BY <3>1, <3>2, <3>3
  <2>5. CASE Meter!Sent
    <3>1. /\ tx # <<>> /\ DIR /\ tx' = Tail(tx) /\ line' = Append(line, Head(tx))
          /\ UNCHANGED <<wPc, DIR, char, rx, heard>>
      BY <2>5 DEF Meter!Sent
    <3>2. Head(tx) \in Bytes /\ Tail(tx) \in Seq(Bytes)
      BY <3>1
    <3>3. line' \o tx' = line \o tx
      <4>1. line \in Seq(Bytes) /\ tx \in Seq(Bytes)
        OBVIOUS
      <4>2. Append(line, Head(tx)) \o Tail(tx) = line \o tx
        BY ONLY <4>1, <3>1, HeadMoves
      <4> QED
        BY ONLY <3>1, <4>2, Zenon
    <3>4. heard' = line' \o tx' \o char' \o rx'
      <4>1. heard = line \o tx \o char \o rx
        OBVIOUS
      <4> QED
        BY ONLY <3>1, <3>3, <4>1, Zenon
    <3>5. line' \in Seq(Bytes) /\ tx' \in Seq(Bytes)
      BY <3>1, <3>2
    <3> QED
      BY <3>1, <3>4, <3>5
  <2>6. ASSUME NEW b \in Bytes, Meter!Arrives(b) PROVE EchoInv'
    <3>1. /\ rx' = Append(rx, b) /\ heard' = Append(heard, b)
          /\ UNCHANGED <<wPc, DIR, char, tx, line>>
      BY <2>6 DEF Meter!Arrives
    <3>2. line \o tx \o char \in Seq(Bytes)
      OBVIOUS
    <3>3. heard' = line' \o tx' \o char' \o rx'
      <4>1. rx \in Seq(Bytes) /\ b \in Bytes
        OBVIOUS
      <4>2. (line \o tx \o char) \o Append(rx, b) = Append((line \o tx \o char) \o rx, b)
        BY ONLY <4>1, <3>2, AppendLast
      <4>3. heard = (line \o tx \o char) \o rx
        OBVIOUS
      <4> QED
        BY ONLY <3>1, <4>2, <4>3, Zenon
    <3> QED
      BY <3>1, <3>3
  <2>7. CASE UNCHANGED meterVars
    BY <2>7 DEF meterVars
  <2> QED
    BY <2>1, <2>2, <2>3, <2>4, <2>5, <2>6, <2>7 DEF Meter!Next
<1>3. EchoInv => Meter!EchoIsHeard
  BY DEF EchoInv
<1> QED
  BY <1>1, <1>2, <1>3, PTL DEF MCSpec

------------------------------------------------------------------------------
(* The command line client: any command lines of options with numbers.           *)

(* Every set of numbers has a least one, which is what an induction needs.       *)
LEMMA Least ==
  ASSUME NEW T \in SUBSET Nat, T # {}
  PROVE  \E x \in T : \A y \in T : x <= y
<1> DEFINE R == {ss \in Nat \X Nat : ss[1] < ss[2]}
<1>1. IsWellFoundedOn(R, Nat)
  BY NatLessThanWellFounded DEF OpToRel
<1>2. \A x, y \in Nat : <<y, x>> \in R <=> y < x
  OBVIOUS
<1> HIDE DEF R
<1>3. PICK x \in T : \A y \in T : ~(<<y, x>> \in R)
  BY <1>1, WFMin
<1>4. \A y \in T : x \in Nat /\ y \in Nat /\ ~(y < x)
  BY <1>2, <1>3
<1> QED
  BY <1>4

(* What holds for 1, and from each number to the next, holds for every number.   *)
LEMMA Ascent ==
  ASSUME NEW T \in SUBSET Nat, 1 \in T, \A k \in T : k + 1 \in T
  PROVE  Nat \ {0} \subseteq T
<1> DEFINE U == {k \in Nat : k # 0 /\ k \notin T}
<1> SUFFICES ASSUME U # {} PROVE FALSE
  OBVIOUS
<1>1. PICK k \in U : \A j \in U : k <= j
  <2>1. U \in SUBSET Nat
    OBVIOUS
  <2> HIDE DEF U
  <2> QED
    BY <2>1, Least
<1>2. k \in Nat /\ k # 0 /\ k \notin T /\ k # 1
  OBVIOUS
<1>3. k - 1 \in Nat /\ k - 1 # 0 /\ ~(k <= k - 1) /\ (k - 1) + 1 = k
  BY <1>2
<1>4. k - 1 \notin U
  BY <1>1, <1>3
<1>5. k - 1 \in T
  BY <1>3, <1>4
<1> QED
  BY <1>2, <1>3, <1>5

LEMMA Joined ==
  ASSUME NEW S, NEW s \in Seq(S), NEW t \in Seq(S), NEW u, u = s \o t
  PROVE  /\ u \in Seq(S) /\ Len(s) \in Nat /\ Len(t) \in Nat /\ Len(u) = Len(s) + Len(t)
         /\ \A x \in 1..Len(s) : u[x] = s[x]
         /\ \A x \in 1..Len(t) : u[Len(s) + x] = t[x]
<1>1. Len(s) \in Nat /\ Len(t) \in Nat
  OBVIOUS
<1>2. /\ u \in Seq(S) /\ Len(u) = Len(s) + Len(t)
      /\ \A x \in 1..Len(s) + Len(t) : u[x] = IF x <= Len(s) THEN s[x] ELSE t[x - Len(s)]
  BY ConcatProperties
<1>3. ASSUME NEW x \in 1..Len(s) PROVE u[x] = s[x]
  <2>1. x \in 1..Len(s) + Len(t) /\ x <= Len(s)
    BY <1>1
  <2> QED
    BY <1>2, <2>1
<1>4. ASSUME NEW x \in 1..Len(t) PROVE u[Len(s) + x] = t[x]
  <2> DEFINE y == Len(s) + x
  <2>1. y \in 1..Len(s) + Len(t) /\ ~(y <= Len(s)) /\ y - Len(s) = x
    BY <1>1
  <2> HIDE DEF y
  <2>2. u[y] = t[x]
    BY <1>2, <2>1
  <2> QED
    BY <2>2 DEF y
<1> QED
  BY <1>1, <1>2, <1>3, <1>4

Joins(s, t, u) ==
  /\ Len(s) \in Nat /\ Len(t) \in Nat /\ Len(u) = Len(s) + Len(t)
  /\ \A x \in 1..Len(s) : u[x] = s[x]
  /\ \A x \in 1..Len(t) : u[Len(s) + x] = t[x]

LEMMA JoinedAll ==
  ASSUME NEW S PROVE \A s, t \in Seq(S) : s \o t \in Seq(S) /\ Joins(s, t, s \o t)
BY Joined DEF Joins

------------------------------------------------------------------------------
(* FlattenSeq: one sequence after the other.                                     *)
IsFlat(f, seqs, n) == f = [i \in 1..n |-> IF i = 1 THEN seqs[i] ELSE f[i - 1] \o seqs[i]]

LEMMA FlatExists ==
  ASSUME NEW seqs, NEW n \in Nat \ {0} PROVE \E f : IsFlat(f, seqs, n)
<1> DEFINE T == {k \in Nat : \E f : IsFlat(f, seqs, k)}
<1>1. 1 \in T
  <2> DEFINE f == [i \in 1..1 |-> seqs[i]]
  <2>1. f = [i \in 1..1 |-> IF i = 1 THEN seqs[i] ELSE f[i - 1] \o seqs[i]]
    OBVIOUS
  <2> HIDE DEF f
  <2> QED
    BY <2>1 DEF IsFlat
<1>2. ASSUME NEW k \in T PROVE k + 1 \in T
  <2>1. CASE k = 0
    BY <1>1, <2>1
  <2>2. CASE k # 0
    <3>1. k \in Nat /\ k >= 1
      BY <2>2
    <3>2. PICK f : IsFlat(f, seqs, k)
      OBVIOUS
    <3> DEFINE g == [i \in 1..k + 1 |-> IF i \in 1..k THEN f[i] ELSE f[k] \o seqs[i]]
    <3>3. \A i \in 1..k : f[i] = IF i = 1 THEN seqs[i] ELSE f[i - 1] \o seqs[i]
      BY <3>2 DEF IsFlat
    <3>4. \A i \in 1..k + 1 : g[i] = IF i = 1 THEN seqs[i] ELSE g[i - 1] \o seqs[i]
      <4> SUFFICES ASSUME NEW i \in 1..k + 1
                   PROVE  g[i] = IF i = 1 THEN seqs[i] ELSE g[i - 1] \o seqs[i]
        OBVIOUS
      <4>1. CASE i \in 1..k
        <5>1. i = 1 \/ (i - 1 \in 1..k /\ i - 1 \in 1..k + 1)
          BY <3>1, <4>1
        <5> QED
          BY <3>3, <4>1, <5>1
      <4>2. CASE i \notin 1..k
        <5>1. i = k + 1 /\ i # 1 /\ i - 1 = k /\ k \in 1..k /\ k \in 1..k + 1
          BY <3>1, <4>2
        <5> QED
          BY <4>2, <5>1
      <4> QED
        BY <4>1, <4>2
    <3>5. g = [i \in 1..k + 1 |-> IF i = 1 THEN seqs[i] ELSE g[i - 1] \o seqs[i]]
      <4> DEFINE h == [i \in 1..k + 1 |-> IF i = 1 THEN seqs[i] ELSE g[i - 1] \o seqs[i]]
      <4>1. \A i \in 1..k + 1 : g[i] = h[i]
        BY <3>4
      <4>2. g = [i \in 1..k + 1 |-> g[i]] /\ h = [i \in 1..k + 1 |-> h[i]]
        OBVIOUS
      <4> HIDE DEF g, h
      <4>3. g = h
        BY <4>1, <4>2
      <4> QED
        BY <4>3 DEF h
    <3>6. IsFlat(g, seqs, k + 1)
      <4> HIDE DEF g
      <4> QED
        BY <3>5 DEF IsFlat
    <3> QED
      BY <3>1, <3>6
  <2> QED
    BY <2>1, <2>2
<1>3. Nat \ {0} \subseteq T
  <2>1. T \in SUBSET Nat
    OBVIOUS
  <2> HIDE DEF T
  <2> QED
    BY <1>1, <1>2, <2>1, Ascent
<1> QED
  BY <1>3

LEMMA Flattened ==
  ASSUME NEW S, NEW seqs \in Seq(S), seqs # <<>>
  PROVE  \E f : IsFlat(f, seqs, Len(seqs)) /\ Client!FlattenSeq(seqs) = f[Len(seqs)]
<1> DEFINE flatten == CHOOSE f : IsFlat(f, seqs, Len(seqs))
<1>1. Len(seqs) \in Nat \ {0}
  BY EmptySeq
<1>2. Client!FlattenSeq(seqs) = flatten[Len(seqs)]
  BY <1>1 DEF Client!FlattenSeq, IsFlat
<1>3. IsFlat(flatten, seqs, Len(seqs))
  BY <1>1, FlatExists
<1> QED
  BY <1>2, <1>3

(* Each prefix is a sequence that begins like the ones before.                   *)
LEMMA FlatType ==
  ASSUME NEW S, NEW n \in Nat \ {0}, NEW seqs, NEW f, IsFlat(f, seqs, n),
         \A i \in 1..n : seqs[i] \in Seq(S)
  PROVE  \A k \in 1..n : f[k] \in Seq(S)
<1>1. \A i \in 1..n : f[i] = IF i = 1 THEN seqs[i] ELSE f[i - 1] \o seqs[i]
  BY DEF IsFlat
<1> DEFINE T == {k \in Nat : k \in 1..n => f[k] \in Seq(S)}
<1>2. 1 \in T
  BY <1>1
<1>3. ASSUME NEW k \in T, k + 1 \in 1..n PROVE f[k + 1] \in Seq(S)
  <2>1. CASE k = 0
    BY <1>2, <1>3, <2>1
  <2>2. CASE k # 0
    <3>1. k \in 1..n /\ k + 1 # 1 /\ (k + 1) - 1 = k
      BY <1>3, <2>2
    <3>2. f[k] \in Seq(S)
      BY <3>1
    <3>3. f[k + 1] = f[k] \o seqs[k + 1]
      BY <1>1, <1>3, <3>1
    <3> QED
      BY <1>3, <3>2, <3>3, ConcatProperties
  <2> QED
    BY <2>1, <2>2
<1>4. T \in SUBSET Nat /\ \A k \in T : k + 1 \in T
  BY <1>3
<1>5. Nat \ {0} \subseteq T
  <2> HIDE DEF T
  <2> QED
    BY <1>2, <1>4, Ascent
<1> QED
  BY <1>5

LEMMA Prefixes ==
  ASSUME NEW S, NEW n \in Nat \ {0}, NEW seqs, NEW f, IsFlat(f, seqs, n),
         \A i \in 1..n : seqs[i] \in Seq(S), NEW i \in 1..n, NEW j \in 1..n, i <= j
  PROVE  Len(f[i]) <= Len(f[j]) /\ \A x \in 1..Len(f[i]) : f[j][x] = f[i][x]
<1> DEFINE Longer(k) == Len(f[i]) <= Len(f[k]) /\ \A x \in 1..Len(f[i]) : f[k][x] = f[i][x]
           T == {k \in Nat : k \in i..n => Longer(k)}
<1>1. \A k \in 1..n : f[k] \in Seq(S)
  BY FlatType
<1>2. Len(f[i]) \in Nat
  BY <1>1
<1>3. Longer(i)
  BY <1>2
<1>4. ASSUME NEW k \in T, k + 1 \in i..n PROVE Longer(k + 1)
  <2>1. CASE k + 1 = i
    BY <1>3, <2>1
  <2>2. CASE k + 1 # i
    <3>1. k \in i..n /\ k \in 1..n /\ k + 1 \in 1..n /\ k + 1 # 1 /\ (k + 1) - 1 = k
      BY <1>4, <2>2
    <3>2. Longer(k)
      BY <3>1
    <3>3. f[k + 1] = f[k] \o seqs[k + 1]
      BY <3>1 DEF IsFlat
    <3>4. f[k] \in Seq(S) /\ seqs[k + 1] \in Seq(S)
      BY <1>1, <3>1
    <3>5. /\ Len(f[k]) \in Nat /\ Len(seqs[k + 1]) \in Nat
          /\ Len(f[k + 1]) = Len(f[k]) + Len(seqs[k + 1])
          /\ \A x \in 1..Len(f[k]) : f[k + 1][x] = f[k][x]
      <4>1. Joins(f[k], seqs[k + 1], f[k + 1])
        BY <3>3, <3>4, JoinedAll, Zenon
      <4> QED
        BY <4>1 DEF Joins
    <3> HIDE DEF T
    <3>6. \A a, b, d \in Nat : \A e : a <= b /\ e = b + d =>
            a <= e /\ \A x \in 1..a : x \in 1..b
      OBVIOUS
    <3>7. Len(f[i]) <= Len(f[k + 1]) /\ \A x \in 1..Len(f[i]) : x \in 1..Len(f[k])
      <4>1. Len(f[i]) <= Len(f[k])
        BY <3>2
      <4>2. /\ Len(f[i]) \in Nat /\ Len(f[k]) \in Nat /\ Len(seqs[k + 1]) \in Nat
            /\ Len(f[k + 1]) = Len(f[k]) + Len(seqs[k + 1])
        BY <1>2, <3>5
      <4> QED
        BY ONLY <3>6, <4>1, <4>2, Zenon
    <3>8. \A x \in 1..Len(f[i]) : f[k + 1][x] = f[i][x]
      BY <3>2, <3>5, <3>7
    <3> QED
      BY <3>7, <3>8
  <2> QED
    BY <2>1, <2>2
<1>5. T \in SUBSET Nat /\ \A k \in T : k + 1 \in T
  <2> SUFFICES ASSUME NEW k \in T PROVE k \in Nat /\ k + 1 \in T
    OBVIOUS
  <2>1. k \in Nat /\ (k + 1 \in i..n => Longer(k + 1))
    BY <1>4
  <2> HIDE DEF Longer
  <2> QED
    BY <2>1
<1>6. 1 \in T
  <2>1. 1 \in i..n => 1 = i
    OBVIOUS
  <2> QED
    BY <1>3, <2>1
<1>7. Nat \ {0} \subseteq T
  <2> HIDE DEF T
  <2> QED
    BY <1>5, <1>6, Ascent
<1>8. j \in i..n /\ j \in Nat \ {0}
  OBVIOUS
<1> QED
  BY <1>7, <1>8

------------------------------------------------------------------------------
Texts == {g.option : g \in Groups} \cup {Client!NoNumber}
Option == [option : Texts, given : Seq(Int)]
Arguments == [text : Texts, atoi : Int]

Piece(g) ==
  <<Client!Argument(g.option, 0)>> \o
    [j \in DOMAIN g.given |-> Client!Argument(Client!NoNumber, g.given[j])]

LEMMA PieceIs ==
  ASSUME NEW g \in Option
  PROVE  /\ Piece(g) \in Seq(Arguments) /\ Len(Piece(g)) = 1 + Len(g.given)
         /\ Piece(g)[1] = Client!Argument(g.option, 0)
         /\ \A j \in 1..Len(g.given) :
              Piece(g)[1 + j] = Client!Argument(Client!NoNumber, g.given[j])
<1> DEFINE n == Len(g.given)
           s == <<Client!Argument(g.option, 0)>>
           t == [j \in 1..n |-> Client!Argument(Client!NoNumber, g.given[j])]
<1>1. g.option \in Texts /\ g.given \in Seq(Int) /\ n \in Nat /\ DOMAIN g.given = 1..n
      /\ \A j \in 1..n : g.given[j] \in Int
  BY DEF Option
<1>2. s \in Seq(Arguments) /\ Len(s) = 1 /\ s[1] = Client!Argument(g.option, 0)
  BY <1>1 DEF Arguments, Client!Argument
<1>3. t \in Seq(Arguments) /\ Len(t) = n
      /\ \A j \in 1..n : t[j] = Client!Argument(Client!NoNumber, g.given[j])
  <2>1. \A j \in 1..n : Client!Argument(Client!NoNumber, g.given[j]) \in Arguments
    <3> SUFFICES ASSUME NEW j \in 1..n
                 PROVE  Client!Argument(Client!NoNumber, g.given[j]) \in Arguments
      OBVIOUS
    <3> DEFINE i == g.given[j]
    <3>1. i \in Int
      BY <1>1
    <3> HIDE DEF i
    <3>2. Client!Argument(Client!NoNumber, i) \in Arguments
      BY <3>1 DEF Arguments, Texts, Client!Argument
    <3> QED
      BY <3>2 DEF i
  <2> QED
    BY <1>1, <2>1
<1>4. Piece(g) = s \o t
  BY <1>1 DEF Piece
<1> HIDE DEF s, t
<1>5. /\ Piece(g) \in Seq(Arguments) /\ Len(Piece(g)) = 1 + n
      /\ \A x \in 1..1 : Piece(g)[x] = s[x]
      /\ \A x \in 1..n : Piece(g)[1 + x] = t[x]
  <2>1. /\ Piece(g) \in Seq(Arguments) /\ Len(Piece(g)) = Len(s) + Len(t)
        /\ \A x \in 1..Len(s) : Piece(g)[x] = s[x]
        /\ \A x \in 1..Len(t) : Piece(g)[Len(s) + x] = t[x]
    <3>1. Joins(s, t, Piece(g)) /\ Piece(g) \in Seq(Arguments)
      BY <1>2, <1>3, <1>4, JoinedAll, Zenon
    <3> QED
      BY <3>1 DEF Joins
  <2> QED
    BY <1>2, <1>3, <2>1
<1> QED
  BY <1>1, <1>2, <1>3, <1>5

(* Where each option of a command line is in argv.                               *)
Laid(c, start) ==
  /\ start \in [1..Len(c) + 1 -> Nat \ {0}]
  /\ start[1] = 1 /\ Client!ArgvOf(c) \in Seq(Arguments)
  /\ Len(Client!ArgvOf(c)) = start[Len(c) + 1] - 1
  /\ \A k \in 1..Len(c) :
       /\ start[k + 1] = start[k] + 1 + Len(c[k].given)
       /\ start[k + 1] <= start[Len(c) + 1]
       /\ Client!ArgvOf(c)[start[k]] = Client!Argument(c[k].option, 0)
       /\ \A j \in 1..Len(c[k].given) :
            Client!ArgvOf(c)[start[k] + j] = Client!Argument(Client!NoNumber, c[k].given[j])

LEMMA LaidOut == ASSUME NEW c \in Seq(Option) PROVE \E start : Laid(c, start)
<1> DEFINE n == Len(c)
           seqs == [k \in 1..n |-> Piece(c[k])]
<1>1. n \in Nat /\ DOMAIN c = 1..n /\ \A k \in 1..n : c[k] \in Option
  OBVIOUS
<1>2. Client!ArgvOf(c) = Client!FlattenSeq(seqs)
  BY <1>1 DEF Client!ArgvOf, Piece
<1>3. \A k \in 1..n : seqs[k] = Piece(c[k]) /\ Piece(c[k]) \in Seq(Arguments)
  BY <1>1, PieceIs
<1>4. seqs \in Seq(Seq(Arguments)) /\ Len(seqs) = n
  BY <1>1, <1>3
<1>5. CASE n = 0
  <2> DEFINE start == [k \in 1..n + 1 |-> 1]
  <2>1. Client!FlattenSeq(seqs) = seqs /\ seqs = <<>>
    BY <1>4, <1>5 DEF Client!FlattenSeq
  <2>2. Client!ArgvOf(c) = <<>>
    BY <1>2, <2>1
  <2>3. start \in [1..n + 1 -> Nat \ {0}] /\ start[1] = 1 /\ start[n + 1] = 1
    BY <1>5
  <2>4. Len(Client!ArgvOf(c)) = 0 /\ Client!ArgvOf(c) \in Seq(Arguments)
    BY <2>2, EmptySeq
  <2>5. \A k \in 1..n : FALSE
    BY <1>5
  <2> HIDE DEF start
  <2>6. Laid(c, start)
    BY <2>3, <2>4, <2>5 DEF Laid
  <2> QED
    BY <2>6
<1>6. CASE n # 0
  <2>1. seqs # <<>> /\ n \in Nat \ {0}
    BY <1>1, <1>4, <1>6
  <2>2. PICK f : IsFlat(f, seqs, n) /\ Client!FlattenSeq(seqs) = f[n]
    BY <1>4, <2>1, Flattened
  <2> HIDE DEF seqs
  <2>3. \A k \in 1..n : seqs[k] \in Seq(Arguments)
    BY <1>3
  <2>4. \A k \in 1..n : f[k] \in Seq(Arguments) /\ Len(f[k]) \in Nat
    BY <2>1, <2>2, <2>3, FlatType
  <2>5. f[1] = Piece(c[1])
        /\ \A k \in 1..n : k # 1 => f[k] = f[k - 1] \o Piece(c[k])
    <3>1. \A k \in 1..n : f[k] = IF k = 1 THEN seqs[k] ELSE f[k - 1] \o seqs[k]
      BY <2>2 DEF IsFlat
    <3>2. 1 \in 1..n
      BY <2>1
    <3> QED
      BY <1>3, <3>1, <3>2
  <2> DEFINE start == [k \in 1..n + 1 |-> IF k = 1 THEN 1 ELSE Len(f[k - 1]) + 1]
  <2>6. start \in [1..n + 1 -> Nat \ {0}] /\ start[1] = 1
        /\ \A k \in 1..n : start[k + 1] = Len(f[k]) + 1
    <3>1. \A k \in 1..n : k + 1 \in 1..n + 1 /\ k + 1 # 1 /\ (k + 1) - 1 = k
      BY <1>1
    <3>2. \A k \in 1..n + 1 : k # 1 => k - 1 \in 1..n
      BY <1>1
    <3>3. \A k \in 1..n + 1 : start[k] \in Nat \ {0}
      BY <2>4, <3>2
    <3>4. 1 \in 1..n + 1
      BY <1>1
    <3> QED
      BY <3>1, <3>3, <3>4
  <2> HIDE DEF start
  <2>7. n \in 1..n /\ start[n + 1] = Len(f[n]) + 1
    BY <2>1, <2>6
  <2>8. ASSUME NEW k \in 1..n
        PROVE  /\ start[k + 1] = start[k] + 1 + Len(c[k].given)
               /\ Len(f[k]) = start[k] - 1 + Len(Piece(c[k]))
               /\ \A j \in 1..Len(Piece(c[k])) : f[k][start[k] - 1 + j] = Piece(c[k])[j]
    <3>1. Piece(c[k]) \in Seq(Arguments) /\ Len(Piece(c[k])) = 1 + Len(c[k].given)
          /\ Len(c[k].given) \in Nat
      BY <1>1, PieceIs DEF Option
    <3>2. CASE k = 1
      <4>1. start[k] = 1 /\ f[k] = Piece(c[k]) /\ start[k + 1] = Len(f[k]) + 1
        BY <2>5, <2>6, <3>2
      <4> QED
        BY <3>1, <4>1
    <3>3. CASE k # 1
      <4>1. k - 1 \in 1..n /\ (k - 1) + 1 = k
        BY <1>1, <3>3
      <4>2. start[k] = Len(f[k - 1]) + 1 /\ start[k + 1] = Len(f[k]) + 1
        BY <2>6, <4>1
      <4>3. f[k] = f[k - 1] \o Piece(c[k]) /\ f[k - 1] \in Seq(Arguments)
            /\ Len(f[k - 1]) \in Nat
        BY <2>4, <2>5, <3>3, <4>1
      <4>4. /\ Len(f[k]) = Len(f[k - 1]) + Len(Piece(c[k]))
            /\ \A x \in 1..Len(Piece(c[k])) : f[k][Len(f[k - 1]) + x] = Piece(c[k])[x]
        <5>1. Joins(f[k - 1], Piece(c[k]), f[k])
          BY <3>1, <4>3, JoinedAll, Zenon
        <5> QED
          BY <5>1 DEF Joins
      <4>5. start[k] - 1 = Len(f[k - 1])
        BY <4>2, <4>3
      <4>6. start[k + 1] = start[k] + 1 + Len(c[k].given)
            /\ Len(f[k]) = start[k] - 1 + Len(Piece(c[k]))
        <5>1. \A a, b \in Nat : /\ (a + (1 + b)) + 1 = (a + 1) + 1 + b
                                /\ a + (1 + b) = (a + 1) - 1 + (1 + b)
          OBVIOUS
        <5>2. Len(f[k]) = Len(f[k - 1]) + (1 + Len(c[k].given))
          BY <3>1, <4>4, Zenon
        <5> QED
          BY ONLY <3>1, <4>2, <4>3, <5>1, <5>2, Zenon
      <4> QED
        BY <4>4, <4>5, <4>6
    <3> QED
      BY <3>2, <3>3
  <2>9. Client!ArgvOf(c) = f[n]
    BY <1>2, <2>2
  <2>10. ASSUME NEW k \in 1..n
         PROVE  /\ start[k + 1] <= start[n + 1]
                /\ f[n][start[k]] = Client!Argument(c[k].option, 0)
                /\ \A j \in 1..Len(c[k].given) :
                     f[n][start[k] + j] = Client!Argument(Client!NoNumber, c[k].given[j])
    <3>1. Len(f[k]) <= Len(f[n]) /\ \A x \in 1..Len(f[k]) : f[n][x] = f[k][x]
      <4>1. k <= n /\ n \in Nat \ {0}
        BY <1>1, <2>1
      <4> HIDE DEF n
      <4>2. \A i, j \in 1..n : i <= j =>
              Len(f[i]) <= Len(f[j]) /\ \A x \in 1..Len(f[i]) : f[j][x] = f[i][x]
        <5> SUFFICES ASSUME NEW i \in 1..n, NEW j \in 1..n, i <= j
                     PROVE  Len(f[i]) <= Len(f[j]) /\ \A x \in 1..Len(f[i]) : f[j][x] = f[i][x]
          OBVIOUS
        <5>1. IsFlat(f, seqs, n)
          BY <2>2
        <5> QED
          BY ONLY <2>3, <4>1, <5>1, i \in 1..n, j \in 1..n, i <= j, Prefixes
      <4> QED
        BY <2>7, <4>1, <4>2
    <3>2. Len(f[k]) \in Nat /\ Len(f[n]) \in Nat /\ Len(c[k].given) \in Nat
          /\ start[k] \in Nat \ {0}
      <4>1. k \in 1..n + 1 /\ c[k].given \in Seq(Int)
        BY <1>1 DEF Option
      <4>2. Len(c[k].given) \in Nat
        BY <4>1
      <4> QED
        BY <2>4, <2>6, <2>7, <4>1, <4>2
    <3>3. Len(Piece(c[k])) = 1 + Len(c[k].given)
          /\ Piece(c[k])[1] = Client!Argument(c[k].option, 0)
          /\ \A j \in 1..Len(c[k].given) :
               Piece(c[k])[1 + j] = Client!Argument(Client!NoNumber, c[k].given[j])
      BY <1>1, PieceIs
    <3>4. ASSUME NEW j \in 0..Len(c[k].given) PROVE f[n][start[k] + j] = Piece(c[k])[1 + j]
      <4>1. 1 + j \in 1..Len(Piece(c[k])) /\ start[k] - 1 + (1 + j) = start[k] + j
            /\ start[k] + j \in 1..Len(f[k])
        <5>1. j \in Nat /\ j <= Len(c[k].given)
              /\ Len(f[k]) = start[k] - 1 + (1 + Len(c[k].given))
          <6>1. Len(f[k]) = start[k] - 1 + Len(Piece(c[k]))
            BY <2>8
          <6>2. j \in Nat /\ j <= Len(c[k].given)
            BY <3>2
          <6> QED
            BY <3>3, <6>1, <6>2
        <5> QED
          <6>1. \A a, b, d, u : a \in Nat \ {0} /\ b \in Nat /\ u = a - 1 + (1 + b) =>
                  \A y \in Nat : y <= b =>
                    /\ 1 + y \in 1..1 + b /\ a - 1 + (1 + y) = a + y /\ a + y \in 1..u
            OBVIOUS
          <6> QED
            BY ONLY <3>2, <3>3, <5>1, <6>1, Zenon
      <4> QED
        BY <2>8, <3>1, <4>1
    <3>5. f[n][start[k]] = Piece(c[k])[1]
      <4>1. 0 \in 0..Len(c[k].given) /\ start[k] + 0 = start[k] /\ 1 + 0 = 1
        BY <3>2
      <4> QED
        BY <3>4, <4>1
    <3>6. \A j \in 1..Len(c[k].given) : j \in 0..Len(c[k].given)
      BY <3>2
    <3>7. start[k + 1] <= start[n + 1]
      BY <2>6, <2>7, <3>1, <3>2
    <3> QED
      BY <3>3, <3>4, <3>5, <3>6, <3>7
  <2>11. Laid(c, start)
    <3>1. f[n] \in Seq(Arguments) /\ Len(f[n]) = start[n + 1] - 1
      BY <2>4, <2>7
    <3> QED
      BY <2>6, <2>8, <2>9, <2>10, <3>1 DEF Laid
  <2> QED
    BY <2>11
<1> QED
  BY <1>5, <1>6
Starts(c) == CHOOSE start : Laid(c, start)

(* What the loop knows once it has read the options before the k-th.             *)
Actions == {"-ri", "-rc", "-wr", "-rr"}
Given(os, k) == {i \in 1..k - 1 : command[i].option \in os}
LastOf(os, k) == command[Client!Max(Given(os, k))]
Whole(k) == \A i \in 1..k - 1 : \A j \in 0..2 : ~Client!IsMistake(i, j)
Read(k) ==
  /\ opts = [uart |-> opts.uart, addr |-> opts.addr, regaddr |-> opts.regaddr,
             regval |-> opts.regval, numregs |-> opts.numregs, action |-> opts.action]
  /\ opts.uart = IF Given({"-d"}, k) = {} THEN -1 ELSE LastOf({"-d"}, k).given[1]
  /\ opts.addr = IF Given({"-a"}, k) = {} THEN -1 ELSE LastOf({"-a"}, k).given[1]
  /\ opts.action = IF Given(Actions, k) = {} THEN "none" ELSE LastOf(Actions, k).option
  /\ Given(Actions, k) # {} =>
       /\ opts.regaddr = Client!Uint16(LastOf(Actions, k).given[1])
       /\ (IF opts.action = "-wr" THEN opts.regval ELSE opts.numregs)
            = Client!Uint16(LastOf(Actions, k).given[2])

(* The loop stands on an option, or on a number, where it ends.                  *)
Doomed == ix \in DOMAIN Client!argv /\ Client!argv[ix].text = Client!NoNumber
Standing == \E k \in 1..Len(command) + 1 : ix = Starts(command)[k] /\ Whole(k) /\ Read(k)

Few == Cardinality(Client!Mistakes) < 2

ClientInv ==
  /\ command \in Seq(Option)
  /\ mPc \in {"options", "call", "done"}
  /\ mPc # "done" => exit = "none" /\ called = <<>> /\ printed = {}
  /\ mPc = "options" /\ Few => Doomed \/ Standing
  /\ mPc = "call" /\ Few => /\ Whole(Len(command) + 1) /\ Read(Len(command) + 1)
                            /\ opts.uart # -1 /\ opts.addr # -1
  /\ Client!ExitTellsTruth

LEMMA Arities == \A o : Client!Arity(o) \in 0..2
BY DEF Client!Arity

LEMMA StartsRight == ASSUME NEW c \in Seq(Option) PROVE Laid(c, Starts(c))
BY LaidOut DEF Starts

LEMMA OptionIs ==
  ASSUME NEW c \in Seq(Option), NEW k \in 1..Len(c)
  PROVE  c[k] \in Option /\ c[k].given \in Seq(Int) /\ Len(c[k].given) \in Nat
         /\ \A j \in 1..Len(c[k].given) : c[k].given[j] \in Int
<1>1. c[k] \in Option
  OBVIOUS
<1>2. c[k].given \in Seq(Int)
  BY <1>1 DEF Option
<1> QED
  BY <1>1, <1>2

LEMMA CommandsAre == \A c \in UNION {[1 .. n -> Groups] : n \in 0 .. MaxOptions} : c \in Seq(Option)
<1> SUFFICES ASSUME NEW n \in 0 .. MaxOptions, NEW c \in [1 .. n -> Groups]
             PROVE  c \in Seq(Option)
  OBVIOUS
<1>1. \A g \in Groups : g \in Option
  BY ClientAssumption DEF Option, Texts, Group
<1>2. n \in Nat
  BY ClientAssumption
<1> QED
  BY <1>1, <1>2

(* With fewer than two mistakes, two mistakes are the same.                      *)
LEMMA OneMistake ==
  ASSUME NEW i \in 1..Len(command), NEW j \in 0..2, Client!IsMistake(i, j),
         NEW k \in 1..Len(command), NEW l \in 0..2, Client!IsMistake(k, l),
         command \in Seq(Option), Few
  PROVE  i = k /\ j = l
<1> DEFINE M == Client!Mistakes
<1>1. Len(command) \in Nat /\ DOMAIN command = 1..Len(command)
  OBVIOUS
<1>2. IsFiniteSet((1..Len(command)) \X (0..2))
  <2>1. IsFiniteSet(1..Len(command)) /\ IsFiniteSet(0..2)
    <3>1. \A x, y \in Int : IsFiniteSet(x..y)
      BY FS_Interval
    <3>2. 0 \in Int /\ 1 \in Int /\ 2 \in Int /\ Len(command) \in Int
      BY <1>1
    <3> QED
      BY ONLY <3>1, <3>2, Zenon
  <2> QED
    BY ONLY <2>1, FS_Product, Zenon
<1>3. M \in SUBSET ((1..Len(command)) \X (0..2))
  BY <1>1 DEF Client!Mistakes
<1>4. IsFiniteSet(M)
  BY <1>2, <1>3, FS_Subset
<1>5. <<i, j>> \in M /\ <<k, l>> \in M
  BY <1>1 DEF Client!Mistakes
<1>6. Cardinality(M) \in Nat /\ Cardinality(M) < 2
  BY <1>4, FS_CardinalityType DEF Few
<1> HIDE DEF M
<1>7. Cardinality(M) # 0
  BY <1>4, <1>5, FS_EmptySet
<1>8. Cardinality(M) = 1
  BY <1>6, <1>7
<1>9. PICK x : M = {x}
  BY <1>4, <1>8, FS_Singleton
<1> QED
  BY <1>5, <1>9

(* The last of the options seen, after one more.                                 *)
LEMMA LastSeen ==
  ASSUME NEW k \in Nat \ {0}, NEW os
  PROVE  /\ command[k].option \notin os => Given(os, k + 1) = Given(os, k)
         /\ command[k].option \in os => Given(os, k + 1) # {} /\ LastOf(os, k + 1) = command[k]
<1>1. k \in 1..(k + 1) - 1 /\ \A i : i \in 1..(k + 1) - 1 <=> i \in 1..k - 1 \/ i = k
  OBVIOUS
<1>2. ASSUME command[k].option \notin os PROVE Given(os, k + 1) = Given(os, k)
  BY <1>1, <1>2 DEF Given
<1>3. ASSUME command[k].option \in os
      PROVE  Given(os, k + 1) # {} /\ LastOf(os, k + 1) = command[k]
  <2> DEFINE G == Given(os, k + 1)
  <2>1. k \in G /\ \A i \in G : i \in Int /\ k >= i
    BY <1>1, <1>3 DEF Given
  <2> HIDE DEF G
  <2>2. \A x \in G : (\A y \in G : x >= y) => x = k
    BY <2>1
  <2>3. Client!Max(G) = k
    BY <2>1, <2>2 DEF Client!Max
  <2> QED
    BY <2>1, <2>3 DEF LastOf, G
<1> QED
  BY <1>2, <1>3

(* An option with all of its operands is read.                                   *)
LEMMA ReadsOne ==
  ASSUME NEW k \in Nat \ {0}, Read(k), NEW g, g = command[k],
         NEW o, o = g.option, Client!Arity(o) > 0,
         \A j \in 1..Client!Arity(o) : Client!Operand(j) = g.given[j],
         opts' = Client!Set(o), command' = command
  PROVE  Read(k + 1)'
<1>1. \A os : Given(os, k + 1)' = Given(os, k + 1) /\ LastOf(os, k + 1)' = LastOf(os, k + 1)
  BY DEF Given, LastOf
<1>2. \A os : /\ o \notin os => Given(os, k + 1) = Given(os, k) /\ LastOf(os, k + 1) = LastOf(os, k)
              /\ o \in os => Given(os, k + 1) # {} /\ LastOf(os, k + 1) = g
  BY LastSeen DEF LastOf
<1>3. o \in {"-d", "-a", "-b"} \cup Actions
  BY DEF Client!Arity, Actions
<1>4. CASE o = "-d"
  <2>1. opts' = [opts EXCEPT !.uart = g.given[1]]
    BY <1>4, Arities DEF Client!Set, Client!Arity
  <2>2. "-d" \in {"-d"} /\ "-d" \notin {"-a"} /\ "-d" \notin Actions
    BY DEF Actions
  <2> QED
    BY <1>1, <1>2, <1>4, <2>1, <2>2 DEF Read
<1>5. CASE o = "-a"
  <2>1. opts' = [opts EXCEPT !.addr = g.given[1]]
    BY <1>5, Arities DEF Client!Set, Client!Arity
  <2>2. "-a" \in {"-a"} /\ "-a" \notin {"-d"} /\ "-a" \notin Actions
    BY DEF Actions
  <2> QED
    BY <1>1, <1>2, <1>5, <2>1, <2>2 DEF Read
<1>6. CASE o = "-b"
  <2>1. opts' = opts
    BY <1>6 DEF Client!Set
  <2>2. "-b" \notin {"-d"} /\ "-b" \notin {"-a"} /\ "-b" \notin Actions
    BY DEF Actions
  <2> QED
    BY <1>1, <1>2, <1>6, <2>1, <2>2 DEF Read
<1>7. CASE o \in Actions
  <2>1. Client!Arity(o) = 2 /\ 1 \in 1..2 /\ 2 \in 1..2
    BY <1>7 DEF Client!Arity, Actions
  <2>2. Client!Operand(1) = g.given[1] /\ Client!Operand(2) = g.given[2]
    BY <2>1
  <2>3. o \notin {"-d"} /\ o \notin {"-a"}
    BY <1>7 DEF Actions
  <2>4. CASE o = "-wr"
    <3>1. opts' = [opts EXCEPT !.regaddr = Client!Uint16(g.given[1]),
                               !.regval = Client!Uint16(g.given[2]), !.action = o]
      BY <2>2, <2>4 DEF Client!Set
    <3>2. /\ opts' = [uart |-> opts'.uart, addr |-> opts'.addr, regaddr |-> opts'.regaddr,
                      regval |-> opts'.regval, numregs |-> opts'.numregs,
                      action |-> opts'.action]
          /\ opts'.uart = opts.uart /\ opts'.addr = opts.addr /\ opts'.action = o
          /\ opts'.regaddr = Client!Uint16(g.given[1])
          /\ opts'.regval = Client!Uint16(g.given[2])
      BY <3>1 DEF Read
    <3>3. /\ opts.uart = IF Given({"-d"}, k) = {} THEN -1 ELSE LastOf({"-d"}, k).given[1]
          /\ opts.addr = IF Given({"-a"}, k) = {} THEN -1 ELSE LastOf({"-a"}, k).given[1]
      BY DEF Read
    <3>4. /\ Given(Actions, k + 1)' # {} /\ LastOf(Actions, k + 1)' = g
          /\ Given({"-d"}, k + 1)' = Given({"-d"}, k) /\ LastOf({"-d"}, k + 1)' = LastOf({"-d"}, k)
          /\ Given({"-a"}, k + 1)' = Given({"-a"}, k) /\ LastOf({"-a"}, k + 1)' = LastOf({"-a"}, k)
      BY <1>1, <1>2, <1>7, <2>3
    <3> QED
      BY <2>4, <3>2, <3>3, <3>4 DEF Read
  <2>5. CASE o # "-wr"
    <3>1. opts' = [opts EXCEPT !.regaddr = Client!Uint16(g.given[1]),
                               !.numregs = Client!Uint16(g.given[2]), !.action = o]
      BY <1>7, <2>2, <2>5 DEF Client!Set, Actions
    <3>2. /\ opts' = [uart |-> opts'.uart, addr |-> opts'.addr, regaddr |-> opts'.regaddr,
                      regval |-> opts'.regval, numregs |-> opts'.numregs,
                      action |-> opts'.action]
          /\ opts'.uart = opts.uart /\ opts'.addr = opts.addr /\ opts'.action = o
          /\ opts'.regaddr = Client!Uint16(g.given[1])
          /\ opts'.numregs = Client!Uint16(g.given[2])
      BY <3>1 DEF Read
    <3>3. /\ opts.uart = IF Given({"-d"}, k) = {} THEN -1 ELSE LastOf({"-d"}, k).given[1]
          /\ opts.addr = IF Given({"-a"}, k) = {} THEN -1 ELSE LastOf({"-a"}, k).given[1]
      BY DEF Read
    <3>4. /\ Given(Actions, k + 1)' # {} /\ LastOf(Actions, k + 1)' = g
          /\ Given({"-d"}, k + 1)' = Given({"-d"}, k) /\ LastOf({"-d"}, k + 1)' = LastOf({"-d"}, k)
          /\ Given({"-a"}, k + 1)' = Given({"-a"}, k) /\ LastOf({"-a"}, k + 1)' = LastOf({"-a"}, k)
      BY <1>1, <1>2, <1>7, <2>3
    <3> QED
      BY <2>5, <3>2, <3>3, <3>4 DEF Read
  <2> QED
    BY <2>4, <2>5
<1> QED
  BY <1>3, <1>4, <1>5, <1>6, <1>7

(* One turn of the loop, for a command line with fewer than two mistakes.        *)
LEMMA Turns ==
  ASSUME ClientInv, mPc = "options", Few, Client!ParseOption
  PROVE  \/ mPc' = "done" /\ exit' # "0"
         \/ UNCHANGED <<mPc, command, called, printed, exit>> /\ (Doomed' \/ Standing')
<1> DEFINE n == Len(command)
           start == Starts(command)
           argv == Client!argv
           o == argv[ix].text
           a == Client!Arity(o)
<1>1. command \in Seq(Option) /\ n \in Nat /\ DOMAIN command = 1..n
  BY DEF ClientInv
<1>2. Laid(command, start)
  BY <1>1, StartsRight
<1>3. /\ start \in [1..n + 1 -> Nat \ {0}]
      /\ start[1] = 1 /\ argv \in Seq(Arguments) /\ Len(argv) = start[n + 1] - 1
      /\ \A k \in 1..n :
           /\ start[k + 1] = start[k] + 1 + Len(command[k].given)
           /\ start[k + 1] <= start[n + 1]
           /\ argv[start[k]] = Client!Argument(command[k].option, 0)
           /\ \A j \in 1..Len(command[k].given) :
                argv[start[k] + j] = Client!Argument(Client!NoNumber, command[k].given[j])
  BY <1>2 DEF Laid, Client!argv
<1>4. DOMAIN argv = 1..Len(argv) /\ Len(argv) \in Nat
  BY <1>3
<1> HIDE DEF argv, start, n
<1>5. ix \in DOMAIN argv
  BY DEF Client!ParseOption, argv
<1>6. CASE ~(a > 0 /\ ix + a <= Len(argv))
  BY <1>6 DEF Client!ParseOption, Client!Exit, argv
<1>7. CASE /\ a > 0 /\ ix + a <= Len(argv)
           /\ ix' = ix + a + 1 /\ opts' = Client!Set(o)
           /\ UNCHANGED <<mPc, command, called, printed, exit>>
  <2>1. ~Doomed
    BY <1>7 DEF Doomed, Client!Arity, Client!NoNumber, argv
  <2>2. PICK k \in 1..n + 1 : ix = start[k] /\ Whole(k) /\ Read(k)
    BY <2>1 DEF ClientInv, Standing, start, n
  <2>3. k \in 1..n
    <3>1. k # n + 1
      BY <1>1, <1>3, <1>4, <1>5, <2>2
    <3> QED
      BY <1>1, <3>1
  <2> DEFINE g == command[k]
             m == Len(g.given)
  <2>4. g \in Option /\ m \in Nat /\ \A j \in 1..m : g.given[j] \in Int
    BY <1>1, <2>3, OptionIs DEF n
  <2>5. /\ o = g.option /\ start[k + 1] = start[k] + 1 + m
        /\ \A j \in 1..m : argv[start[k] + j] = Client!Argument(Client!NoNumber, g.given[j])
    <3>1. argv[ix] = Client!Argument(g.option, 0)
      BY <1>3, <2>2, <2>3
    <3>2. o = g.option
      BY <3>1 DEF Client!Argument
    <3> QED
      BY <1>3, <2>2, <2>3, <3>2
  <2>6. a \in 1..2 /\ a = Client!Arity(g.option)
    BY <1>7, <2>5, Arities
  <2>7. start[k] \in Nat \ {0} /\ start[k + 1] \in Nat \ {0} /\ k + 1 \in 1..n + 1
    BY <1>1, <1>3, <2>3
  <2>8. argv' = argv /\ start' = start /\ n' = n
    BY <1>7 DEF argv, start, n, Client!argv
  <2> HIDE DEF g, m, o, a
  <2>9. CASE m = a
    <3>1. ix' = start'[k + 1]
      BY <1>7, <2>2, <2>5, <2>6, <2>7, <2>8, <2>9
    <3>2. \A j \in 0..2 : ~Client!IsMistake(k, j)
      BY <2>4, <2>6, <2>9 DEF Client!IsMistake, g, m
    <3>3. Whole(k + 1)'
      <4>1. \A i \in 1..(k + 1) - 1 : i \in 1..k - 1 \/ i = k
        BY <2>3
      <4>2. Whole(k + 1)
        BY <2>2, <3>2, <4>1 DEF Whole
      <4> QED
        BY <1>7, <4>2 DEF Whole, Client!IsMistake
    <3>4. \A j \in 1..Client!Arity(o) : Client!Operand(j) = g.given[j]
      <4> SUFFICES ASSUME NEW j \in 1..Client!Arity(o) PROVE Client!Operand(j) = g.given[j]
        OBVIOUS
      <4>1. argv[ix + j] = Client!Argument(Client!NoNumber, g.given[j])
        BY <2>2, <2>5, <2>6, <2>9
      <4>2. argv[ix + j].atoi = g.given[j]
        BY <4>1 DEF Client!Argument
      <4> QED
        BY <4>2 DEF Client!Operand, argv
    <3>5. Read(k + 1)'
      <4>1. k \in Nat \ {0} /\ Client!Arity(o) > 0 /\ o = g.option /\ g = command[k]
        BY <1>1, <2>3, <2>5, <2>6 DEF g
      <4>2. opts' = Client!Set(o) /\ command' = command
        BY <1>7
      <4> QED
        BY <2>2, <3>4, <4>1, <4>2, ReadsOne
    <3>6. k + 1 \in 1..n' + 1
      BY <2>7, <2>8
    <3> QED
      BY <1>7, <3>1, <3>3, <3>5, <3>6 DEF Standing, start, n
  <2>10. CASE m > a
    <3>1. a + 1 \in 1..m /\ ix' = start[k] + (a + 1)
      BY <1>7, <2>2, <2>4, <2>6, <2>7, <2>10
    <3>2. argv'[ix'].text = Client!NoNumber
      <4>1. argv'[ix'] = Client!Argument(Client!NoNumber, g.given[a + 1])
        BY <2>5, <2>8, <3>1
      <4> QED
        BY <4>1 DEF Client!Argument
    <3>3. ix' \in DOMAIN argv'
      <4>1. start[k + 1] <= Len(argv) + 1
        BY <1>3, <1>4, <2>3, <2>7, <1>1
      <4> QED
        <5>1. \A x, y, z, u \in Nat : \A v :
                x # 0 /\ y + 1 \in 1..z /\ v = x + 1 + z /\ v <= u + 1 => x + (y + 1) \in 1..u
          OBVIOUS
        <5>2. start[k] \in Nat /\ start[k] # 0 /\ a \in Nat /\ a + 1 \in 1..m
          BY <2>6, <2>7, <3>1
        <5>3. start[k] + (a + 1) \in 1..Len(argv)
          BY ONLY <1>4, <2>4, <2>5, <4>1, <5>1, <5>2, Zenon
        <5> QED
          BY ONLY <1>4, <2>8, <3>1, <5>3, Zenon
    <3> QED
      BY <1>7, <3>2, <3>3 DEF Doomed, argv
  <2>11. CASE m < a
    <3>1. m + 1 = a
      <4> SUFFICES ASSUME m + 1 # a PROVE FALSE
        OBVIOUS
      <4>1. m = 0 /\ a = 2
        BY <2>4, <2>6, <2>11
      <4>2. Client!IsMistake(k, 1) /\ Client!IsMistake(k, 2) /\ 1 \in 0..2 /\ 2 \in 0..2
        BY <2>6, <4>1 DEF Client!IsMistake, g, m
      <4>3. 1 = 2
        BY <1>1, <2>3, <4>2, OneMistake DEF n
      <4> QED
        BY <4>3
    <3>2. Client!IsMistake(k, a) /\ a \in 0..2 /\ a # 0
      BY <2>4, <2>6, <2>11, <3>1 DEF Client!IsMistake, g, m
    <3>3. ix' = start[k + 1] + 1 /\ ix + a = start[k + 1]
      <4>1. start[k] \in Int /\ m \in Int /\ a \in Int /\ start[k + 1] \in Int
        BY <2>4, <2>6, <2>7
      <4>2. start[k] + a = start[k + 1]
        <5>1. start[k + 1] = start[k] + 1 + m
          BY <2>5
        <5> QED
          BY ONLY <3>1, <4>1, <5>1
      <4>3. ix + a = start[k + 1]
        BY ONLY <2>2, <4>2, Zenon
      <4>4. ix' = (ix + a) + 1
        BY <1>7
      <4> QED
        BY ONLY <4>3, <4>4, Zenon
    <3>4. k + 1 \in 1..n
      <4>1. k + 1 # n + 1
        BY <1>3, <1>4, <1>7, <2>7, <3>3, <1>1
      <4> QED
        BY <1>1, <2>3, <4>1
    <3> DEFINE h == command[k + 1]
               l == Len(h.given)
    <3>5. h \in Option /\ l \in Nat
      BY <1>1, <3>4, OptionIs DEF n
    <3>6. \A j \in 0..2 : ~Client!IsMistake(k + 1, j)
      <4> SUFFICES ASSUME NEW j \in 0..2, Client!IsMistake(k + 1, j) PROVE FALSE
        OBVIOUS
      <4>1. k = k + 1
        BY <1>1, <2>3, <3>2, <3>4, OneMistake DEF n
      <4> QED
        BY <2>3, <4>1
    <3>7. l = Client!Arity(h.option) /\ l > 0
      <4>1. ~Client!IsMistake(k + 1, 0) /\ ~Client!IsMistake(k + 1, 1)
            /\ ~Client!IsMistake(k + 1, 2)
        BY <3>6
      <4> QED
        BY <3>5, <4>1, Arities DEF Client!IsMistake
    <3>8. argv[start[k + 1] + 1] = Client!Argument(Client!NoNumber, h.given[1])
          /\ start[(k + 1) + 1] = start[k + 1] + 1 + l /\ start[(k + 1) + 1] <= start[n + 1]
      <4>1. 1 \in 1..l
        BY <3>5, <3>7
      <4> QED
        BY <1>3, <3>4, <4>1
    <3>9. argv'[ix'].text = Client!NoNumber
      BY <2>8, <3>3, <3>8 DEF Client!Argument
    <3>10. ix' \in DOMAIN argv'
      <4>1. start[k + 1] + 1 + l <= Len(argv) + 1
        <5>1. start[n + 1] \in Nat /\ start[n + 1] = Len(argv) + 1
          BY <1>1, <1>3, <1>4
        <5> QED
          BY <3>8, <5>1
      <4> HIDE DEF l, h
      <4> QED
        BY <1>4, <2>7, <2>8, <3>3, <3>5, <3>7, <4>1
    <3> QED
      BY <1>7, <3>9, <3>10 DEF Doomed, argv
  <2> QED
    BY <2>4, <2>6, <2>9, <2>10, <2>11
<1>8. a \in Nat /\ ix \in Nat
  BY <1>4, <1>5, Arities
<1> QED
  <2>1. SUFFICES ASSUME a > 0 /\ ix + a <= Len(argv)
        PROVE  /\ ix' = ix + a + 1 /\ opts' = Client!Set(o)
               /\ UNCHANGED <<mPc, command, called, printed, exit>>
    BY <1>6, <1>7
  <2>2. ~(a = 0) /\ ~(ix + a > Len(argv))
    BY <1>4, <1>8, <2>1
  <2> QED
    BY <2>2 DEF Client!ParseOption, argv

(* All options are read: the last of each kind are the last of the command line. *)
LEMMA AllGiven ==
  ASSUME NEW os, command \in Seq(Option)
  PROVE  LastOf(os, Len(command) + 1) = Client!Last_(os)
<1>1. Len(command) \in Nat /\ DOMAIN command = 1..Len(command)
  OBVIOUS
<1>2. (Len(command) + 1) - 1 = Len(command)
  BY <1>1
<1>3. Given(os, Len(command) + 1) = {k \in DOMAIN command : command[k].option \in os}
  BY <1>1, <1>2 DEF Given
<1> QED
  BY <1>3 DEF LastOf, Client!Last_

LEMMA NoMistakes ==
  ASSUME command \in Seq(Option), Whole(Len(command) + 1) PROVE Client!Mistakes = {}
<1>1. Len(command) \in Nat /\ DOMAIN command = 1..Len(command)
  OBVIOUS
<1>2. \A i \in 1..Len(command) : i \in 1..(Len(command) + 1) - 1
  BY <1>1
<1> QED
  BY <1>1, <1>2 DEF Client!Mistakes, Whole

LEMMA ManyMistakes == ~Few => Client!ExitTellsTruth
<1>1. Client!Cardinality(Client!Mistakes) = Cardinality(Client!Mistakes)
  BY DEF Client!Cardinality, Cardinality
<1> QED
  BY <1>1 DEF Few, Client!ExitTellsTruth

LEMMA Succeeds == ClientInv /\ Client!CallSucceeds => ClientInv'
<1> SUFFICES ASSUME ClientInv, Client!CallSucceeds PROVE ClientInv'
  OBVIOUS
<1> DEFINE n == Len(command)
           g == Client!Last_(Actions)
<1>1. /\ mPc = "call" /\ mPc' = "done" /\ opts.action # "none"
      /\ UNCHANGED <<command, ix, opts>>
  BY DEF Client!CallSucceeds
<1>2. command \in Seq(Option) /\ called = <<>> /\ printed = {}
  BY <1>1 DEF ClientInv
<1>3. UNCHANGED <<Client!Mistakes, Few>>
  BY <1>1 DEF Client!Mistakes, Client!IsMistake, Few
<1>4. ASSUME Few PROVE Client!ExitTellsTruth'
  <2>1. Whole(n + 1) /\ Read(n + 1) /\ opts.uart # -1 /\ opts.addr # -1
    BY <1>1, <1>4 DEF ClientInv
  <2>2. Client!Mistakes = {}
    BY <1>2, <2>1, NoMistakes
  <2>3. \A os : LastOf(os, n + 1) = Client!Last_(os)
    BY <1>2, AllGiven
  <2>4. /\ opts.uart = Client!Last_({"-d"}).given[1] /\ opts.addr = Client!Last_({"-a"}).given[1]
        /\ opts.action = g.option /\ opts.regaddr = Client!Uint16(g.given[1])
        /\ (IF opts.action = "-wr" THEN opts.regval ELSE opts.numregs) = Client!Uint16(g.given[2])
    BY <1>1, <2>1, <2>3 DEF Read
  <2>5. PICK regs : /\ called' = Append(called, [Client!Asked EXCEPT !.arg = <<@, regs>>])
                    /\ Client!Fits => printed' = printed \cup Client!Printed(regs)
    <3>1. PICK regs : /\ called' = Append(called, [Client!Asked EXCEPT !.arg = <<@, regs>>])
                      /\ IF Client!Fits THEN Client!PrintsAll(regs) ELSE Client!Overflows
      BY DEF Client!CallSucceeds
    <3> QED
      BY <3>1 DEF Client!PrintsAll
  <2> DEFINE c == [Client!Asked EXCEPT !.arg = <<@, regs>>]
  <2>6. /\ c.to = <<opts.uart, opts.addr>> /\ c.action = opts.action /\ c.reg = opts.regaddr
        /\ c.arg = <<IF opts.action = "-wr" THEN opts.regval ELSE opts.numregs, regs>>
    BY DEF Client!Asked
  <2> HIDE DEF c, g
  <2>7. called' = <<c>>
    BY <1>2, <2>5 DEF c
  <2>8. Len(called') = 1 /\ called'[1] = c
    BY <2>7
  <2>9. c.action = "-wr" \/ c.arg[1] <= Room =>
          printed' = {<<c.reg + k, c.arg[2][k]>> : k \in DOMAIN c.arg[2]}
    <3>1. c.action = "-wr" \/ c.arg[1] <= Room => Client!Fits
      BY <2>6 DEF Client!Fits
    <3> QED
      BY <1>2, <2>5, <2>6, <3>1 DEF Client!Printed
  <2>10. c.arg[1] = Client!Uint16(g.given[2])
    BY <2>4, <2>6
  <2>11. Client!Last_({"-d"})' = Client!Last_({"-d"}) /\ Client!Last_({"-a"})' = Client!Last_({"-a"})
         /\ Client!Last_(Actions)' = g
    BY <1>1 DEF Client!Last_, g
  <2>12. /\ called'[1].to = <<Client!Last_({"-d"})'.given[1], Client!Last_({"-a"})'.given[1]>>
         /\ called'[1].action = Client!Last_(Actions)'.option
         /\ called'[1].reg = Client!Last_(Actions)'.given[1] % 65536
         /\ called'[1].arg[1] = Client!Last_(Actions)'.given[2] % 65536
         /\ called'[1].action = "-wr" \/ called'[1].arg[1] <= Room =>
              printed' = {<<called'[1].reg + k, called'[1].arg[2][k]>> : k \in DOMAIN called'[1].arg[2]}
    <3>1. \A x, y : y = Client!Uint16(x) => y = x % 65536
      BY DEF Client!Uint16
    <3>2. called'[1].to = <<Client!Last_({"-d"})'.given[1], Client!Last_({"-a"})'.given[1]>>
      BY <2>4, <2>6, <2>8, <2>11, Zenon
    <3>3. called'[1].action = Client!Last_(Actions)'.option
      BY <2>4, <2>6, <2>8, <2>11, Zenon
    <3>4. called'[1].reg = Client!Last_(Actions)'.given[1] % 65536
      <4>1. called'[1].reg = Client!Uint16(Client!Last_(Actions)'.given[1])
        BY <2>4, <2>6, <2>8, <2>11, Zenon
      <4> QED
        BY ONLY <3>1, <4>1
    <3>5. called'[1].arg[1] = Client!Last_(Actions)'.given[2] % 65536
      <4>1. called'[1].arg[1] = Client!Uint16(Client!Last_(Actions)'.given[2])
        BY <2>8, <2>10, <2>11, Zenon
      <4> QED
        BY ONLY <3>1, <4>1
    <3>6. called'[1].action = "-wr" \/ called'[1].arg[1] <= Room =>
            printed' = {<<called'[1].reg + k, called'[1].arg[2][k]>> : k \in DOMAIN called'[1].arg[2]}
      BY <2>8, <2>9, Zenon
    <3> QED
      BY <3>2, <3>3, <3>4, <3>5, <3>6
  <2> QED
    BY <1>3, <2>2, <2>8, <2>12 DEF Client!ExitTellsTruth, Actions
<1>5. ASSUME ~Few PROVE Client!ExitTellsTruth'
  <2>1. Few' = Few
    BY <1>3
  <2>2. ~Few'
    BY <1>5, <2>1
  <2> QED
    BY <2>2, ManyMistakes, PTL
<1> QED
  BY <1>1, <1>2, <1>4, <1>5 DEF ClientInv

LEMMA ClientInit == Client!Init => ClientInv
<1> SUFFICES ASSUME Client!Init PROVE ClientInv
  OBVIOUS
<1>1. /\ command \in Seq(Option) /\ mPc = "options" /\ ix = 1 /\ called = <<>> /\ printed = {}
      /\ exit = "none"
      /\ opts = [uart |-> -1, addr |-> -1, regaddr |-> 0, regval |-> 0, numregs |-> 0,
                 action |-> "none"]
  BY CommandsAre DEF Client!Init
<1>2. Len(command) \in Nat /\ 1 \in 1..Len(command) + 1
  BY <1>1
<1>3. Starts(command)[1] = 1
  BY <1>1, StartsRight DEF Laid
<1>4. Whole(1) /\ \A os : Given(os, 1) = {}
  BY DEF Whole, Given
<1>5. Read(1)
  BY <1>1, <1>4 DEF Read
<1>6. Standing
  BY <1>1, <1>2, <1>3, <1>4, <1>5 DEF Standing
<1> QED
  BY <1>1, <1>6 DEF ClientInv, Client!ExitTellsTruth

LEMMA ClientNext == ClientInv /\ (Client!Next \/ UNCHANGED clientVars) => ClientInv'
<1> SUFFICES ASSUME ClientInv, Client!Next \/ UNCHANGED clientVars PROVE ClientInv'
  OBVIOUS
<1> DEFINE n == Len(command)
<1>1. command \in Seq(Option) /\ n \in Nat
  BY DEF ClientInv
(* Any end but with 0.                                                           *)
<1>2. ASSUME mPc' = "done", exit' # "0", command' = command PROVE ClientInv'
  BY <1>1, <1>2 DEF ClientInv, Client!ExitTellsTruth
<1>3. ASSUME command' = command
      PROVE  /\ Few' = Few /\ Whole(n + 1)' = Whole(n + 1)
             /\ opts' = opts => Read(n + 1)' = Read(n + 1)
  BY <1>3 DEF Few, Client!Mistakes, Client!IsMistake, Whole, Read, Given, LastOf
<1>4. CASE Client!usage
  BY <1>2, <1>4 DEF Client!usage, Client!Exit
<1>5. CASE Client!CallFails
  BY <1>2, <1>5 DEF Client!CallFails, Client!Exit
<1>6. CASE Client!ParseOption
  <2>1. mPc = "options"
    BY <1>6 DEF Client!ParseOption
  <2>2. \/ mPc' = "done" /\ exit' # "0" /\ command' = command
        \/ UNCHANGED <<mPc, command, called, printed, exit>>
    BY <1>6 DEF Client!ParseOption, Client!Exit
  <2>3. CASE UNCHANGED <<mPc, command, called, printed, exit>> /\ mPc' # "done"
    <3>1. exit' = "none" /\ called' = <<>> /\ printed' = {}
      BY <2>1, <2>3 DEF ClientInv
    <3>2. Few' => Doomed' \/ Standing'
      BY <1>3, <1>6, <2>1, <2>3, Turns
    <3> QED
      BY <1>1, <2>1, <2>3, <3>1, <3>2 DEF ClientInv, Client!ExitTellsTruth
  <2> QED
    BY <1>2, <2>1, <2>2, <2>3
<1>7. CASE Client!modbus_rtu_init
  <2>1. /\ mPc = "options" /\ Client!argv # <<>> /\ ix > Len(Client!argv) /\ command' = command
        /\ \/ mPc' = "done" /\ exit' # "0"
           \/ /\ opts.uart # -1 /\ opts.addr # -1
              /\ mPc' = "call" /\ UNCHANGED <<command, opts, called, printed, exit>>
    BY <1>7 DEF Client!modbus_rtu_init, Client!Exit
  <2>2. CASE /\ opts.uart # -1 /\ opts.addr # -1
             /\ mPc' = "call" /\ UNCHANGED <<command, opts, called, printed, exit>>
    <3>1. exit' = "none" /\ called' = <<>> /\ printed' = {}
      BY <2>1, <2>2 DEF ClientInv
    <3>2. ASSUME Few PROVE Whole(n + 1) /\ Read(n + 1)
      <4>1. Laid(command, Starts(command))
        BY <1>1, StartsRight
      <4> DEFINE start == Starts(command)
                 argv == Client!argv
      <4>2. /\ start \in [1..n + 1 -> Nat \ {0}] /\ argv \in Seq(Arguments)
            /\ Len(argv) = start[n + 1] - 1
            /\ \A k \in 1..n : /\ start[k + 1] = start[k] + 1 + Len(command[k].given)
                               /\ start[k + 1] <= start[n + 1]
        BY <4>1 DEF Laid, Client!argv
      <4>3. DOMAIN argv = 1..Len(argv) /\ Len(argv) \in Nat /\ ix > Len(argv)
        BY <2>1, <4>2
      <4>4. ~Doomed
        <5>1. ASSUME ix \in DOMAIN argv PROVE FALSE
          BY <4>3, <5>1
        <5> QED
          BY <5>1 DEF Doomed
      <4>5. PICK k \in 1..n + 1 : ix = start[k] /\ Whole(k) /\ Read(k)
        BY <2>1, <3>2, <4>4 DEF ClientInv, Standing
      <4> HIDE DEF start, argv, n
      <4>6. k = n + 1
        <5> SUFFICES ASSUME k # n + 1 PROVE FALSE
          OBVIOUS
        <5>1. k \in 1..n /\ k + 1 \in 1..n + 1
          BY <1>1
        <5>2. Len(command[k].given) \in Nat
          BY <1>1, <5>1, OptionIs DEF n
        <5>3. start[k] \in Nat /\ start[k + 1] \in Nat /\ start[n + 1] \in Nat
          BY <1>1, <4>2, <5>1
        <5>4. start[k + 1] = start[k] + 1 + Len(command[k].given) /\ start[k + 1] <= start[n + 1]
          BY <4>2, <5>1
        <5> QED
          BY <4>2, <4>3, <4>5, <5>2, <5>3, <5>4
      <4> QED
        BY <4>5, <4>6
    <3> QED
      BY <1>1, <1>3, <2>2, <3>1, <3>2 DEF ClientInv, Client!ExitTellsTruth
  <2> QED
    BY <1>2, <2>1, <2>2
<1>8. CASE UNCHANGED clientVars
  <2>1. UNCHANGED <<mPc, command, ix, opts, called, printed, exit>>
    BY <1>8 DEF clientVars
  <2> QED
    <3>1. /\ UNCHANGED <<Client!argv, Client!Mistakes, Len(command)>>
          /\ \A k : Whole(k)' = Whole(k) /\ Read(k)' = Read(k)
      BY <2>1 DEF Client!argv, Client!Mistakes, Client!IsMistake, Whole, Read, Given, LastOf
    <3>2. Few' = Few
      BY <3>1 DEF Few
    <3>3. Doomed' = Doomed
      BY <2>1, <3>1 DEF Doomed
    <3>4. Standing' = Standing
      BY <2>1, <3>1 DEF Standing
    <3>5. Client!ExitTellsTruth'
      <4>1. Client!ExitTellsTruth
        BY DEF ClientInv
      <4>2. \A os : Client!Last_(os)' = Client!Last_(os)
        BY <2>1 DEF Client!Last_
      <4> QED
        BY <2>1, <3>1, <4>1, <4>2 DEF Client!ExitTellsTruth
    <3> QED
      BY <1>3, <2>1, <3>2, <3>3, <3>4, <3>5 DEF ClientInv
<1> QED
  BY <1>4, <1>5, <1>6, <1>7, <1>8, Succeeds DEF Client!Next

(* Exit status 0 of the client tells the truth, for any command line with at     *)
(* most one mistake: apps/modbusc/src/main.c.                                    *)
THEOREM ExitStaysTrue == MCSpec => [](which = "client" => Client!ExitTellsTruth)
<1> DEFINE J == which = "client" => ClientInv
<1>1. MCInit => J
  BY ClientInit DEF MCInit
<1>2. J /\ [MCNext]_<<which, vars, clientVars, fanVars, meterVars, ledVars>> => J'
  <2> SUFFICES ASSUME J, [MCNext]_<<which, vars, clientVars, fanVars, meterVars, ledVars>>,
                      which' = "client"
               PROVE  ClientInv'
    OBVIOUS
  <2>1. which = "client" /\ (Client!Next \/ UNCHANGED clientVars)
    BY DEF MCNext
  <2> QED
    BY <2>1, ClientNext
<1>3. J => (which = "client" => Client!ExitTellsTruth)
  BY DEF ClientInv
<1> HIDE DEF J
<1> QED
  BY <1>1, <1>2, <1>3, PTL DEF MCSpec

(* What the three programs tell is so: the exit status of the client, the OK of  *)
(* the fan controller and the echo of the watt meter.                            *)
THEOREM ProgramsStayTrue == MCSpec => []ProgramsTellTruth
<1>1. ProgramsTellTruth <=> /\ which = "client" => Client!ExitTellsTruth
                            /\ Fan!DutyIsAsTold
                            /\ Meter!EchoIsHeard
  BY DEF ProgramsTellTruth
<1> QED
  BY <1>1, DutyStaysAsTold, EchoStaysHeard, ExitStaysTrue, PTL
==============================================================================
