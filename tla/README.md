# Verification of homeauto

TLA+ models of the home automation projects of this repository, checked with
TLC, and theorems about them checked with TLAPS. Every definition is translated
from the source; `PROJECT.json` lists, per definition, the lines it stands for.

1. The system  2. Modules and their correspondence to the code  3. Runs
4. Fairness  5. Proofs  6. What the models showed beside the properties
7. Not modelled

## 1. The system

The repository is a set of small programs that meet on a few wires. The library
most firmware is built on (`core/`: scheduler, HAL, Modbus slave, HTTP server,
console) is not part of it; where a model needs it, it is modelled from how the
code here uses it.

| Part | State | Operations | What is hard |
|---|---|---|---|
| `apps/modbusd` modbus.c, serial.c: Modbus RTU master | the call in progress, bytes read so far, the kernel's input buffer | read coils (plain, and coil by coil for a bought board), write coil, read inputs, write register; each with up to three attempts | late, lost, damaged, cut answers; nothing but the CRC identifies an answer; the input buffer is never flushed; retries repeat writes |
| `apps/modbusd` main.c, tcp_socket.c: gateway | copy of the coils of bought boards, one TCP client | start, accept, serve a request, close | the copy must agree with the boards; byte orders; one request blocks all |
| `apps/modbus-relay8`, `apps/modbus-relay16`: relay board firmware | relays, inputs | answer a request; input edge interrupt (relay8) | interrupt against request; limits of the coil number |
| `apps/powermon`: load power control of miners | load state, delay counter, polls in flight | poll timer, SNMP answer, TCP command to a miner | polls overlap, answers come late and out of order, commands are fire and forget |
| `apps/ledcontrol`: LED dimmer with REST API | two buffers per channel, JSON element counter | REST calls, init | requests during the start, calls for all channels that fail halfway, one counter for nested JSON |
| `apps/TempSensor/cc2540`: BLE temperature beacon (temp_sensor.c, drivers, miniBLE) | tasks and their countdowns, radio, payload, temperature | sleep timer ISR, RF ISR, API, main loop | three contexts share tasks and payload; sleep protocol; a 24 bit timer that wraps |
| the same, miniBLE_dtm.c: direct test mode | command, reply, test packet | serial ISRs, RF ISR, command loop | an interrupt that triggers itself; stopping a packet on the air |
| the same, `components/utils`: ring buffer, serial port, menus, LCD functions | buffers, pointers, counts | push, pop, peek, flush with and without DMA; print; menu keys | a main program and an ISR that share pointers |
| the same, `components/targets`, `devices`: two displays, Timer 2 and sleep timer, humidity sensor, diode thermometer, flash, clocks | registers of the chip and of the devices | driver calls | shared address counters, carries between clocks, transfers that fail halfway |
| `.../android`: monitor and upload | list of devices, queue of packets | scan callback, activity life cycle, sender thread | packets posted to an activity that is gone; deduplication; failed uploads |
| `apps/TempSensor/esp8266`: WiFi sensor with HTTP client | connection, buffers, timer, what outlives deep sleep | DNS, connect, sent, received, disconnect, WiFi callbacks, timer | callbacks in any order, memory owned by a callback, one callback owed to the user |
| `apps/modbusc`: command line client of the relay boards | the options parsed so far | one call of the Modbus library | operands are taken without looking at them |
| `apps/fancontrol`: PWM of a fan | period and pulse of a timer | start, console commands | what was refused must change nothing |
| `apps/watmeter`: watt meter, as committed an echo on RS485 | direction of the line, UART buffers | receive a byte, send it back | the line must not be let go while a byte is still in the UART |
| `apps/tuyaserver`, `examples/`, `platform/` | none or nearly | one pass | see 7 |

A TCP client asks `modbusd`; it asks a relay board over a half duplex RS485 line
(`ModbusGateway` composes `ModbusRtu`). `powermon` asks an inverter by SNMP and
miners by TCP. The beacon advertises to the Android monitor, which uploads to
the same server as the ESP8266 sensor; `TempPath` follows one temperature from
the wire to the text. The other programs stand alone.

What must be true of each part:

* master: a call that returns 0 tells the truth (the answer is of the board and
  the function asked; a read is of the relays as they are; a write is done), a
  relay only changes while a call that writes it runs;
* gateway: the copy of the coils is the board's, a reply without the error bit
  has relay c in bit c, every request is answered, the start ends;
* relay firmware: what is acknowledged of a relay is done and can be read back,
  the inputs reported are the inputs as they are;
* powermon: miners are off while the load is high, and only go on after the
  delay at low load;
* beacon: no alarm is missed, no measurement is slept over or refused by the
  radio, the radio is commanded only when it is out of reset;
* direct test mode: every command gets its own answer; the air is as told;
* HTTP client: one callback per request; no memory used after it is freed, and
  none left behind by a request that sent its data; an answer of which the
  client dropped a packet is an error; the chunks of a body that came whole are
  decoded as sent;
* WiFi sensor: it gets back to sleep unless DHCP never answers, and never reads a
  conversion that is still running;
* monitor: what is shown is uploaded, none twice, and this goes on;
* client, fan controller, watt meter: exit status 0 and "OK" tell the truth; every
  byte heard is echoed once;
* byte buffers: each is a queue, whatever the ISR does between two steps;
* drivers: see the properties of the run `drivers`.

## 2. Modules and their correspondence to the code

| Module | Models |
|---|---|
| `ModbusRtu` | the master and the line: modbus.c, serial.c, and the boards' handlers |
| `RelayClient` | what the master promises its user (abstract specification) |
| `ModbusGateway` | modbusd's `main()` and tcp_socket.c over `ModbusRtu` |
| `RelayBoard` | the firmware of both relay boards: start, requests, input interrupt |
| `Modbusc`, `FanControl`, `Watmeter` | the command line client, the fan controller, the watt meter |
| `PowerMonitor` | powermon: polls, load states, commands to the miners |
| `MiniBle` | the broadcast-only BLE stack: scheduler, both interrupts, API, sleep |
| `Beacon` | main() and the sensor task of the beacon over `MiniBle` |
| `DirectTest` | the direct test mode of miniBLE |
| `ByteQueue` | what a byte buffer promises (abstract specification) |
| `RingBuf` | util_ring_buf.c between a program, an ISR and the DMA controller |
| `Uart` | util_buffer.c, three serial drivers and util_uart.c |
| `HttpClient` | the callbacks of the HTTP client and the memory they own |
| `ChunkedBody` | the decoder of chunked bodies, whole or cut |
| `EspSensor` | the WiFi sensor over `HttpClient` |
| `Monitor` | the Android activity, its posted packets and its upload thread |
| `JsonOutput` | the JSON writer of the LED dimmer |
| `LedControl` | the channels of the LED dimmer and the REST calls |
| `MenuSystem`, `Lcd`, `LcdSrf04` | LCD menus, the three-line and the two-line display |
| `TimerConstants`, `Timer2` | Timer 2, the sleep timer, and the nap that turns one into the other |
| `PowerModes` | clocks, sleep and alarm |
| `Humidity`, `DiodeTemp` | humidity sensor on the two-wire bus, sixteen diodes on ten pins |
| `TempPath` | one temperature: 1-Wire, payload, packet, telephone |
| `Flash` | the flash driver |
| `MC*` | instances for TLC; `Monitor`, `PowerMonitor` and `Beacon` are run as they are |
| `*Proofs` | theorems, checked by TLAPS |

`MCBoards`, `MCQueues`, `MCEspSensor` and `MCDrivers` each hold several machines that never
interact; a variable `which`, chosen at the start, says which one runs, and the
others keep their initial values. So one run checks them one after the other.

### ModbusRtu

The line is a stream of bytes and byte i of frame f is `<<f, i>>`; a buffer has
a good CRC iff it is the bytes of one whole undamaged frame. So a model of the
CRC is not needed, and everything serial_read can do with bytes is kept: it
asks for exactly `Expected(call)` bytes, takes what is there (`ReadSome`,
`ReadAll`), gives up after 250 ms without a byte (`ReadTimeout`, which throws
away what it read), and leaves in the kernel's buffer `rx` what it did not ask
for. `split` records that a second `read()` was needed: the code then writes
the second piece over the first, so that the CRC cannot match.

`mpc` is where the process is: `idle` (no call), `send` (about to write the
request of attempt `retry`), `read` (after the 50 ms wait). `AttemptFails` and
`AttemptSucceeds` are the loops of the five calls. The line is `pend` (requests
no board has taken), `tx` (bytes travelling back) and `rx`. Boards take
requests in order and answer at once or, with `"late"` in `Faults`, after the
master gave up; without it a `ReadTimeout` needs a quiet line. The other faults
lose requests and bytes, damage answers, make system calls fail and unplug the
adapter. `stale` is a history variable: an attempt of this call began on a line
that was not quiet. A state word is the set of its bits; of a two byte answer
the master makes the first byte the high one, while a relay16 board sends its
low byte first (`StateOf`), and the gateway swaps them back (`PayloadOf`).

### ModbusGateway

`gpc` is where `main()` is: the test loop, the one shot write of `-wr`, the
reads of the initial coils, the wait for a client, the wait for a request, a
call of the master, or the end. A request is what one `recv()` leaves in the
buffer. `conn` is the client: its close, the reset that its kernel sends for
the first reply after that, and the SIGPIPE of the second. `cache` is
`coils_state` of each server given by `-a`. `doubt` is history: the coils whose
last write was answered with an error, for which nothing can be promised,
because the copy changes before the board is asked and is not put back.

### RelayBoard

One module stands for both boards: relay16 is the instance with 16 relays and
no inputs, which the theorems cover and no run repeats. `booted` counts the
interrupt handlers that `main()` has registered; the main loop runs when all
are. A request is one step, because nothing it touches changes while it runs;
the interrupt is one step per pin it reads (`IsrBegin`, `IsrRead`), because the
pins go on changing meanwhile (`Edge`). An edge that comes during the scan makes
the interrupt pend again; on this rests `InputsFresh`. `level` is the pins,
`sampled` and `acked` are history. relay8 accepts one coil too many (`MaxCoil` 8
for relays 0 to 7) and `board.h` makes GPIO 8 an input: such a write is
acknowledged, is not in `relays_state`, and puts a level on a pin of which only
the input is ever read. `AckedIsDone` says that of it, and of the relays that no
write of another coil, this one included, disturbs them.

### Modbusc, FanControl, Watmeter

A command line of `Modbusc` is what its user means, a sequence of options with
their operands; `argv` is what the loop sees of it, texts with the number `atoi`
makes of each. The Modbus library of the platform is external: a call fails or
answers with any values. They go into `regs[255]` (`Room`) although the user may
ask for any 16 bit number of them: a longer answer is printed as anything, or
ends in a crash (`Overflows`), and the property promises nothing for it.
`FanControl` keeps the timer as the driver is asked to set it and, as history,
the duty `told` by the last OK; the console that cuts a line into words is
external. `Watmeter` is the loop of `main()`, one step per call of the UART
driver, beside the UART that sends at its own pace and the line that loses what
nobody drives or hears; `heard` and `line` are history.

### PowerMonitor

A poll is in `asked` until the device reads its load, then in `answers` by what
it says, until it is processed or ends in an error (`PollFails`); polls have no
identity, so they are counted and taken in any order. The load is below the low
limit, above the high one or between: nothing else is compared. Each case of
`processLoadPower` is an action (`Keep`, `Disable`, `StartDelay`, `Wait`,
`Enable`, `Abandon`). It is one step although it awaits: what it awaits does no
I/O, and Node runs no other callback before such a continuation. `commands` are
the TCP connections to each miner in the order they were opened; any of them
can end next, in the miner obeying or in an error. `missed`, `ticks` and
`before` are history.

### MiniBle and Beacon

Time is the sleep timer (`now`, modulo `N`), whose compare value can be missed
when it is loaded less than `MinLoad` ticks ahead. The interrupt of the sleep
timer (`SleepIsr`) counts every task down by the time since the last one, with
the code's asymmetry (the start sets `wakeup` but not `wakeupOld`); `RfIsr` goes
from channel to channel. The main context's sleep is split where an interrupt
can come in between (`mode`, `waitTx`, `waitIdle`, `reset`, `sleep`, `asleep`,
`woken`). A pending, enabled interrupt pre-empts the main context. `spoilt` is
history: an interrupt struck while the 1-Wire slots of this transfer were timed.

The constants keep the order of the code's intervals on a small scale:
`MinLoad` 1 < margin 2 < `Guard` 3 <= delays {3, 4} < `Initial` 5 < `Read` 11 <
`Adv` 21 < `Measure` 40 < `N` 48. So a measurement comes every second
advertisement, and the timer wraps after two of them. `ScaleAssumption` says
what the code's intervals are long enough for, in terms of `Late` (an interrupt
waits), `Work` (the main context runs between two sleeps) and `Air` (an
advertising event); with 10 ms, 200 ms, 10 s, a minute and the timer's 8.5
minutes, against less than 8 ms for `Late`, 6.5 ms of 1-Wire slots for `Work` and
a few ms for `Air`, each part of it holds. `LateBy` is what the code computes
for its lateness, with its wrong branch after a wrap (`lateness`).

### DirectTest

An interrupt handler is one step; a step of the main loop ends where what it did
can be seen by a handler. The PRBS9 table is compared bit by bit with its
polynomial. Assumed, as the module says: an idle transmitter takes a byte at
once, the radio's handler runs within a timer event, and the main loop is not
held up for three byte times before it re-arms reception.

### RingBuf and Uart

A step is a critical section (`halIntLock` .. `halIntUnlock`) or the accesses to
one shared variable outside of one, so that an ISR can come in at every point
the code allows. In `RingBuf` a slot is its distance from `start` and a byte its
number; one of program and ISR pushes, the other pops; the DMA controller copies
a byte in a step. `DmaLate` allows the last transfer to outlive its call: the run
has FALSE (the transfer ends within the instructions that follow, as the chip's
timing has it), the theorem covers both. `Uart` runs one of three drivers
(`driver`), and one direction at a time, for the two share no variable.

### HttpClient, EspSensor, ChunkedBody

A request is the blocks it owns (`ptr`: null, live or freed), the state of its
answer buffer and the calls it made. Callbacks do not interrupt one another; the
order in which the SDK may call them is external, modelled from what the code
registers. Memory may run out where the code looks: for a buffer that grows, and
for each of the four strings, where `esp_strdup` gives NULL and the request goes
on; `connect_callback` then takes the length of a NULL string, or sends a GET for
a POST. What C leaves undefined takes the chip down (`Crash`) or goes on. There is
one request, because requests share only the chip. `copied` and `reached` are
history.

What a user is told (`StatusOf`) is what the code makes of the buffer: an error,
an answer, a part of one (`part`: the connection ended in the body) or a pointer
to no string (`wild`: in the header). `AnswerIsTold` therefore promises only one
call, never with an answer of which the client itself dropped a packet.

`ChunkedBody` decodes byte by byte with the code's `esp_strtol`, whose `long` is
scaled to 255. What was received is a prefix of what the server sent, cut at any
byte, since `disconnect_callback` decodes whatever there is (its FIXME). A cut
inside a chunk makes the decoder leave its buffers (`wild`), after the chunks that
came whole; `DecodesBody` says so in both directions.

In `MCEspSensor` the client runs under the sensor, and by itself for a user who
asks for anything at any time, beside a sensor nobody has set up.

`EspSensor` has the WiFi callbacks, smart configuration, the measurement timer,
the watchdog and what outlives deep sleep (flash, RTC memory, which is junk after
power-on). An exception in the client resets the chip, as the watchdog does.

### Monitor

Each activity has its life, its scan, its list and its thread; `posted` is the
UI thread's queue of packets, which outlive the activity that posted them. A
packet is its device and sequence number. Nobody turns Bluetooth off in the
middle of a behaviour (`bluetooth` is chosen at the start) or interrupts the
thread. The properties are for one beacon among strangers: with several, the one
remembered number does repeat uploads, as the code's comparison shows.

### JsonOutput and LedControl

`JsonOutput` keeps, beside the code's one counter `element_count`, the number of
elements of each object that is open (history `siblings`). `LedControl` has both
buffers of each strip (`back`, `front`), what clients were told was set
(`staged`) and shown (`shown`); handlers run one at a time, requests may come
during `ledctl_init`. The strip driver and the HTTP server are external. A colour
told is a red, a green and a blue number, a pixel the three bytes handed to
`led_strip_set_pixel_rgb`: ledctl.c hands over red, blue, green, everywhere
(`RedBlueGreen`). The driver is not in the repository, so whether that makes up
for the order of a strip or shows blue for green is not known here.

### The drivers

Calls of a driver are made by one thread and end before the next begins, so a
call is one action where nothing comes in between (`Lcd`, `MenuSystem`,
`Timer2`), and a step per pin, byte or register where the device answers
meanwhile (`LcdSrf04`, `Humidity`, `DiodeTemp`, `TempPath`, `Flash`,
`PowerModes`). The devices are external, modelled as their drivers and their
protocols use them: a display with one address counter for three memories, a
two-wire chip that may be busy, a sensor that measures in time only at the lower
resolution, a flash whose writes only clear bits. What the application owes is
said in each module: menus without a circle that start on an enabled item, a
base period of 1 ms and naps below 2^21 - 32 ticks, a timer and its interrupt set
before each sleep. `HalFlashWritePage` takes a byte address of sixteen bits, so
that of the 128 pages of the chip it can name the first 32 (`NamedPages`); a higher
address is cut (`Uint16`), and another page is erased and written.

In `PowerModes` the sleep timer counts in every power mode; the chip's stops in
PM3, which the firmware does not use.

## 3. Runs

| Run | Shows | Bounds |
|---|---|---|
| `late` | with late answers, I/O errors, unplugging and a read of fewer coils than a board has: a call is right if all of its attempts began on a quiet line | three calls, an eight byte input buffer that overflows, answers in pieces of 8 |
| `pieces` | finding: an undamaged answer in two pieces is refused | no faults |
| `serve` | the gateway's copy and replies are the relays, no attempt starts on old bytes, `RelayClient` is implemented, every request is answered, the start ends | a relay16, a relay8 and a bought board, seven requests, two of which nobody can serve; a line that loses and damages; pieces of 3 |
| `boards` | the inputs a relay board reports are the pins, once scanned with nothing pending; its acknowledged writes are done and read back, for coil 8 only done; the client's exit status, the fan controller's OK and the watt meter's echo tell the truth; what the LED dimmer acknowledged is on the strip, green and blue exchanged, its commas are right | three inputs: before, at and after the one being read; the first and last relay, coil 8 and one that is refused; command lines of up to four options, whole and cut, reads of up to one register more than there is room for; duties around every change of the arithmetic; four bytes of two kinds; channels of one and two pixels, black and a colour of three different numbers, two of them no bytes; documents of two levels |
| `load` | the wait at low load is shortened only by polls under way when it began; a miner is in the state believed unless it missed the latest command; a load that stays low (high) gets the miners on (off) for good | three polls, a wait of three cycles, two commands under way |
| `beacon` | no alarm is missed, no measurement slept over, every payload taken, the radio commanded only when ready, and it goes on for ever | the scale above: several wraps of the timer |
| `lateness` | finding: after a wrap of the timer an interrupt takes the time since the last one for its lateness | as `beacon` |
| `dtm` | every command gets its own answer, the air is as told | ten commands: each kind, the longest and the shortest packet, each payload, one bad parameter of each kind |
| `queues` | the ring's pointers agree with its count; the ring and both serial buffers are queues; what is accepted is sent | three slots, four bytes a call, seven bytes; buffers of four with twelve bytes out and five in |
| `sensor` | a request ends in one call of its user, touches no freed memory and leaves behind what its way of ending leaves; a dropped packet is an error; of a chunked body the chunks that came whole are decoded; no conversion is read before it is done; the sensor sleeps again | a client of the sensor and one of any user, any callbacks, any of the strings copied; a buffer of three, three packets of one and two; bodies of two chunks of 1 to 29 bytes that hold ends of lines, digits and a last chunk, cut at every byte; a conversion of two ticks, a timer of three |
| `monitor` | what is shown is uploaded, once, and goes on | two activities, a beacon with two numbers, a stranger, two posted packets |
| `drivers` | menus lead where they should, both displays show what was asked, two clocks agree after a nap, alarms come in time, what sensors gave is read, told and shown, flash holds what was written | three menus of up to five screens; two calls of the display; three calls of the timers; two measurements; two pages in two banks |

Why the bounds are enough. Answers are cut into pieces of 3 and 8 bytes where
cutting matters: 8 is a whole answer, 3 splits every answer and makes the last
read of one cross into the next. Two calls are enough for what one leaves behind
for the next; the sets are larger so that answers to different requests of equal
length meet. `MaxUnderWay` (0 in all runs) bounds what is under way when a call
begins; within a call, three attempts may pile up. The miners do not know of
each other, so one stands for all. The committed delay of `powermon` is 120
cycles and up to 40 polls can be under way; with three and three old polls can
stand for all of the wait, for part of it, or for none. A ring of three slots
with calls of up to four bytes meets full, empty, both wraps and a call that
does not fit. Two activities are one and its successor; the second's successor
would meet the same state. Where calls of a driver are bounded (`Bounded` in
`MCDrivers`), every later call starts in a state an earlier one left, for each
order of two or three calls. Its timers are small but keep the proportions of the
chip (`NapAssumption`): a sleep timer of 8 ticks, which naps and alarms turn over,
16 bit words of 4 that the longest nap just does not leave, and a period of two
sleep ticks and three of Timer 2's. The flash has two banks of two pages of 16
bytes, so a page has a neighbour in its bank and in the other one; the address of
`HalFlashWritePage` reaches two of its four pages.

`CHECK_DEADLOCK FALSE` is said in `sensor`, whose decoder stops and whose chip,
when nobody set up its network, waits for ever.

One property takes several of its modules' together where they are about the
same question: `PointersAgree`, `EveryBufferIsQueue`, `WakesForEvents`, `MemoryIsRight`,
`AnswerIsTold`, `ListIsRight`, `ProgramsTellTruth`, `MenusLead`, `AlarmsInTime`,
`SensorsTellTruth`, `ShownIsMeasured`.

## 4. Fairness

* Modbus: the process, and the boards and the wire together, keep going
  (`WF` of `Master` and of `Line`). The first is a blocking process the kernel
  schedules (`select` has a timeout), the second that bytes on a wire do not
  stand still. Users and TCP clients need not do anything. `GetsToListen` holds
  of starts in which not all reads fail for ever: `main()` asks a bought board
  again without limit.
* powermon: the timer keeps ticking (`setInterval`), every connection ends (TCP
  gives up). That infinitely many polls are read and answered (`SF` of `Sample`
  and of the processing) is an assumption about the device, not about the code:
  without it nothing can be known of the load.
* Beacon, direct test mode: the processor runs, enabled interrupts are served,
  time passes, a transmission ends.
* Serial port: the main program goes on with its call, pending interrupts are
  served, the line or the USB host takes bytes.
* WiFi sensor: time passes; the SDK reports of an attempt to join that it
  succeeded or failed, and of a joined station that has an address of its own
  that it is up; the network stack ends every request (its own timeout). Nothing
  is assumed of DHCP: the code has no timer before `GOT_IP`, so a server that
  never answers keeps the node awake, and `SleepsAgain` excepts that
  (`WaitsForAddress`), as it does a node that waits for a person to configure it
  and one whose wire or memory takes it down again and again.
* monitor: the UI thread and the upload threads run; a beacon goes on measuring
  and, while scanned, is heard with each new number (`SF`): an assumption about
  the radio, without which there is nothing to upload.
* The drivers have no liveness property: their calls end by themselves.

## 5. Proofs

TLAPS checks the following for all values of the constants that satisfy the
named assumptions.

**ModbusProofs**, the master (any boards and kinds, calls, faults, ways of cutting
answers, buffer size).

* `TypeInvariant`. Besides types, a read in progress has consumed less than it
  expects, which makes `Wanted` positive.
* `SuccessRight`: `Spec => []SuccessIsRight`. It speaks of calls that returned;
  the inductive invariant `IInv` adds what is true on the way there: while an
  attempt that began on a quiet line is reading, either its request is all that
  is under way, or nothing is asked any more and every undamaged byte, consumed,
  buffered or travelling, is of an answer that fits the request (`Fits`); the
  coils gathered by a coil by coil read are right (`Collected`); a successful
  call leaves no request behind that could still switch a relay. An answer
  served fits (`ServedFits`, `AnswerAfterWrite`: a write is idempotent), cutting
  and losing bytes keeps that (`AllFitSubSeq`, `AllFitConcat`), and an accepted
  frame fits because a good CRC means one whole frame (`AcceptsWhatFits`).
* `FlushNotMissed` (`NeverStale`) and `CallsAreRight`, under `OnTime` (the line
  may lose and damage, boards keep their deadline, the device stays) and
  `AskForAll` (a read asks for as many coils as the board sends). The invariant
  `QInv`: outside of a read the line is quiet; within one there is the request
  alone, or no more bytes than are missing. An answer is no longer than what is
  read (`AnswerFits`, by cases on board and function), so nothing is left over.
  `late` shows what happens without the hypotheses.
* `MasterKeepsPromise`: under the same hypotheses and `ReadsAsMeant` (a bought
  board is read coil by coil), `Spec => ImplementsClient`. Initial states map to
  initial states; a request served maps to `Apply` (whichever retry it belongs
  to, `SameEffect`) or a stutter, the end of a call to `Fail` or `Succeed`, for
  which `Fits` of the accepted answer gives that the effect is there.

**ModbusProofs**, the gateway (any boards, servers, requests). `GatewayAssumed`: the
hypotheses above, `-a` names bought boards, clients switch with 0 and 0xFF00,
and `Calls` has the calls `main()` makes. All of it holds in `serve`.

* `StepIsStep`: a step of the gateway is a step of the master and the line, so
  that the theorems above carry over; with it `PromiseIsKept`, the refinement
  for the gateway.
* `CacheStaysBoard`: the invariant `GInv` follows a write from the moment the
  copy changes (`WriteUnderWay`: all other coils agree, this one is as asked) to
  the reply, and the reads of the start board by board (`Starting`).
* `RepliesAreRelays`, under `RelaysAssumed` (no relay is on that a board does not
  have, and `ReadsAsMeant`): a read under way is the one asked for, and both
  swaps of bytes cancel out (`SwapTwice`, `PayloadIsRelays`).

The theorems are for any set of requests, so also for those that a request cut
by TCP makes of the bytes in the buffer, as long as they switch with 0 or 0xFF00.

**BoardsProofs**, the relay board (any numbers of relays and inputs, any requests).

* `ScanIsRight`, hence `InputsAreFresh`: by induction over the scan.
  `InputsFresh` alone is not inductive, since it says nothing while the
  interrupt runs; `ScanRight` adds that the bits already read are right unless
  an edge made the interrupt pend again, and that those not yet read are clear.
* `AckedAreDone`, whatever coils the board accepts: one beyond the relays changes
  neither `relays_state` nor the pin of a relay.

**BoardsProofs**, the LED dimmer. `AckedIsAlwaysShown` (any colours, any channels of
any lengths; a pixel is red, blue and green of what was told): by `Truthful` of
both pairs (told, buffer), which every change of a buffer keeps because it changes
both or tells nothing. `CommasAreRight` (any depth, any length): the one
counter is right for the innermost object because it is positive whenever one is
closed, and it is, since the object being closed is an element.

**BoardsProofs**, `ProgramsStayTrue` (`ProgramsTellTruth`), in three parts.

* `DutyStaysAsTold` (any numbers in commands): the timer's values are those of
  the duty last acknowledged.
* `EchoStaysHeard` (any bytes, any number of them): the invariant `EchoInv` adds
  that the line is driven whenever the UART has a byte, since
  `hal_uart_rs485_enable_tx(0)` waits for it to be empty, and that a byte is in
  hand only between the calls that take and send it.
* `ExitStaysTrue` (command lines of any length, of any options with any numbers,
  `ClientAssumption`; what is printed, for reads that `regs` has room for).
  Where an option is in argv is a sum over those before it: `LaidOut` shows, by
  induction over the concatenation (`Flattened`, `Prefixes`), that there are
  such places. The invariant `ClientInv`: with at most one mistake in the
  command line the loop stands on an option and has read those before it, which
  are whole, or it stands on a number and is about to end (`Turns`): the option
  that lacks one operand has taken the name of the next, so that the loop comes
  to a number next. An earlier form of the property, which allowed one option
  any number of missing operands, was false: the proof got stuck on a `-wr`
  without operands, which takes a following `-a 7` whole.

**MonitorProofs**, the power monitor (any miners, delay and number of polls).

* `WaitsLongEnough`: from `CountedPolls` (`WaitCounts`): the answers the wait has
  counted plus the polls under way are no more than those under way when it
  began plus the ticks since. Only `Tick` adds to both sides; an answer moves a
  poll from one term of the left to the other; a lost poll lowers the left.
* `LatestRules`: a miner is in the state believed unless it missed the latest
  command. The invariant says which commands may be on the way, in which order.

**BeaconProofs** (a timer, margins and intervals of any size that satisfy
`TimerAssumption`, `IntervalAssumption` and `ScaleAssumption`; any delays; the
interrupts at every point of the main context).

* `AlarmIsAhead` (`WakesForEvents`). The invariant `AlarmInv`: the compare value is
  the low bits of `wakeup`, is not missed, and lies no further ahead than the
  longest advertising interval (`CompareRight`); each interval is the one the
  state of the task calls for, and no countdown of the advertisements is longer
  than the longest of them (`TasksRight`); before the scheduler runs the timer has counted
  only the start (`Booting`). The interrupt keeps it because an event within the
  margin is served at once, so that what is left of each countdown is more than
  `MinLoad`, and because `LateBy`, right or wrong, is below `L` (`LateByType`).
* `EngineHears` (`EngineIsReady`) and `PayloadGetsThrough` (`PayloadIsTaken`) need
  to know which interrupt can come where, and `AlarmInv` says nothing of that.
  `PaceInv` measures it: `Since` is the time since the alarm was last set, `Before`
  what the tasks have counted beyond it (the start sets one and not the other,
  miniBLE_scheduler.c:369). The device is not awake for longer than an advertising
  event and two stretches of work (`AwakeShortly`), so that no advertisement falls
  due on the way into sleep (`AdvIsFar`); the end of a conversion is `Read` ticks
  after all countdowns began anew, so an advertisement is neither on the air nor
  due (`Reading`); after it a measuring interval leaves room for an advertising
  one (`Measuring`). From these, an interrupt finds one of few situations
  (`IsrFinds`), and the engine is out of reset in each that transmits
  (`RadioRight`). `PaceNext` goes through the steps one by one. Both invariants
  were checked with TLC on three scales before they were proved.

**QueuesProofs** `CountIsRight` (any size, any calls, either side pushing, DMA
late or not): head, tail and count agree at every step but for what the call
under way has moved and not counted. It is inductive with `TypeOK` and with what
the call under way may rely on (`CallOK`: room or bytes enough, whatever the ISR
does meanwhile); the steps are about sums modulo the size.

`BuffersAreQueues` is the refinement `EveryBufferIsQueue`: the ring buffer and
the two directions of the serial port implement ByteQueue, for buffers of any
size and each driver. Its hypothesis `DmaLate = FALSE` is the one of the run: a
DMA transfer ends before its call counts it. The bytes of a direction are
numbered, so each piece of a buffer is a `Run` of consecutive numbers.

* `RingIsQueue`: the invariant `DInv` says where the oldest byte is (`Base`, told
  by head or tail, whichever the interrupt does not move), that the slots from
  there on hold the run (`Kept`), and how far the transfer under way has got
  (`Moved`), the bytes it has stored lying beyond the run until they are counted.
* Serial port: shift register, U0DBUF and buffer are one run (`TxData`). That
  needs `TxControl`: U0DBUF is free whenever the program or the interrupt is
  about to write to it, since the polling driver clears the flag before each byte
  and the interrupt only runs when the flag is set.

**DirectTestProofs** (any commands of two bytes; every moment at which an interrupt
can come). The invariant `IInv` has two halves.

* `RepliesAreRight`, by `CommandInv`: a command is not asked yet, coming in, being
  carried out or answered, and each phase says where the bytes of command and
  reply are. The reply is decided when the command is dispatched; from then on
  it is the two bytes of the buffer, then those the interrupt has left to send
  and those the tester has.
* `NeverHangs` and `AirIsRight`, by `RadioInv`: which task the radio has, which
  flags stand, and that a packet loaded or repeated is the one of the test that
  is told (`TaskInv`, `FlagInv`, `PacketInv`). The radio is stopped, its
  interrupt off, before the packet is changed. `AirIsRight` has the hypothesis
  `PayloadsAreRight`, on the constant bytes of the three payloads: no prover
  here computes the PRBS9 table, and TLC evaluates it for all lengths.

**EspProofs** (any number of requests, any sizes, any two times with the timer
the longer one).

* `MemoryStaysRight`: a request's phase, the strings that were copied and how far
  it came decide which blocks it owns (`Owns`), from which it follows that no
  callback uses or frees a freed block, and what is left when it ends. A callback
  only finds its request in the phases in which the code has it registered. An
  exception comes of a NULL string or an answer that is not whole, of nothing
  else.
* `AnswersStayTold`, the callbacks: by `Tells`; a dropped packet leaves in the
  buffer nothing that looks like the start of an answer, so that the end of the
  request cannot take what is there for one.
* `AnswersStayTold`, the chunked body, under `BodyAssumption` (one to 255 bytes a
  chunk; what stands behind a size begins with no digit and has no end of a line
  in it), for every cut: `BodyInv` says that the decoder stands at the start of
  the k-th chunk and has given out the data of those before it. If that chunk
  came whole (`ChunkWhole`), one pass of the loop reads the size the server wrote
  (`NumberIs`, `ReadsSize`), finds the end of its line (`ReadsLine`), which is the
  first one although the data may hold others, and copies that many bytes
  (`ReadsData`). If it is cut (`ChunkCut`), there is a size above 0, perhaps short
  of its second digit, and no end of the line or not enough behind it; where
  nothing or the last chunk is left, it reads 0.
* `ReadsInTime`: while the timer runs, the conversion ends before it does.

**MonitorProofs**, the Android monitor (any number of activities, posted packets, beacons, strangers).

* `NeverRepeats`: the number an activity compares with is the last of what it
  has uploaded or queued (`Compares`), through all packets that are posted to it
  late.
* `ListStaysRight`, for one beacon (`OneBeacon`; with two the one remembered
  number serves both, and the property fails): the list shows that number.

**DriversProofs** (any number of calls, measurements and steps).

* `SensorsTruth`. Humidity: the invariant says for every step of the transfer
  what is in the buffer if no step of it failed yet, and what the chip is doing
  meanwhile. Thermometer: for every step which pins are driven and which diode's
  voltage the converter has.
* `NapsAreCounted` and `AlarmsAreInTime`, for every size of the clocks that
  satisfies `NapAssumption` (a nap's remainder and a count fit in 16 bits
  together, its periods in 16 alone, and it has fewer ticks than one turn of the
  sleep timer; the numbers of the code do) and `PowerAssumption` (a sleep is
  longer than its preparation and shorter than a turn). The invariant `TInv` of
  Timer 2: the count is below the period, the sleep timer is what was noted plus
  what was slept, modulo its width, and the periods since a timeout was asked
  for are not behind the count that is compared. A nap is then a calculation
  with quotients (`Divided`, `Multiples`, `DifferenceIs`, `NapIs`): the 24 bit
  difference of two times is what was slept, whatever wrapped between, and no
  conversion to 16 bits cuts anything. The invariant `PInv` of the power modes:
  the command divides the ticks at least as far as the clock, and asks for no
  change the oscillator in use forbids; the radio's engine is off for a deep
  sleep only; the alarm is the chosen ticks ahead, less those since it was set.
* `FlashKeepsItsBytes`, for every flash whose banks and pages the registers can
  name, every `NamedPages`, and all buffers (`FlashAssumption`: no size is zero, no
  buffer empty, at most eight banks and 256 half pages); for
  `HalFlashWritePage` of the page its cut address names. The invariant `FInv`
  says of each byte, at every step of a write, that it is what the first `moved`
  bytes of the data leave of the old or the erased page (`BytesRight`), and that
  the channel holds the rest (`DescRight`). A call returns with the controller
  idle, which it is only when the channel has nothing left: that is why the wait
  for the channel, which is no wait when an older flag is set, does no harm.
* `TransfersAreTaken` (`TransferIsTaken`), for all texts, characters, columns and
  shapes of bytes (`LineAssumption`) and a display that is busy as often as it
  likes. The invariant `LInv` says for each change of a wire how many bits of
  which byte the display has shifted in and how many bytes it has taken
  (`Stages`): it takes a byte only as the ninth clock falls, by when the driver
  is already at the next byte, or at the same one again (`Answered`), or about
  to end. Eight bits sent with the highest first are the byte (`BitsAreByte`),
  and every call sends nothing but bytes (`CallsAreBytes`).

Some of these results need induction over data. The induction theorems of the
library take an operator, which no installed prover can instantiate; what serves
instead is that every set of numbers has a least one (`Least`, from `WFMin`): of
the numbers for which a statement fails there would be a least.

Only model-checked: everything under fairness (liveness is out of the prover's
reach); that the beacon never sleeps on a measurement that is due (part of
`GoesOnForEver`), which rests on how the random delays of several advertisements
add up between two measurements, a sum over the past that no state holds; the
payloads of the direct test mode (`PayloadsAreRight`); of the drivers the
three-line display, whose texts are cut by recursion, and the temperature path,
whose bytes are sums over the bits on the wire.

## 6. What the models showed beside the properties

Two disagreements are runs (`pieces`, `lateness`). The others, kept out of the
runs:

* modbusd: as committed, `main()` never leaves the test loop in front of its
  start, so nothing listens (`Starts` has both). A function the gateway has no
  case for is answered with the request itself, which looks like a write that
  was done. A write whose state is neither 0 nor 0xFF00 puts the copy and the
  board apart. A client accepted when `setsockopt` fails is never closed. On a
  device that is gone, `read()` returns 0 and `serial_read` asks for ever.
* relay8: `inputs_state` is 0 until the first edge, so an input that is on at
  power-up is reported off. The check `regaddr > 8` (main.c:78) lets coil 8
  through, one more than there are relays: the write is acknowledged, puts a level
  on GPIO 8, which board.h:25 makes input 1, and never reads back.
* powermon: the wait counts answers, so old polls end it before its time; a
  miner that the OFF did not reach stays on however long the load is high,
  because state 1 sends nothing; a delay that is no multiple of the interval
  never ends (`delay_cycles == 0` is never met).
* ring buffer and serial port: the comment at util_ring_buf.c:81 that one byte
  is always unused is not so. An interrupt-driven write can lose its wake-up
  (hal_uart_cc8051.c:206 and :224), a write of `BUF_SIZE` bytes or more never
  returns, a write that USB refuses is refused whole and `printStr` ignores it,
  `printStrW` pads one blank fewer than asked, `printStr("")` reads the byte
  before the string.
* beacon: `miniBleSchedulerGetTimeUntilNextEvent` is a turn of the timer too long
  once the timer has wrapped and `globalWakeupTime` has not, so that the look for
  an event within 3 ms fails there; what `LateBy` gets wrong after a wrap does no
  harm but an event 8 ms early, because it is cut to 8 bits.
* direct test mode: LE_RESET does not stop a test.
* WiFi sensor: a static address is taken from RTC memory that is junk after
  power-on (user_main.c:108); `ds_reset` never ends on a stuck wire; a DHCP server
  that never answers keeps it awake. The HTTP client loses all strings and the
  buffer of a request whose name is not found, the headers and the data when there
  is no connection, the data when they were not sent; it takes the length of
  strings that could not be copied; it copies a chunk that is cut past the end of
  its buffers; a TCP error after the start of an answer is told with the status and
  the part that came, other than httpclient.h:15 says; "Transfer-Encoding:
  chunked" is searched in the whole answer, body included.
* LED dimmer: red, blue, green are passed where red, green, blue come in.
* menus and displays: `utilPrintText` keeps three line starts and writes a
  fourth on a third newline, and overwrites the newlines of its caller's text;
  the three-line driver leaves the digits of a longer number standing; in the
  two-line driver `halLcdClear` does nothing, the check of a column is off by
  one, the index of a symbol differs by one between making and writing it,
  `smbStop` makes no stop, `smbClock` does not wait for a stretched clock though
  its comment says so, and a missing display hangs the send.
* timers: the sleep tick is taken for 1/32 ms where the comment has 32.768; a
  nap may step over a compare value; the overflow period of a periodic timeout
  is kept and lets a longer single one never fire; the latch mode is assumed and
  cleared by the reset.
* diodes: the comments of two rows of the table at hal_temp.c:74-75 name each
  other's diodes; the model takes the table.
* humidity: a command that is not acknowledged counts as written, and
  `HalHumiRunMeasurement`'s user ignores its success; a failed register read
  still writes the register.
* modbusc: of `-d -d` the second option is the operand, 0, of the first; a `-wr`
  without operands takes a whole `-a 7` for them and writes; `-wc` of
  the usage text is no option; an option at the end of the line without its
  operands hands `atoi` a null pointer; a read of more than 255 registers overflows
  `regs`.
* fan controller: the longest pulse is longer than the period, so 96 % and more
  are full duty. Watt meter: nothing runs the scheduler its measurement needs.
* temperature path: both lengths in `miniBLEPhyLoadPacket` count four bytes that
  are not loaded; the configuration byte commented "10bit" selects 9 bits, and
  without it the conversion would not fit 200 ms; an absent sensor reads as
  "-0.0"; the critical regions of ow.c are empty, so that interrupts lengthen
  slots and nothing reads the checksum.
* flash: the count is in bytes where the comment has blocks of four;
  `HalFlashErase` enables interrupts whatever they were; `HalFlashWritePage` writes
  an address of 64 KB or more to another page; `HalFlashWrite` leaves
  the DMA flag set, so that `WritePage`'s wait for it is void and only the wait
  for BUSY protects.
* clocks: `halMcuInit` selects the crystal for the slow clock and
  `clockSetMainSrc(XOSC)` then puts the RC oscillator back; the range check of
  `clockSetMainClkSpeed` compares a truth value with 7; bits of the tick speed
  are OR-ed, not set. The divided sources, which the firmware does not use,
  would wait for ever for the oscillator.

## 7. Not modelled

* Gateway: `tcp_socket_connect` and `tcp_socket_readto`, which modbusd does not
  call; a request in pieces is one of the requests the theorems range over, but
  no run has the bytes of the buffer.
* miniBLE: `TASK_WAIT`, `TASK_CAL`, disabling a task and the TX_INTERVAL
  branches, which this firmware never uses; the registers of the modem.
* LED dimmer: the routing table, the blinking of the connection and
  `ledctl_run_test`, which nothing calls; its network start is calls of the WiFi
  library.
* Watt meter: the measurement (`emon_task`), which is never run: the main loop
  does not call the scheduler, and scheduler and converter are not in the
  repository.
* `tuyaserver`: one pass without state.
* TI console and text menu: built for a PC only, by no project. Start-up
  assembly, register names, board tables: no behaviour of their own. `examples/`:
  try-outs of single drivers.
