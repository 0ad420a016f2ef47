------------------------------- MODULE EspSensor ------------------------------
(* The WiFi temperature sensor (esp8266/user/user_main.c, driver/ds18b20.c): it  *)
(* wakes, joins the network, measures, sends the temperature with one HTTP       *)
(* request and goes back to deep sleep, from which it restarts.  The callbacks   *)
(* of WiFi, of the timer and of the HTTP client come in any order.  Deep sleep   *)
(* is a request to the SDK: callbacks may still come before the chip is off.     *)
(* Only the flash and the memory of the RTC outlive it.                          *)
EXTENDS HttpClient

CONSTANTS Conversion,   \* ticks a conversion of the DS18B20 takes (750 ms)
          Delay         \* ticks of the measurement timer (1000 ms)

ASSUME TimeAssumption == Conversion \in Nat /\ Delay \in Nat /\ Conversion < Delay

VARIABLES power,        \* "off": no power yet; "hung": a loop only the watchdog ends,
                        \* or an exception, which ends in a reset, too
          sleeping,     \* system_deep_sleep() was called
          smart,        \* smart configuration: "off", "listening", "linked"
          known,        \* the flash holds the settings of a network
          rtc,          \* the address in the RTC memory: "junk" or "leased"
          dhcp, ip,     \* the interface
          link,         \* "down", "joined", "up"
          timer, conv,  \* ticks to go; 0: not running
          reading       \* how old the last temperature was when it was read

wifi == <<smart, known, rtc, dhcp, ip, link>>
vars == <<req, power, sleeping, smart, known, rtc, dhcp, ip, link, timer, conv, reading>>

Awake == power = "awake"
PinLow == BOOLEAN       \* GPIO3, read by smartconfig_is_enabled()

Volatile == /\ req' = [r \in Requests |-> Idle]
            /\ sleeping' = FALSE
            /\ link' = "down"
            /\ timer' = 0 /\ conv' = 0
            /\ reading' = "none"

(* A chip that was never configured; its RTC memory holds anything.              *)
Init == /\ HttpInit
        /\ power = "off"
        /\ sleeping = FALSE
        /\ smart = "off"
        /\ known \in BOOLEAN
        /\ rtc = "junk"
        /\ dhcp = TRUE /\ ip = "none"
        /\ link = "down"
        /\ timer = 0 /\ conv = 0
        /\ reading = "none"

(* After deep sleep the address is the one of the RTC memory, unless the SDK     *)
(* refuses it.                                                                   *)
user_init(deepSleepAwake, low) ==
    /\ power' = "awake"
    /\ Volatile
    /\ IF low
       THEN smart' = "listening" /\ dhcp' = TRUE /\ ip' = "none"
       ELSE /\ smart' = "off"
            /\ IF deepSleepAwake
               THEN \/ dhcp' = FALSE /\ ip' = rtc
                    \/ dhcp' = TRUE /\ ip' = "none"
               ELSE dhcp' = TRUE /\ ip' = "none"
    /\ UNCHANGED <<known, rtc>>

PowerOn == power = "off" /\ \E low \in PinLow : user_init(FALSE, low)

Wakes == power = "asleep" /\ \E low \in PinLow : user_init(TRUE, low)

WatchdogResets == power = "hung" /\ \E low \in PinLow : user_init(FALSE, low)

sleep_mode == sleeping' = TRUE

(* The SDK turns the chip off some time after system_deep_sleep().               *)
TurnsOff ==
    /\ Awake /\ sleeping
    /\ power' = "asleep"
    /\ Volatile
    /\ UNCHANGED <<smart, known, rtc, dhcp, ip>>

------------------------------------------------------------------------------
(* wifi_event_callback                                                           *)

MayJoin == Awake /\ known /\ smart # "listening"

Joined ==       \* EVENT_STAMODE_CONNECTED
    /\ MayJoin
    /\ link = "down"
    /\ link' = "joined"
    /\ UNCHANGED <<req, power, sleeping, smart, known, rtc, dhcp, ip, timer, conv, reading>>

Disconnected == \* for any reason but REASON_ASSOC_LEAVE; a failed attempt, too
    /\ MayJoin
    /\ link' = "down"
    /\ sleep_mode
    /\ UNCHANGED <<req, power, smart, known, rtc, dhcp, ip, timer, conv, reading>>

(* ds_reset() never leaves its loop when the wire does not go high.              *)
HungWire == power' = "hung"

ds_start == conv' = Conversion

ds_read_temp == reading' = IF conv = 0 THEN "done" ELSE "converting"

StartMeasurement_armed == ds_start /\ timer' = IF timer > 0 THEN timer ELSE Delay

(* The timer is disarmed and armed again.                                        *)
StartMeasurement == ds_start /\ timer' = Delay

(* EVENT_STAMODE_GOT_IP.  The address is kept before the measurement starts.     *)
GotIp ==
    /\ MayJoin
    /\ link = "joined"
    /\ link' = "up"
    /\ ip' = IF dhcp THEN "leased" ELSE ip
    /\ rtc' = ip'
    /\ \/ StartMeasurement /\ UNCHANGED power
       \/ HungWire /\ UNCHANGED <<timer, conv>>
    /\ UNCHANGED <<req, sleeping, smart, known, dhcp, reading>>

------------------------------------------------------------------------------
(* smartconfig_done_callback                                                     *)

(* SC_STATUS_LINK: the disconnection it asks for has REASON_ASSOC_LEAVE.         *)
Linked ==
    /\ Awake /\ smart = "listening"
    /\ smart' = "linked"
    /\ known' = TRUE
    /\ link' = "down"
    /\ UNCHANGED <<req, power, sleeping, rtc, dhcp, ip, timer, conv, reading>>

LinkOver ==     \* SC_STATUS_LINK_OVER
    /\ Awake /\ smart = "linked"
    /\ link = "up"
    /\ smart' = "off"
    /\ UNCHANGED <<req, power, sleeping, known, rtc, dhcp, ip, link, timer, conv, reading>>

------------------------------------------------------------------------------
Tick ==
    /\ Awake
    /\ timer > 1 \/ conv > 0
    /\ timer' = IF timer > 1 THEN timer - 1 ELSE timer
    /\ conv' = IF conv > 0 THEN conv - 1 ELSE 0
    /\ UNCHANGED <<req, power, sleeping, smart, known, rtc, dhcp, ip, link, reading>>

(* An exception in the HTTP client takes the chip with it.                       *)
MayCrash == power' = IF Crashed' THEN "hung" ELSE power

SentCallback_answered ==
    IF \E r \in Requests : req'[r].phase # req[r].phase /\ req'[r].status = "answer"
    THEN sleep_mode
    ELSE UNCHANGED sleeping

(* http_sent_callback, when this step calls it.                                  *)
SentCallback ==
    IF \E r \in Requests : req'[r].calls > 0 /\ req'[r].phase # req[r].phase
    THEN sleep_mode
    ELSE UNCHANGED sleeping

(* Bound: of more requests at a time than Requests, the model follows none.      *)
NoRequest == /\ \A r \in Requests : req[r].phase \notin {"idle", "over"}
             /\ UNCHANGED req

(* The timer, and late when other callbacks run first.                           *)
timer_callback ==
    /\ Awake
    /\ timer = 1
    /\ timer' = 0
    /\ \/ /\ ds_read_temp
          /\ NoRequest \/ \E r \in Requests : http_get(r, "http")
          /\ SentCallback
          /\ UNCHANGED power
       \/ HungWire /\ UNCHANGED <<req, sleeping, reading>>
    /\ UNCHANGED <<wifi, conv>>

(* Only an address of the network gets answers.                                  *)
NetworkCallback(r) ==
    \/ /\ ip = "leased"
       /\ NameIsFound(r) \/ Connects(r) \/ Sent(r) \/ Receives(r) \/ Closes(r)
    \/ NameIsNotFound(r)
    \/ Breaks(r)

Network(r) ==
    /\ Awake
    /\ NetworkCallback(r)
    /\ SentCallback
    /\ MayCrash
    /\ UNCHANGED <<wifi, timer, conv, reading>>

Next == \/ PowerOn \/ Wakes \/ WatchdogResets \/ TurnsOff
        \/ Joined \/ Disconnected \/ GotIp
        \/ Linked \/ LinkOver
        \/ Tick \/ timer_callback
        \/ \E r \in Requests : Network(r)

(* Time passes; the SDK reports how an attempt to join ends, and that a station  *)
(* with an address of its own is up; the network stack ends every request (the   *)
(* server closes, as "Connection: close" asks, or a timeout of the stack).       *)
(* Nobody promises that a DHCP server answers, nor that the SDK ever gives up    *)
(* waiting for one: the code has no timer of its own before GOT_IP.              *)
EndsOf(r) == NameIsNotFound(r) \/ NameIsFound(r) \/ Connects(r) \/ Closes(r) \/ Breaks(r)

Fairness ==
    /\ WF_vars(PowerOn) /\ WF_vars(Wakes) /\ WF_vars(WatchdogResets) /\ WF_vars(TurnsOff)
    /\ WF_vars(Tick) /\ WF_vars(timer_callback)
    /\ WF_vars(link = "down" /\ (Joined \/ Disconnected))
    /\ WF_vars(~dhcp /\ GotIp)
    /\ \A r \in Requests : WF_vars(Network(r) /\ EndsOf(r))

Spec == Init /\ [][Next]_vars /\ Fairness

------------------------------------------------------------------------------
(* Every variable has its type.                                                  *)
TypeOK ==
    /\ HttpTypeOK
    /\ power \in {"off", "awake", "asleep", "hung"}
    /\ sleeping \in BOOLEAN /\ known \in BOOLEAN /\ dhcp \in BOOLEAN
    /\ smart \in {"off", "listening", "linked"}
    /\ rtc \in {"junk", "leased"} /\ ip \in {"none", "junk", "leased"}
    /\ link \in {"down", "joined", "up"}
    /\ timer \in 0..Delay /\ conv \in 0..Conversion
    /\ reading \in {"none", "done", "converting"}

(* The temperature is never read while the conversion runs, however often the    *)
(* network comes and goes in between: GOT_IP starts both anew.                   *)
ReadsDoneConversion == reading # "converting"

(* Only this keeps a node awake for good: it has joined the network, and no DHCP *)
(* server gives it an address (user_main.c has no callback and no timer for it). *)
WaitsForAddress == Awake /\ ~sleeping /\ link = "joined" /\ dhcp

(* A node that knows its network and whose wire and memory are sound always gets *)
(* back to sleep, whatever becomes of the network and of the request, unless it  *)
(* waits for an address for ever: a missed callback would leave it awake until   *)
(* its battery is empty.                                                         *)
SleepsAgain ==
    <>[](known /\ power # "hung" /\ smart # "listening")
        => []<>(power = "asleep") \/ <>[]WaitsForAddress

==============================================================================
