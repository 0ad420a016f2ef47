------------------------------ MODULE LedControl ------------------------------
(* The LED controller (apps/ledcontrol/src): the calls of ledctl.c as the REST   *)
(* handlers make them, one at a time, and the start of the program, during which *)
(* the HTTP server already runs.  Of the strip driver, which is not in the       *)
(* repository, the model has the two buffers of each channel (led_strip_buf_1    *)
(* and _2): pixels are set in one while the other is shown, and showing swaps    *)
(* them.  A pixel is the three bytes that led_strip_set_pixel_rgb was given for  *)
(* it, in that order.  The answers are written by JsonOutput.                    *)
EXTENDS JsonOutput

CONSTANTS NumChannels,   \* CFG_LEDCTL_NUM_CHANNELS
          Length,        \* the pixels of each channel
          Colours,       \* the values of a request's RGB, as atoi reads them
          Pixels         \* the pixel numbers of requests

Channels == 0..NumChannels - 1

CHANNEL_ALL == 255       \* LEDCTL_CHANNEL_ALL

Off == <<0, 0, 0>>
Black == [red |-> 0, green |-> 0, blue |-> 0]

(* What is known of a pixel: a set of its colour, or of none.                    *)
NoColour == {}

VARIABLES ready,         \* channels that ledctl_init() has initialised
          front, back,   \* the buffers: what the strip shows, what calls change
          shown, staged  \* history: what the clients were told of them

lvars == <<ready, front, back, shown, staged>>

PixelsOf(c) == 0..Length[c] - 1

All(value) == [c \in Channels |-> [p \in PixelsOf(c) |-> value]]

LedInit == /\ ready = 0
           /\ front = All(Off) /\ back = All(Off)
           /\ shown = All(NoColour) /\ staged = All(NoColour)

(* The channels a request names: one, all, or none.                              *)
Addressed(channel) == IF channel = CHANNEL_ALL THEN Channels ELSE {channel} \cap Channels

Change(buffers, cs, ps, value) ==
    [c \in Channels |-> [p \in PixelsOf(c) |->
        IF c \in cs /\ p \in ps THEN value ELSE buffers[c][p]]]

(* led_strip_set_pixel_rgb refuses a pixel that the channel does not have.       *)
Succeeds(cs, p) == cs # {} /\ \A c \in cs : p \in PixelsOf(c)

(* What a client may rely on: a call that failed may have set some pixels.       *)
Told(ok, colour) == IF ok THEN {colour} ELSE NoColour

(* Every call hands the three bytes over as red, blue, green.                    *)
RedBlueGreen(colour) == <<colour.red % 256, colour.blue % 256, colour.green % 256>>

SetPixels(cs, ps, colour) == Change(back, cs, ps, RedBlueGreen(colour))

(* After a swap the driver leaves the new back buffer as it was, or clears it.   *)
Show(cs, newBack, newStaged) ==
    /\ front' = [c \in Channels |-> IF c \in cs THEN newBack[c] ELSE front[c]]
    /\ shown' = [c \in Channels |-> IF c \in cs THEN newStaged[c] ELSE shown[c]]
    /\ \/ back' = [c \in Channels |-> IF c \in cs THEN front[c] ELSE newBack[c]]
       \/ back' = Change(newBack, cs, Nat, Off)
    /\ staged' = Change(newStaged, cs, Nat, NoColour)

(* Showing takes the semaphore of the channel, which is NULL until it is         *)
(* initialised: the program stops with an assertion and starts again.            *)
Restart == /\ ready' = 0
           /\ front' = All(Off) /\ back' = All(Off)
           /\ shown' = All(NoColour) /\ staged' = All(NoColour)

Shows(cs, newBack, newStaged) ==
    IF cs \subseteq 0..ready - 1
    THEN Show(cs, newBack, newStaged) /\ UNCHANGED ready
    ELSE Restart

------------------------------------------------------------------------------
(* ledctl.c, and the handlers of rest_api_led.c that call it.                    *)

ledctl_set_pixel(channel, p, colour) ==
    LET cs == Addressed(channel)
    IN  /\ back' = SetPixels(cs, {p}, colour)
        /\ staged' = Change(staged, cs, {p}, Told(Succeeds(cs, p), colour))
        /\ UNCHANGED <<ready, front, shown>>

ledctl_update_pixel(channel, p, colour) ==
    LET cs == Addressed(channel)
    IN  Shows(cs, SetPixels(cs, {p}, colour),
              Change(staged, cs, {p}, Told(Succeeds(cs, p), colour)))

UpdateChannels_first(cs, colour) ==
    Shows(cs, SetPixels({c \in cs : c = 0}, Nat, colour), Change(staged, cs, Nat, {colour}))
(* Every pixel of a channel is set, then the channels are shown.                 *)
UpdateChannels(cs, colour) ==
    Shows(cs, SetPixels(cs, Nat, colour), Change(staged, cs, Nat, {colour}))

ledctl_update_channel_pixels(channel, colour) ==
    UpdateChannels(Addressed(channel), colour)

(* The time is not used: the same as without a ramp.                             *)
ledctl_update_channel_pixels_ramp(channel, timelen, colour) ==
    UpdateChannels(Addressed(channel), colour)

ledctl_refresh(channel) == Shows(Addressed(channel), back, staged)

(* A channel that does not exist clears all of them.                             *)
ledctl_clear(channel) ==
    LET cs == IF channel \in Channels THEN {channel} ELSE Channels
    IN  /\ back' = Change(back, cs, Nat, Off)
        /\ staged' = Change(staged, cs, Nat, {Black})
        /\ UNCHANGED <<ready, front, shown>>

(* One channel of ledctl_init(): what was set before is cleared.                 *)
ledctl_init ==
    /\ ready < NumChannels
    /\ ready' = ready + 1
    /\ back' = Change(back, {ready}, Nat, Off)
    /\ staged' = Change(staged, {ready}, Nat, NoColour)
    /\ UNCHANGED <<front, shown>>

rest_api_sys_restart == Restart

(* The channels of requests: also one that does not exist.                       *)
Requested == 0..NumChannels \cup {CHANNEL_ALL}

Request ==
    \/ \E ch \in Requested, p \in Pixels, colour \in Colours :
          ledctl_set_pixel(ch, p, colour) \/ ledctl_update_pixel(ch, p, colour)
    \/ \E ch \in Requested, colour \in Colours :
          \/ ledctl_update_channel_pixels(ch, colour)
          \/ ledctl_update_channel_pixels_ramp(ch, 0, colour)
    \/ \E ch \in Requested : ledctl_refresh(ch) \/ ledctl_clear(ch)
    \/ rest_api_sys_restart

Init == LedInit /\ JsonInit

(* A handler, also one that writes a document, ends before the next begins.      *)
Next == \/ ledctl_init /\ UNCHANGED jvars
        \/ Request /\ siblings = <<>> /\ UNCHANGED jvars
        \/ JsonNext /\ UNCHANGED lvars

Spec == Init /\ [][Next]_<<lvars, jvars>>

------------------------------------------------------------------------------
(* What clients were told is on the strip: a pixel whose colour was acknowledged *)
(* and then shown, by one call or by several, carries that colour until it is    *)
(* shown again, its numbers as bytes and its green and its blue changed places,  *)
(* as ledctl.c gives them to the driver.  Requests for all channels, channels of *)
(* different lengths, failing calls that set a part, and clears come between; so *)
(* does the start.                                                               *)
AckedIsShown ==
    \A c \in Channels : \A p \in PixelsOf(c) :
        /\ \A told \in shown[c][p] :
              front[c][p] = <<told.red % 256, told.blue % 256, told.green % 256>>
        /\ \A told \in staged[c][p] :
              back[c][p] = <<told.red % 256, told.blue % 256, told.green % 256>>
==============================================================================
