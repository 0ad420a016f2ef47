----------------------------- MODULE MCEspSensor ------------------------------
(* The sensor; or its HTTP client for any user, who asks for anything at any     *)
(* time; or the decoder of the bodies that come in chunks.  Requests share       *)
(* nothing but the chip: one shows what becomes of each.                         *)
(*                                                                               *)
(* A buffer of three units, packets of one and two: the limit is met with and    *)
(* without room for a later, smaller packet.  Chunks that hold ends of lines,    *)
(* digits and a last chunk; sizes of one digit, a letter and two digits.         *)
EXTENDS EspSensor, Sequences

CONSTANTS Data, Notes, MaxChunks, LongMax      \* ChunkedBody

MCData == {<<97>>, <<13, 10>>, <<48, 13, 10, 13, 10>>, [k \in 1 .. 10 |-> 49],
           [k \in 1 .. 29 |-> IF k % 3 = 0 THEN 13 ELSE 10]}
MCNotes == {<<>>, <<59, 120>>}

VARIABLES which, chunks, chunked, j, decode, done, wild
bodyVars == <<chunks, chunked, j, decode, done, wild>>
device == <<power, sleeping, wifi, timer, conv, reading>>

Body == INSTANCE ChunkedBody

\* Chunks of any bytes, one to 255 of them; what stands behind a size begins with
\* no digit and has no end of a line in it.
ASSUME BodyAssumption ==
  /\ \A d \in Data : d \in Seq(0 .. 255) /\ Len(d) \in 1 .. 255
  /\ \A t \in Notes : /\ t \in Seq(0 .. 255)
                      /\ t # <<>> => Body!Digit(t[1]) >= 16
                      /\ \A k \in 1 .. Len(t) - 1 : ~(t[k] = 13 /\ t[k + 1] = 10)
  /\ MaxChunks \in Nat
  /\ LongMax \in Nat /\ LongMax >= 255

NoBody == /\ chunks = <<>> /\ chunked = <<>> /\ j = 0 /\ decode = <<>>
          /\ done = FALSE /\ wild = FALSE

\* Beside the other two stands a sensor that nobody has set up: it does nothing.
NoSensor == /\ HttpInit
            /\ power = "awake" /\ sleeping = FALSE
            /\ smart = "off" /\ known = FALSE
            /\ rtc = "junk" /\ dhcp = TRUE /\ ip = "none" /\ link = "down"
            /\ timer = 0 /\ conv = 0 /\ reading = "none"

MCInit == \/ which = "sensor" /\ Init /\ NoBody
          \/ which = "client" /\ NoSensor /\ NoBody
          \/ which = "body" /\ NoSensor /\ Body!Init

MCNext == /\ \/ which = "sensor" /\ Next /\ UNCHANGED bodyVars
             \/ which = "client" /\ HttpNext /\ UNCHANGED <<device, bodyVars>>
             \/ which = "body" /\ Body!Next /\ UNCHANGED vars
          /\ UNCHANGED which

MCSpec == MCInit /\ [][MCNext]_<<which, vars, bodyVars>> /\ Fairness

(* The user of a request is called once, with nothing of which a packet was      *)
(* dropped; and a body in chunks is decoded to the chunks that came whole.       *)
AnswerIsTold == AnswerIsUncut /\ Body!DecodesBody
==============================================================================
