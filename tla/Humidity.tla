------------------------------ MODULE Humidity ------------------------------
(***************************************************************************)
(* The humidity sensor of the beacon: the two-wire master                  *)
(* (components/targets/TempSensor/hal_i2c.c), the register functions       *)
(* (hal_sensor.c) and a measurement of temperature and humidity            *)
(* (hal_humi.c, HalHumiRunMeasurement).                                    *)
(*                                                                         *)
(* An action is an address or a byte on the bus, with the acknowledgement  *)
(* it gets; each may also meet an error of the bus.  The sensor is not in  *)
(* the repository: it needs a while after power-on, answers a read only    *)
(* when a measurement is done, and measures in time for the waits of the   *)
(* code only at the lower resolution.                                      *)
(***************************************************************************)
EXTENDS Integers, Sequences

CONSTANTS MaxRuns       \* bound: measurements

VARIABLES pc,           \* the transfer HalHumiRunMeasurement is at
          xfer,         \* how far it is: bytes left, bytes counted, or closed
          aa,           \* the master acknowledges what it reads
          success, buf, \* of hal_humi.c
          run,          \* measurements begun
          sensor

vars == <<pc, xfer, aa, success, buf, run, sensor>>

DATA_LEN == 3
Closed == [open |-> FALSE, left |-> 0, cnt |-> 0]
Off == [on |-> FALSE, awake |-> FALSE, low |-> FALSE,  \* low: 11 bits
        does |-> "none", done |-> FALSE, drives |-> FALSE]

\* What a measurement of this run leaves in three bytes of buf.
Result(kind, r) == [n \in 1 .. DATA_LEN |-> <<kind, r, n>>]

Init ==
  /\ pc = "off" /\ xfer = Closed /\ aa = FALSE
  /\ success = FALSE /\ buf = [n \in 1 .. 2 * DATA_LEN |-> <<"none", 0, 0>>]
  /\ run = 0
  /\ sensor = Off

-----------------------------------------------------------------------------
(* The transfers, in the order of a measurement; * marks those of          *)
(* HalHumiInit.  A written byte is a command or the register's value.      *)

Writes == [askReg |-> <<"read">>, setReg |-> <<"write", "low">>,       \* *
           temp |-> <<"temp">>, humi |-> <<"humi">>]
Reads == [getReg |-> 1, readTemp |-> DATA_LEN, readHumi |-> DATA_LEN]  \* * getReg

\* The number a function returns against the number it should have.
Went(cnt) == cnt = IF pc \in DOMAIN Writes THEN Len(Writes[pc]) ELSE Reads[pc]

\* After the transfer: what the caller does with the number of bytes.
HalHumiInit(ok) ==
  CASE pc = "askReg" -> pc' = (IF ok THEN "getReg" ELSE "setReg") /\ UNCHANGED success
    [] pc = "getReg" -> pc' = "setReg" /\ UNCHANGED success
    [] pc = "setReg" -> pc' = "temp" /\ success' = FALSE

HalHumiExecMeasurementStep(ok) ==
  CASE pc = "temp"     -> pc' = "wait15" /\ success' = ok
    [] pc = "readTemp" -> pc' = (IF ok THEN "humi" ELSE "wait20") /\ success' = ok
    [] pc = "humi"     -> pc' = "wait20" /\ success' = ok
    [] pc = "readHumi" -> pc' = "done" /\ success' = ok

Return(ok) == IF pc \in {"askReg", "getReg", "setReg"} THEN HalHumiInit(ok)
              ELSE HalHumiExecMeasurementStep(ok)

-----------------------------------------------------------------------------
(* hal_i2c.c                                                               *)

Transferred(left, cnt) == xfer' = [open |-> TRUE, left |-> left, cnt |-> cnt]

\* START and the address, from i2cMstStrt: acknowledged, or the function is
\* left with nothing to do but STOP.
Acked(len) == Transferred(len, 0)
Refused == Transferred(0, 0)

AddressWrite ==
  /\ pc \in DOMAIN Writes /\ ~xfer.open
  /\ \/ sensor.awake /\ Acked(Len(Writes[pc]))
     \/ Refused
  /\ UNCHANGED <<pc, aa, success, buf, run, sensor>>

\* The sensor that acknowledges a read drives the first byte.
AddressRead ==
  /\ pc \in DOMAIN Reads /\ ~xfer.open
  /\ \/ /\ sensor.awake /\ sensor.does # "none" /\ sensor.done
        /\ Acked(Reads[pc])
        /\ aa' = (IF Reads[pc] > 1 THEN TRUE ELSE aa)
        /\ sensor' = [sensor EXCEPT !.drives = TRUE]
     \/ Refused /\ UNCHANGED <<aa, sensor>>
  /\ UNCHANGED <<pc, success, buf, run>>

Doing(what, done) == [sensor EXCEPT !.does = what, !.done = done]

\* A byte taken by the sensor: the measurement it had is given up.
Command(b) ==
  CASE b = "read"  -> Doing("reg", TRUE)
    [] b = "low"   -> [sensor EXCEPT !.low = TRUE]
    [] b = "write" -> Doing("none", FALSE)
    [] OTHER       -> Doing(b, FALSE)

\* HalI2CWrite counts a byte the sensor did not acknowledge, and stops there; a
\* byte that met an error is not counted.
ByteWritten ==
  /\ pc \in DOMAIN Writes /\ xfer.open /\ xfer.left > 0
  /\ LET b == Writes[pc][xfer.cnt + 1]
     IN \/ Transferred(xfer.left - 1, xfer.cnt + 1) /\ sensor' = Command(b)
        \/ Transferred(0, xfer.cnt + 1) /\ UNCHANGED sensor
        \/ Transferred(0, xfer.cnt) /\ UNCHANGED sensor
  /\ UNCHANGED <<pc, aa, success, buf, run>>

Acknowledges(left) == IF left = 1 THEN FALSE ELSE aa

\* Acknowledged, the sensor drives another byte; not acknowledged, or after an
\* error, it lets go of the wire.
ByteRead ==
  /\ pc \in DOMAIN Reads /\ xfer.open /\ xfer.left > 0
  /\ aa' = Acknowledges(xfer.left)
  /\ LET at == xfer.cnt + (IF pc = "readHumi" THEN DATA_LEN + 1 ELSE 1)
         store == buf' = IF pc = "getReg" THEN buf
                         ELSE [buf EXCEPT ![at] = <<sensor.does, run, xfer.cnt + 1>>]
     IN \/ /\ store
           /\ sensor' = [sensor EXCEPT !.drives = aa']
           /\ Transferred(IF aa' THEN xfer.left - 1 ELSE 0, xfer.cnt + 1)
        \/ /\ \/ store
              \/ pc # "getReg" /\ buf' = [buf EXCEPT ![at] = <<"noise", 0, 0>>]
           /\ sensor' = [sensor EXCEPT !.drives = FALSE]
           /\ Transferred(0, xfer.cnt)
  /\ UNCHANGED <<pc, success, run>>

\* What was read is not there a second time.
I2C_STOP ==
  /\ xfer.open /\ xfer.left = 0
  /\ xfer' = Closed
  /\ sensor' = IF pc \in DOMAIN Reads /\ xfer.cnt > 0
                 THEN Doing("none", FALSE) ELSE sensor
  /\ Return(Went(xfer.cnt))
  /\ UNCHANGED <<aa, buf, run>>

-----------------------------------------------------------------------------
(* HalHumiRunMeasurement.  Nobody looks at success: the values of buf are  *)
(* handed on whatever happened.                                            *)

Begin ==
  /\ pc = "off" /\ run < MaxRuns
  /\ pc' = "askReg" /\ run' = run + 1
  /\ sensor' = [sensor EXCEPT !.on = TRUE]
  /\ UNCHANGED <<xfer, aa, success, buf>>

\* By the end of a wait the sensor is awake, and done if its measurement is a
\* short one.
Waited(wait, read, otherwise) ==
  /\ pc = wait
  /\ pc' = IF success THEN read ELSE otherwise
  /\ sensor' = [sensor EXCEPT !.awake = TRUE, !.done = sensor.does # "none" /\ sensor.low]
  /\ UNCHANGED <<xfer, aa, success, buf, run>>

Deliver ==
  /\ pc = "done"
  /\ pc' = "off"
  /\ sensor' = Off
  /\ UNCHANGED <<xfer, aa, success, buf, run>>

\* It may be awake sooner.
SensorWakes ==
  /\ sensor.on /\ ~sensor.awake
  /\ sensor' = [sensor EXCEPT !.awake = TRUE]
  /\ UNCHANGED <<pc, xfer, aa, success, buf, run>>

Next ==
  \/ Begin \/ AddressWrite \/ AddressRead \/ ByteWritten \/ ByteRead \/ I2C_STOP
  \/ Waited("wait15", "readTemp", "wait20") \/ Waited("wait20", "readHumi", "done")
  \/ Deliver \/ SensorWakes

Spec == Init /\ [][Next]_vars

-----------------------------------------------------------------------------
(* What a measurement promises.                                            *)

\* When the last step tells success, both values are of this measurement, byte
\* for byte, whatever failed in this one or in those before.
SuccessIsFresh ==
  pc = "done" /\ success => buf = Result("temp", run) \o Result("humi", run)
=============================================================================
