---------------------------- MODULE DriversProofs ----------------------------
(* Theorems about the drivers of the board, for any number of calls: the         *)
(* humidity sensor on its two-wire bus and the sixteen diodes, the two timers    *)
(* with the power modes, the flash, the two-line display and the menus.          *)
EXTENDS MCDrivers, SequenceTheorems, WellFoundedInduction, TLAPS

Writing == {"askReg", "setReg", "temp", "humi"}
Reading == {"getReg", "readTemp", "readHumi"}
Waiting == {"off", "wait15", "wait20", "done"}

SensorType == [on : BOOLEAN, awake : BOOLEAN, low : BOOLEAN,
               does : {"none", "reg", "temp", "humi"},
               done : BOOLEAN, drives : BOOLEAN]

(* What a byte of buf is: which measurement of which run, and its place there.   *)
Bytes == {"none", "noise", "reg", "temp", "humi"} \X Nat \X Nat

HumiTypeOK ==
  /\ hPc \in Waiting \cup Writing \cup Reading
  /\ xfer \in [open : BOOLEAN, left : 0 .. Humi!DATA_LEN, cnt : 0 .. Humi!DATA_LEN]
  /\ aa \in BOOLEAN /\ success \in BOOLEAN
  /\ hBuf \in [1 .. 2 * Humi!DATA_LEN -> Bytes]
  /\ run \in Nat
  /\ sensor \in SensorType

(* The bytes that are written in a transfer, and those that are read.            *)
Bound(p) == IF p \in {"askReg", "temp", "humi", "getReg"} THEN 1
            ELSE IF p = "setReg" THEN 2 ELSE Humi!DATA_LEN

(* A transfer counts what it has done, and there is none outside of one.         *)
Transfer ==
  /\ ~xfer.open => xfer = Humi!Closed
  /\ hPc \in Waiting => ~xfer.open
  /\ xfer.left > 0 => xfer.cnt + xfer.left = Bound(hPc)
  /\ xfer.cnt <= Bound(hPc)

(* What the sensor does, against the place in the program.  It measures at the   *)
(* lower resolution only after the register was written, which gives up a read   *)
(* of it: a command that is not acknowledged, yet counted as sent, leaves the    *)
(* sensor with nothing or with a measurement that is not done in time.           *)
Sensing ==
  /\ hPc \in {"off", "askReg", "getReg"} => ~sensor.low
  /\ hPc \in {"off", "askReg", "getReg", "setReg"} => sensor.does \in {"none", "reg"}
  /\ hPc \in {"temp", "wait15", "readTemp"} => sensor.does # "humi"
  /\ sensor.low => sensor.does # "reg"
  /\ hPc = "setReg" /\ xfer.left > 0 /\ xfer.cnt > 0 => sensor.does = "none"
  /\ hPc \in {"readTemp", "readHumi"} /\ sensor.done => sensor.low /\ sensor.does # "none"
  /\ hPc \in {"readTemp", "readHumi"} /\ xfer.left > 0 => sensor.done

HasTemp == hPc = "humi" \/ hPc = "readHumi" \/ (hPc \in {"wait20", "done"} /\ success)

(* The bytes that count so far are of this run.                                  *)
Bytewise ==
  /\ hPc = "readTemp" => \A n \in 1 .. xfer.cnt : hBuf[n] = <<"temp", run, n>>
  /\ HasTemp => \A n \in 1 .. Humi!DATA_LEN : hBuf[n] = <<"temp", run, n>>
  /\ HasTemp => sensor.does \in {"none", "humi"}
  /\ hPc = "readHumi" => \A n \in 1 .. xfer.cnt : hBuf[Humi!DATA_LEN + n] = <<"humi", run, n>>
  /\ hPc = "done" /\ success =>
       \A n \in 1 .. Humi!DATA_LEN : hBuf[Humi!DATA_LEN + n] = <<"humi", run, n>>

HInv == HumiTypeOK /\ Transfer /\ Sensing /\ Bytewise
LEMMA Domains == /\ DOMAIN Humi!Writes = Writing /\ DOMAIN Humi!Reads = Reading
                 /\ \A p \in Writing : Humi!Writes[p] \in Seq({"read", "write", "low", "temp", "humi"})
                                      /\ Len(Humi!Writes[p]) = Bound(p)
                 /\ \A p \in Reading : Humi!Reads[p] = Bound(p)
  BY DEF Humi!Writes, Humi!Reads, Writing, Reading, Bound, Humi!DATA_LEN

LEMMA BoundType == \A p \in Writing \cup Reading : Bound(p) \in 1 .. Humi!DATA_LEN
  BY DEF Bound, Writing, Reading, Humi!DATA_LEN

(* The fields of the sensor after a change of two of them.                       *)
LEMMA DoingType ==
  ASSUME sensor \in SensorType, NEW w \in {"none", "reg", "temp", "humi"}, NEW d \in BOOLEAN
  PROVE  /\ Humi!Doing(w, d) \in SensorType
         /\ Humi!Doing(w, d).low = sensor.low /\ Humi!Doing(w, d).does = w /\ Humi!Doing(w, d).done = d
<1> DEFINE one == [sensor EXCEPT !.does = w]
           two == Humi!Doing(w, d)
<1>1. two = [one EXCEPT !.done = d]
  BY DEF Humi!Doing
<1>2. one \in SensorType /\ one.low = sensor.low /\ one.does = w
  BY DEF SensorType
<1> HIDE DEF one, two
<1>3. two \in SensorType /\ two.low = sensor.low /\ two.does = w /\ two.done = d
  BY <1>1, <1>2 DEF SensorType
<1> QED
  BY <1>3 DEF two

LEMMA WaitedType ==
  ASSUME sensor \in SensorType, NEW d \in BOOLEAN
  PROVE  LET s == [sensor EXCEPT !.awake = TRUE, !.done = d]
         IN s \in SensorType /\ s.low = sensor.low /\ s.does = sensor.does /\ s.done = d
<1> DEFINE one == [sensor EXCEPT !.awake = TRUE]
           two == [sensor EXCEPT !.awake = TRUE, !.done = d]
<1>1. two = [one EXCEPT !.done = d]
  OBVIOUS
<1>2. one \in SensorType /\ one.low = sensor.low /\ one.does = sensor.does
  BY DEF SensorType
<1> HIDE DEF one, two
<1>3. /\ two \in SensorType /\ two.low = sensor.low /\ two.does = sensor.does
      /\ two.done = d
  BY <1>1, <1>2 DEF SensorType
<1> QED
  BY <1>3 DEF two

LEMMA CommandType ==
  ASSUME sensor \in SensorType, NEW b \in {"read", "write", "low", "temp", "humi"}
  PROVE  /\ Humi!Command(b) \in SensorType
         /\ Humi!Command(b).low = (IF b = "low" THEN TRUE ELSE sensor.low)
         /\ Humi!Command(b).does = IF b = "read" THEN "reg" ELSE IF b = "low" THEN sensor.does
                              ELSE IF b = "write" THEN "none" ELSE b
<1>1. CASE b = "low"
  BY <1>1 DEF Humi!Command, SensorType
<1>2. CASE b = "read"
  <2>1. Humi!Command(b) = Humi!Doing("reg", TRUE)
    BY <1>2 DEF Humi!Command
  <2> QED
    BY <1>2, <2>1, DoingType
<1>3. CASE b = "write"
  <2>1. Humi!Command(b) = Humi!Doing("none", FALSE)
    BY <1>3 DEF Humi!Command
  <2> QED
    BY <1>3, <2>1, DoingType
<1>4. CASE b \in {"temp", "humi"}
  <2>1. Humi!Command(b) = Humi!Doing(b, FALSE)
    BY <1>4 DEF Humi!Command
  <2> QED
    BY <1>4, <2>1, DoingType
<1> QED
  BY <1>1, <1>2, <1>3, <1>4

LEMMA TransferredType ==
  ASSUME NEW l \in 0 .. Humi!DATA_LEN, NEW c \in 0 .. Humi!DATA_LEN, Humi!Transferred(l, c)
  PROVE  /\ xfer' \in [open : BOOLEAN, left : 0 .. Humi!DATA_LEN, cnt : 0 .. Humi!DATA_LEN]
         /\ xfer'.open /\ xfer'.left = l /\ xfer'.cnt = c
  BY DEF Humi!Transferred, Humi!DATA_LEN

(* The start of a measurement.                                                   *)
LEMMA BeginKeeps == HInv /\ Humi!Begin => HInv'
<1> SUFFICES ASSUME HInv, Humi!Begin PROVE HInv'
  OBVIOUS
<1> USE DEF HInv, Humi!DATA_LEN
<1>1. /\ hPc = "off" /\ hPc' = "askReg" /\ run' = run + 1
      /\ sensor' = [sensor EXCEPT !.on = TRUE]
      /\ UNCHANGED <<xfer, aa, success, hBuf>>
  BY DEF Humi!Begin
<1>2. HumiTypeOK'
  <2>1. sensor' \in SensorType
    BY <1>1 DEF HumiTypeOK, SensorType
  <2>2. run' \in Nat
    BY <1>1 DEF HumiTypeOK
  <2> QED
    BY <1>1, <2>1, <2>2 DEF HumiTypeOK, Writing, Reading, Waiting
<1>3. Transfer'
  BY <1>1 DEF HumiTypeOK, Transfer, Humi!Closed, Waiting, Bound
<1>4. Sensing'
  BY <1>1 DEF HumiTypeOK, SensorType, Sensing
<1>5. Bytewise'
  BY <1>1 DEF Bytewise, HasTemp
<1> QED
  BY <1>2, <1>3, <1>4, <1>5

(* An address on the bus.                                                        *)
LEMMA AddressKeeps == HInv /\ (Humi!AddressWrite \/ Humi!AddressRead) => HInv'
<1> SUFFICES ASSUME HInv, Humi!AddressWrite \/ Humi!AddressRead PROVE HInv'
  OBVIOUS
<1> USE DEF HInv, Humi!DATA_LEN
<1>1. /\ UNCHANGED <<hPc, success, hBuf, run>>
      /\ hPc \in Writing \cup Reading /\ ~xfer.open
      /\ aa' \in BOOLEAN
      /\ sensor' = sensor \/ sensor' = [sensor EXCEPT !.drives = TRUE]
  BY Domains DEF Humi!AddressWrite, Humi!AddressRead, HumiTypeOK
<1>2. /\ Humi!Transferred(Bound(hPc), 0) \/ Humi!Transferred(0, 0)
      /\ hPc \in Reading => sensor.done \/ Humi!Transferred(0, 0)
  <2>1. CASE Humi!AddressWrite
    <3>1. hPc \in Writing /\ hPc \notin Reading /\ Len(Humi!Writes[hPc]) = Bound(hPc)
      BY <2>1, Domains DEF Humi!AddressWrite, Writing, Reading
    <3> QED
      BY <2>1, <3>1 DEF Humi!AddressWrite, Humi!Acked, Humi!Refused
  <2>2. CASE Humi!AddressRead
    <3>1. hPc \in Reading /\ Humi!Reads[hPc] = Bound(hPc)
      BY <2>2, Domains DEF Humi!AddressRead
    <3>2. (sensor.done /\ Humi!Acked(Humi!Reads[hPc])) \/ Humi!Refused
      BY <2>2 DEF Humi!AddressRead
    <3> QED
      BY <3>1, <3>2 DEF Humi!Acked, Humi!Refused
  <2> QED
    BY <2>1, <2>2
<1>3. /\ xfer' \in [open : BOOLEAN, left : 0 .. Humi!DATA_LEN, cnt : 0 .. Humi!DATA_LEN]
      /\ xfer'.open /\ xfer'.cnt = 0 /\ xfer'.left \in {0, Bound(hPc)}
      /\ Bound(hPc) \in Nat
      /\ hPc \in Reading /\ xfer'.left > 0 => sensor.done
  <2>1. Bound(hPc) \in 0 .. Humi!DATA_LEN
    BY <1>1, BoundType
  <2>2. CASE Humi!Transferred(0, 0)
    BY <2>1, <2>2, TransferredType
  <2>3. CASE Humi!Transferred(Bound(hPc), 0) /\ ~Humi!Transferred(0, 0)
    BY <1>2, <2>1, <2>3, TransferredType
  <2> QED
    BY <1>2, <2>2, <2>3
<1>4. /\ sensor' \in SensorType /\ sensor'.low = sensor.low
      /\ sensor'.does = sensor.does /\ sensor'.done = sensor.done
  BY <1>1 DEF HumiTypeOK, SensorType
<1>5. HumiTypeOK'
  BY <1>1, <1>3, <1>4 DEF HumiTypeOK
<1>6. Transfer'
  BY <1>1, <1>3 DEF Transfer, Waiting, Writing, Reading
<1>7. Sensing'
  BY <1>1, <1>2, <1>3, <1>4 DEF Sensing, Reading
<1>8. Bytewise'
  BY <1>1, <1>3, <1>4 DEF Bytewise, HasTemp
<1> QED
  BY <1>5, <1>6, <1>7, <1>8

(* A byte that is written: taken, not acknowledged, or lost to an error.         *)
LEMMA WriteKeeps == HInv /\ Humi!ByteWritten => HInv'
<1> SUFFICES ASSUME HInv, Humi!ByteWritten PROVE HInv'
  OBVIOUS
<1> USE DEF HInv, Humi!DATA_LEN
<1> DEFINE b == Humi!Writes[hPc][xfer.cnt + 1]
<1>1. /\ UNCHANGED <<hPc, aa, success, hBuf, run>>
      /\ hPc \in Writing /\ xfer.open /\ xfer.left > 0
      /\ xfer.cnt + xfer.left = Bound(hPc) /\ Bound(hPc) \in 1 .. Humi!DATA_LEN
      /\ xfer.left \in Nat /\ xfer.cnt \in Nat
  BY Domains, BoundType DEF Humi!ByteWritten, Transfer, HumiTypeOK
<1>2. /\ b \in {"read", "write", "low", "temp", "humi"}
      /\ hPc = "askReg" => b = "read"
      /\ hPc = "setReg" => b = IF xfer.cnt = 0 THEN "write" ELSE "low"
      /\ hPc = "temp" => b = "temp"
      /\ hPc = "humi" => b = "humi"
  BY <1>1 DEF Humi!Writes, Writing, Bound
<1>3. \/ Humi!Transferred(xfer.left - 1, xfer.cnt + 1) /\ sensor' = Humi!Command(b)
      \/ Humi!Transferred(0, xfer.cnt + 1) /\ sensor' = sensor
      \/ Humi!Transferred(0, xfer.cnt) /\ sensor' = sensor
  BY DEF Humi!ByteWritten
<1>4. /\ xfer' \in [open : BOOLEAN, left : 0 .. Humi!DATA_LEN, cnt : 0 .. Humi!DATA_LEN]
      /\ xfer'.open
      /\ xfer'.cnt <= Bound(hPc)
      /\ xfer'.left > 0 => /\ xfer'.cnt + xfer'.left = Bound(hPc)
                           /\ xfer'.cnt = xfer.cnt + 1
                           /\ sensor' = Humi!Command(b)
  <2>1. /\ xfer.left - 1 \in 0 .. Humi!DATA_LEN /\ xfer.cnt + 1 \in 0 .. Humi!DATA_LEN
        /\ xfer.cnt \in 0 .. Humi!DATA_LEN /\ 0 \in 0 .. Humi!DATA_LEN
    BY <1>1
  <2>2. CASE Humi!Transferred(xfer.left - 1, xfer.cnt + 1) /\ sensor' = Humi!Command(b)
    BY <1>1, <2>1, <2>2, TransferredType
  <2>3. CASE Humi!Transferred(0, xfer.cnt + 1)
    BY <1>1, <2>1, <2>3, TransferredType
  <2>4. CASE Humi!Transferred(0, xfer.cnt)
    BY <1>1, <2>1, <2>4, TransferredType
  <2> QED
    BY <1>3, <2>2, <2>3, <2>4
<1>5. CASE sensor' = Humi!Command(b)
  <2>1. /\ sensor' \in SensorType
        /\ sensor'.low = (IF b = "low" THEN TRUE ELSE sensor.low)
        /\ sensor'.does = IF b = "read" THEN "reg" ELSE IF b = "low" THEN sensor.does
                          ELSE IF b = "write" THEN "none" ELSE b
    BY <1>2, <1>5, CommandType DEF HumiTypeOK
  <2>2. HumiTypeOK' /\ Transfer'
    BY <1>1, <1>4, <2>1 DEF HumiTypeOK, Transfer, Waiting, Writing
  <2>3. b = "low" => sensor.does = "none"
    BY <1>1, <1>2 DEF Sensing, Writing
  <2>4. hPc = "setReg" /\ xfer'.left > 0 => b = "write"
    BY <1>1, <1>2, <1>4 DEF Bound
  <2>5. Sensing'
    BY <1>1, <1>2, <2>1, <2>3, <2>4 DEF Sensing, Writing
  <2>6. Bytewise'
    BY <1>1, <1>2, <2>1 DEF Bytewise, HasTemp, Writing
  <2> QED
    BY <2>2, <2>5, <2>6
<1>6. CASE sensor' = sensor /\ sensor' # Humi!Command(b)
  <2>1. xfer'.left = 0
    BY <1>4, <1>6
  <2>2. HumiTypeOK' /\ Transfer'
    BY <1>1, <1>4, <1>6 DEF HumiTypeOK, Transfer, Waiting, Writing
  <2>3. Sensing'
    BY <1>1, <1>6, <2>1 DEF Sensing
  <2>4. Bytewise'
    BY <1>1, <1>6 DEF Bytewise, HasTemp, Writing
  <2> QED
    BY <2>2, <2>3, <2>4
<1> QED
  BY <1>3, <1>5, <1>6
(* A byte that is read, the last of a transfer or not, or lost to an error.      *)
LEMMA ReadKeeps == HInv /\ Humi!ByteRead => HInv'
<1> SUFFICES ASSUME HInv, Humi!ByteRead PROVE HInv'
  OBVIOUS
<1> USE DEF HInv, Humi!DATA_LEN
<1> DEFINE place == xfer.cnt + (IF hPc = "readHumi" THEN Humi!DATA_LEN + 1 ELSE 1)
           new == <<sensor.does, run, xfer.cnt + 1>>
<1>1. /\ UNCHANGED <<hPc, success, run>>
      /\ hPc \in Reading /\ xfer.open /\ xfer.left > 0
      /\ xfer.cnt + xfer.left = Bound(hPc) /\ Bound(hPc) \in 1 .. Humi!DATA_LEN
      /\ xfer.left \in Nat /\ xfer.cnt \in Nat
      /\ aa' \in BOOLEAN /\ (aa' => xfer.left > 1)
  <2>1. /\ UNCHANGED <<hPc, success, run>>
        /\ hPc \in Reading /\ xfer.open /\ xfer.left > 0
    BY Domains DEF Humi!ByteRead
  <2>2. /\ xfer.cnt + xfer.left = Bound(hPc) /\ Bound(hPc) \in 1 .. Humi!DATA_LEN
        /\ xfer.left \in Nat /\ xfer.cnt \in Nat
    BY <2>1, BoundType DEF Transfer, HumiTypeOK
  <2>3. aa' = (IF xfer.left = 1 THEN FALSE ELSE aa) /\ aa \in BOOLEAN
    BY DEF Humi!ByteRead, Humi!Acknowledges, HumiTypeOK
  <2>4. aa' \in BOOLEAN /\ (aa' => xfer.left # 1)
    BY <2>3
  <2> QED
    BY <2>1, <2>2, <2>4
<1>2. sensor' = [sensor EXCEPT !.drives = aa'] \/ sensor' = [sensor EXCEPT !.drives = FALSE]
  BY DEF Humi!ByteRead
<1>3. /\ sensor' \in SensorType /\ sensor'.low = sensor.low
      /\ sensor'.does = sensor.does /\ sensor'.done = sensor.done
  BY <1>1, <1>2 DEF HumiTypeOK, SensorType
<1>4. \/ /\ hBuf' = IF hPc = "getReg" THEN hBuf ELSE [hBuf EXCEPT ![place] = new]
         /\ Humi!Transferred(IF aa' THEN xfer.left - 1 ELSE 0, xfer.cnt + 1)
      \/ /\ \/ hBuf' = IF hPc = "getReg" THEN hBuf ELSE [hBuf EXCEPT ![place] = new]
            \/ hPc # "getReg" /\ hBuf' = [hBuf EXCEPT ![place] = <<"noise", 0, 0>>]
         /\ Humi!Transferred(0, xfer.cnt)
  BY DEF Humi!ByteRead
<1>5. /\ xfer' \in [open : BOOLEAN, left : 0 .. Humi!DATA_LEN, cnt : 0 .. Humi!DATA_LEN]
      /\ xfer'.open
      /\ xfer'.cnt <= Bound(hPc)
      /\ xfer'.left > 0 => xfer'.cnt + xfer'.left = Bound(hPc)
      /\ \/ xfer'.cnt = xfer.cnt
         \/ /\ xfer'.cnt = xfer.cnt + 1
            /\ hBuf' = IF hPc = "getReg" THEN hBuf ELSE [hBuf EXCEPT ![place] = new]
  <2>1. /\ (IF aa' THEN xfer.left - 1 ELSE 0) \in 0 .. Humi!DATA_LEN
        /\ xfer.cnt + 1 \in 0 .. Humi!DATA_LEN
        /\ xfer.cnt \in 0 .. Humi!DATA_LEN /\ 0 \in 0 .. Humi!DATA_LEN
    BY <1>1
  <2>2. CASE /\ hBuf' = IF hPc = "getReg" THEN hBuf ELSE [hBuf EXCEPT ![place] = new]
             /\ Humi!Transferred(IF aa' THEN xfer.left - 1 ELSE 0, xfer.cnt + 1)
    <3>1. /\ xfer' \in [open : BOOLEAN, left : 0 .. Humi!DATA_LEN, cnt : 0 .. Humi!DATA_LEN]
          /\ xfer'.open /\ xfer'.left = (IF aa' THEN xfer.left - 1 ELSE 0)
          /\ xfer'.cnt = xfer.cnt + 1
      BY <2>1, <2>2, TransferredType
    <3> QED
      BY <1>1, <2>2, <3>1
  <2>3. CASE Humi!Transferred(0, xfer.cnt)
    BY <1>1, <2>1, <2>3, TransferredType
  <2> QED
    BY <1>4, <2>2, <2>3
<1>6. place \in 1 .. 2 * Humi!DATA_LEN \/ hPc = "getReg"
  BY <1>1 DEF Bound, Reading
<1>7. /\ hBuf' \in [1 .. 2 * Humi!DATA_LEN -> Bytes]
      /\ \A n \in 1 .. 2 * Humi!DATA_LEN : n # place => hBuf'[n] = hBuf[n]
  <2>1. new \in Bytes /\ <<"noise", 0, 0>> \in Bytes
    BY <1>1 DEF HumiTypeOK, SensorType, Bytes
  <2>2. hBuf \in [1 .. 2 * Humi!DATA_LEN -> Bytes]
    BY DEF HumiTypeOK
  <2> HIDE DEF place, new
  <2> QED
    BY <1>4, <1>6, <2>1, <2>2
<1>8. HumiTypeOK'
  BY <1>1, <1>3, <1>5, <1>7 DEF HumiTypeOK
<1>9. Transfer'
  BY <1>1, <1>5 DEF Transfer, Waiting, Reading
<1>10. Sensing'
  BY <1>1, <1>3, <1>5 DEF Sensing, Reading
<1>11. Bytewise'
  <2>1. hPc \in {"readTemp", "readHumi"} =>
          /\ sensor.does # "none" /\ sensor.low /\ sensor.does # "reg"
          /\ xfer'.cnt = xfer.cnt + 1 => hBuf'[place] = new
    BY <1>1, <1>5, <1>6 DEF Sensing, HumiTypeOK
  <2>2. CASE hPc = "getReg"
    BY <1>1, <2>2 DEF Bytewise, HasTemp
  <2>3. CASE hPc = "readTemp"
    <3>1. sensor.does = "temp"
      BY <2>1, <2>3 DEF Sensing, HumiTypeOK, SensorType
    <3>2. \A n \in 1 .. xfer.cnt : hBuf'[n] = <<"temp", run, n>>
      BY <1>1, <1>7, <2>3 DEF Bytewise, Bound
    <3>3. xfer'.cnt = xfer.cnt + 1 => hBuf'[xfer'.cnt] = <<"temp", run, xfer'.cnt>>
      BY <2>1, <2>3, <3>1
    <3>4. \A n \in 1 .. xfer'.cnt : n \in 1 .. xfer.cnt \/ (n = xfer'.cnt /\ xfer'.cnt = xfer.cnt + 1)
      BY <1>1, <1>5
    <3>5. \A n \in 1 .. xfer'.cnt : hBuf'[n] = <<"temp", run, n>>
      BY <3>2, <3>3, <3>4
    <3> QED
      BY <1>1, <2>3, <3>5 DEF Bytewise, HasTemp
  <2>4. CASE hPc = "readHumi"
    <3>1. sensor.does = "humi"
      BY <2>1, <2>4 DEF Bytewise, HasTemp
    <3>2. \A n \in 1 .. xfer.cnt : hBuf'[Humi!DATA_LEN + n] = <<"humi", run, n>>
      BY <1>1, <1>7, <2>4 DEF Bytewise, Bound
    <3>3. xfer'.cnt = xfer.cnt + 1 => hBuf'[Humi!DATA_LEN + xfer'.cnt] = <<"humi", run, xfer'.cnt>>
      BY <1>1, <2>1, <2>4, <3>1
    <3>4. \A n \in 1 .. xfer'.cnt : n \in 1 .. xfer.cnt \/ (n = xfer'.cnt /\ xfer'.cnt = xfer.cnt + 1)
      BY <1>1, <1>5
    <3>5. \A n \in 1 .. xfer'.cnt : hBuf'[Humi!DATA_LEN + n] = <<"humi", run, n>>
      BY <3>2, <3>3, <3>4
    <3>6. \A n \in 1 .. Humi!DATA_LEN : hBuf'[n] = <<"temp", run, n>>
      BY <1>1, <1>7, <2>4 DEF Bytewise, HasTemp
    <3> QED
      BY <1>1, <1>3, <2>4, <3>1, <3>5, <3>6 DEF Bytewise, HasTemp
  <2> QED
    BY <1>1, <2>2, <2>3, <2>4 DEF Reading
<1> QED
  BY <1>8, <1>9, <1>10, <1>11
(* What the caller does with the number of bytes.                                *)
Following(ok) ==
  \/ hPc = "askReg" /\ hPc' \in {"getReg", "setReg"} /\ success' = success
  \/ hPc = "getReg" /\ hPc' = "setReg" /\ success' = success
  \/ hPc = "setReg" /\ hPc' = "temp" /\ success' = FALSE
  \/ hPc = "temp" /\ hPc' = "wait15" /\ success' = ok
  \/ hPc = "readTemp" /\ hPc' = (IF ok THEN "humi" ELSE "wait20") /\ success' = ok
  \/ hPc = "humi" /\ hPc' = "wait20" /\ success' = ok
  \/ hPc = "readHumi" /\ hPc' = "done" /\ success' = ok

LEMMA ReturnFollows ==
  ASSUME NEW ok \in BOOLEAN, hPc \in Writing \cup Reading, Humi!Return(ok)
  PROVE  Following(ok)
<1>1. CASE hPc \in {"askReg", "getReg", "setReg"}
  BY <1>1 DEF Humi!Return, Humi!HalHumiInit, Following
<1>2. CASE hPc \in {"temp", "readTemp", "humi", "readHumi"}
  BY <1>2 DEF Humi!Return, Humi!HalHumiExecMeasurementStep, Following
<1> QED
  BY <1>1, <1>2 DEF Writing, Reading

(* The end of a transfer.                                                        *)
LEMMA StopKeeps == HInv /\ Humi!I2C_STOP => HInv'
<1> SUFFICES ASSUME HInv, Humi!I2C_STOP PROVE HInv'
  OBVIOUS
<1> USE DEF HInv, Humi!DATA_LEN
<1> DEFINE ok == Humi!Went(xfer.cnt)
<1>1. /\ UNCHANGED <<aa, hBuf, run>> /\ xfer' = Humi!Closed
      /\ xfer.open /\ hPc \in Writing \cup Reading
      /\ hPc \in Waiting \cup Writing \cup Reading
  BY DEF Humi!I2C_STOP, Transfer, HumiTypeOK
<1>2. ok \in BOOLEAN /\ (hPc \in Reading => (ok <=> xfer.cnt = Bound(hPc)))
  BY <1>1, Domains DEF Humi!Went, Writing, Reading
<1>3. Following(ok)
  <2>1. Humi!Return(ok)
    BY DEF Humi!I2C_STOP
  <2> HIDE DEF ok
  <2> QED
    BY <1>1, <1>2, <2>1, ReturnFollows
<1> HIDE DEF ok
<1>4. /\ sensor' \in SensorType /\ sensor'.low = sensor.low
      /\ \/ sensor' = sensor /\ (hPc \in Reading => xfer.cnt = 0)
         \/ hPc \in Reading /\ sensor'.does = "none" /\ sensor'.done = FALSE
  <2>1. sensor' = IF hPc \in Reading /\ xfer.cnt > 0 THEN Humi!Doing("none", FALSE) ELSE sensor
    BY Domains DEF Humi!I2C_STOP
  <2>2. sensor \in SensorType /\ xfer.cnt \in Nat
    BY DEF HumiTypeOK
  <2>3. /\ Humi!Doing("none", FALSE) \in SensorType /\ Humi!Doing("none", FALSE).low = sensor.low
        /\ Humi!Doing("none", FALSE).does = "none" /\ Humi!Doing("none", FALSE).done = FALSE
    BY <2>2, DoingType
  <2>4. CASE hPc \in Reading /\ xfer.cnt > 0
    BY <2>1, <2>3, <2>4, Zenon
  <2>5. CASE ~(hPc \in Reading /\ xfer.cnt > 0)
    <3>1. sensor' = sensor
      BY <2>1, <2>5, Zenon
    <3>2. hPc \in Reading => xfer.cnt = 0
      BY <2>2, <2>5
    <3> QED
      BY <2>2, <3>1, <3>2, Zenon
  <2> QED
    BY <2>4, <2>5
<1>5. HumiTypeOK'
  <2>1. hPc' \in Waiting \cup Writing \cup Reading /\ success' \in BOOLEAN
    BY <1>2, <1>3 DEF Following, HumiTypeOK, Waiting, Writing, Reading
  <2>2. xfer' \in [open : BOOLEAN, left : 0 .. Humi!DATA_LEN, cnt : 0 .. Humi!DATA_LEN]
    BY <1>1 DEF Humi!Closed
  <2> QED
    BY <1>1, <1>4, <2>1, <2>2 DEF HumiTypeOK
<1>6. ~xfer'.open /\ xfer'.left = 0 /\ xfer'.cnt = 0
  BY <1>1 DEF Humi!Closed
<1>7. Transfer'
  BY <1>1, <1>6 DEF Transfer, Bound
<1>8. Sensing'
  BY <1>1, <1>3, <1>4, <1>6 DEF Following, Sensing, Reading
<1>9. Bytewise'
  <2>1. CASE hPc \in {"askReg", "getReg", "setReg", "temp"}
    BY <1>3, <1>6, <2>1 DEF Following, Bytewise, HasTemp
  <2>2. CASE hPc = "readTemp"
    <3>1. CASE ok
      <4>1. xfer.cnt = 3 /\ hPc' = "humi" /\ hPc \in Reading
        BY <1>2, <1>3, <2>2, <3>1 DEF Following, Bound, Reading
      <4>2. sensor'.does = "none"
        BY <1>4, <4>1
      <4> QED
        BY <1>1, <2>2, <4>1, <4>2 DEF Bytewise, HasTemp
    <3>2. CASE ~ok
      BY <1>3, <2>2, <3>2 DEF Following, Bytewise, HasTemp
    <3> QED
      BY <3>1, <3>2
  <2>3. CASE hPc = "humi"
    BY <1>1, <1>3, <1>4, <2>3 DEF Following, Bytewise, HasTemp, Reading
  <2>4. CASE hPc = "readHumi"
    <3>1. hPc' = "done" /\ success' = ok
      BY <1>3, <2>4 DEF Following
    <3>2. ok => xfer.cnt = 3
      BY <1>2, <2>4 DEF Bound, Reading
    <3>3. sensor'.does \in {"none", "humi"}
      BY <1>4, <2>4 DEF Bytewise, HasTemp
    <3> QED
      BY <1>1, <2>4, <3>1, <3>2, <3>3 DEF Bytewise, HasTemp
  <2> QED
    BY <1>1, <2>1, <2>2, <2>3, <2>4 DEF Writing, Reading
<1> QED
  BY <1>5, <1>7, <1>8, <1>9

(* The end of a wait for a measurement.                                          *)
LEMMA WaitKeeps ==
  HInv /\ (Humi!Waited("wait15", "readTemp", "wait20") \/ Humi!Waited("wait20", "readHumi", "done"))
  => HInv'
<1> SUFFICES ASSUME HInv, \/ Humi!Waited("wait15", "readTemp", "wait20")
                          \/ Humi!Waited("wait20", "readHumi", "done")
             PROVE  HInv'
  OBVIOUS
<1> USE DEF HInv, Humi!DATA_LEN
<1> DEFINE d == sensor.does # "none" /\ sensor.low
<1>1. /\ UNCHANGED <<xfer, aa, success, hBuf, run>>
      /\ \/ hPc = "wait15" /\ hPc' = IF success THEN "readTemp" ELSE "wait20"
         \/ hPc = "wait20" /\ hPc' = IF success THEN "readHumi" ELSE "done"
      /\ sensor' = [sensor EXCEPT !.awake = TRUE, !.done = d]
  BY DEF Humi!Waited
<1>2. /\ sensor' \in SensorType /\ sensor'.low = sensor.low
      /\ sensor'.does = sensor.does
      /\ sensor'.done => sensor.does # "none" /\ sensor.low
  <2>1. sensor \in SensorType /\ d \in BOOLEAN
    BY DEF HumiTypeOK
  <2>2. d => sensor.does # "none" /\ sensor.low
    OBVIOUS
  <2> HIDE DEF d
  <2> QED
    BY <1>1, <2>1, <2>2, WaitedType, Zenon
<1>3. xfer' = xfer /\ xfer.left = 0 /\ xfer.cnt = 0 /\ ~xfer.open
  BY <1>1 DEF Transfer, Humi!Closed, Waiting
<1>4. HumiTypeOK'
  BY <1>1, <1>2 DEF HumiTypeOK, Waiting, Reading
<1>5. Transfer'
  BY <1>1, <1>3 DEF Transfer, Bound, Waiting
<1>6. Sensing'
  BY <1>1, <1>2, <1>3 DEF Sensing
<1>7. Bytewise'
  BY <1>1, <1>2, <1>3 DEF Bytewise, HasTemp
<1> QED
  BY <1>4, <1>5, <1>6, <1>7

(* The end of a measurement, and the sensor's start.                             *)
LEMMA RestKeeps == HInv /\ (Humi!Deliver \/ Humi!SensorWakes \/ UNCHANGED Humi!vars) => HInv'
<1> SUFFICES ASSUME HInv, Humi!Deliver \/ Humi!SensorWakes \/ UNCHANGED Humi!vars PROVE HInv'
  OBVIOUS
<1> USE DEF HInv, Humi!DATA_LEN
<1>1. CASE Humi!Deliver
  <2>1. /\ hPc' = "off" /\ hPc = "done" /\ sensor' = Humi!Off
        /\ UNCHANGED <<xfer, aa, success, hBuf, run>>
    BY <1>1 DEF Humi!Deliver
  <2>2. sensor' \in SensorType /\ ~sensor'.low /\ sensor'.does = "none" /\ ~sensor'.done
    BY <2>1 DEF Humi!Off, SensorType
  <2>3. HumiTypeOK' /\ Transfer' /\ Sensing' /\ Bytewise'
    BY <2>1, <2>2 DEF HumiTypeOK, Transfer, Sensing, Bytewise, HasTemp, Waiting, Humi!Closed, Bound
  <2> QED
    BY <2>3
<1>2. CASE Humi!SensorWakes \/ UNCHANGED Humi!vars
  <2>1. /\ UNCHANGED <<hPc, xfer, aa, success, hBuf, run>>
        /\ sensor' = sensor \/ sensor' = [sensor EXCEPT !.awake = TRUE]
    BY <1>2 DEF Humi!SensorWakes, Humi!vars
  <2>2. /\ sensor' \in SensorType /\ sensor'.low = sensor.low
        /\ sensor'.does = sensor.does /\ sensor'.done = sensor.done
    BY <2>1 DEF HumiTypeOK, SensorType
  <2>3. HumiTypeOK'
    BY <2>1, <2>2 DEF HumiTypeOK
  <2>4. Transfer' /\ Sensing' /\ Bytewise'
    BY <2>1, <2>2 DEF Transfer, Sensing, Bytewise, HasTemp
  <2> QED
    BY <2>3, <2>4
<1> QED
  BY <1>1, <1>2

LEMMA HStep == HInv /\ [Humi!Next]_(Humi!vars) => HInv'
  BY BeginKeeps, AddressKeeps, WriteKeeps, ReadKeeps, StopKeeps, WaitKeeps, RestKeeps DEF Humi!Next

LEMMA HInit == Humi!Init => HInv
<1> SUFFICES ASSUME Humi!Init PROVE HInv
  OBVIOUS
<1> USE DEF Humi!DATA_LEN
<1>1. HumiTypeOK
  <2>1. <<"none", 0, 0>> \in Bytes /\ Humi!Closed \in [open : BOOLEAN, left : 0 .. 3, cnt : 0 .. 3]
    BY DEF Bytes, Humi!Closed
  <2>2. Humi!Off \in SensorType
    BY DEF Humi!Off, SensorType
  <2> QED
    BY <2>1, <2>2 DEF Humi!Init, HumiTypeOK, Waiting
<1>2. Transfer /\ Sensing /\ Bytewise
  BY DEF Humi!Init, Transfer, Sensing, Bytewise, HasTemp, Humi!Closed, Humi!Off, Waiting, Bound
<1> QED
  BY <1>1, <1>2 DEF HInv

(* When the six bytes of a measurement are told to be good, they are those of    *)
(* this measurement and in their places.                                         *)
LEMMA HInvSuffices == HInv => Humi!SuccessIsFresh
<1> SUFFICES ASSUME HInv, hPc = "done", success
             PROVE  hBuf = Humi!Result("temp", run) \o Humi!Result("humi", run)
  BY DEF Humi!SuccessIsFresh
<1>1. /\ \A n \in 1 .. 3 : hBuf[n] = <<"temp", run, n>>
      /\ \A n \in 1 .. 3 : hBuf[3 + n] = <<"humi", run, n>>
      /\ hBuf \in [1 .. 6 -> Bytes]
  BY DEF HInv, HumiTypeOK, Bytewise, HasTemp, Humi!DATA_LEN
<1> DEFINE S == Bytes
           t == Humi!Result("temp", run)
           h == Humi!Result("humi", run)
<1>2. t \in [1 .. 3 -> S] /\ h \in [1 .. 3 -> S] /\ hBuf \in [1 .. 6 -> S]
  <2>1. run \in Nat
    BY DEF HInv, HumiTypeOK
  <2>2. \A n \in 1 .. 3 : <<"temp", run, n>> \in Bytes /\ <<"humi", run, n>> \in Bytes
    BY <2>1 DEF Bytes
  <2> QED
    BY <1>1, <2>2 DEF Humi!Result, Humi!DATA_LEN
<1>3. \A n \in 1 .. 3 : t[n] = <<"temp", run, n>> /\ h[n] = <<"humi", run, n>>
  BY DEF Humi!Result, Humi!DATA_LEN
<1> HIDE DEF S, t, h
<1>4. /\ t \in Seq(S) /\ h \in Seq(S) /\ hBuf \in Seq(S)
      /\ Len(t) = 3 /\ Len(h) = 3 /\ Len(hBuf) = 6
  <2>1. t \in Seq(S) /\ h \in Seq(S) /\ hBuf \in Seq(S)
    BY <1>2, SeqDef, 3 \in Nat, 6 \in Nat, Zenon
  <2> QED
    BY <1>2, <2>1, LenProperties
<1>5. /\ t \o h \in Seq(S) /\ Len(t \o h) = 6
      /\ \A n \in 1 .. 6 : (t \o h)[n] = IF n <= 3 THEN t[n] ELSE h[n - 3]
  <2>1. /\ t \o h \in Seq(S) /\ Len(t \o h) = Len(t) + Len(h)
        /\ \A n \in 1 .. Len(t) + Len(h) :
             (t \o h)[n] = IF n <= Len(t) THEN t[n] ELSE h[n - Len(t)]
    BY <1>4, ConcatProperties, Zenon
  <2> DEFINE u == t \o h
  <2> HIDE DEF u
  <2>2. /\ u \in Seq(S) /\ Len(u) = 6
        /\ \A n \in 1 .. 6 : u[n] = IF n <= 3 THEN t[n] ELSE h[n - 3]
    BY <1>4, <2>1 DEF u
  <2> QED
    BY <2>2 DEF u
<1>6. \A n \in 1 .. 6 : hBuf[n] = (t \o h)[n]
  <2>1. \A n \in 1 .. 3 : hBuf[n] = t[n] /\ hBuf[3 + n] = h[n]
    BY <1>1, <1>3
  <2>2. \A n \in 1 .. 6 : n \in 1 .. 3 \/ (n - 3 \in 1 .. 3 /\ n = 3 + (n - 3) /\ ~(n <= 3))
    OBVIOUS
  <2>3. ASSUME NEW n \in 1 .. 3 PROVE hBuf[n] = (t \o h)[n]
    BY <1>5, <2>1
  <2>4. ASSUME NEW n \in 1 .. 6, n - 3 \in 1 .. 3, n = 3 + (n - 3), ~(n <= 3)
        PROVE  hBuf[n] = (t \o h)[n]
    BY <1>5, <2>1, <2>4
  <2> QED
    BY <2>2, <2>3, <2>4
<1>7. hBuf = t \o h
  BY <1>4, <1>5, <1>6, SeqEqual
<1> QED
  BY <1>7 DEF t, h

(* The diodes: the pins of each, by its number.                                  *)
PinOf(d, n) == Diodes!temp_pins_cfg[Diodes!temp_diodes_cfg[d][n]]

LEMMA PinsDiffer ==
  \A d \in 1 .. 16 :
    /\ PinOf(d, 1) # PinOf(d, 2) /\ PinOf(d, 1) # PinOf(d, 3) /\ PinOf(d, 2) # PinOf(d, 3)
    /\ PinOf(d, 3) = <<0, PinOf(d, 3)[2]>>
    /\ Diodes!temp_diodes_cfg[d][1] \notin Diodes!Analog
    /\ Diodes!temp_diodes_cfg[d][2] \in Diodes!Analog
    /\ Diodes!temp_diodes_cfg[d][3] \in Diodes!Analog
<1> USE DEF PinOf, Diodes!temp_pins_cfg, Diodes!temp_diodes_cfg, Diodes!Analog, Diodes!D1,
        Diodes!D2, Diodes!D3, Diodes!D4, Diodes!D5, Diodes!A1, Diodes!A2, Diodes!A3,
        Diodes!A4, Diodes!A5
<1> SUFFICES ASSUME NEW d \in 1 .. 16
             PROVE  /\ PinOf(d, 1) # PinOf(d, 2) /\ PinOf(d, 1) # PinOf(d, 3)
                    /\ PinOf(d, 2) # PinOf(d, 3)
                    /\ PinOf(d, 3) = <<0, PinOf(d, 3)[2]>>
                    /\ Diodes!temp_diodes_cfg[d][1] \notin Diodes!Analog
                    /\ Diodes!temp_diodes_cfg[d][2] \in Diodes!Analog
                    /\ Diodes!temp_diodes_cfg[d][3] \in Diodes!Analog
  OBVIOUS
<1>1. CASE d \in 1 .. 4
  BY <1>1
<1>2. CASE d \in 5 .. 8
  BY <1>2
<1>3. CASE d \in 9 .. 12
  BY <1>3
<1>4. CASE d \in 13 .. 16
  BY <1>4
<1>5. \A n \in 1 .. 16 : \/ n \in 1 .. 4 \/ n \in 5 .. 8 \/ n \in 9 .. 12 \/ n \in 13 .. 16
  BY ONLY TRUE
<1>6. \/ d \in 1 .. 4 \/ d \in 5 .. 8 \/ d \in 9 .. 12 \/ d \in 13 .. 16
  BY <1>5, Zenon
<1> QED
  BY ONLY <1>1, <1>2, <1>3, <1>4, <1>6, Zenon

LEMMA Count == Len(Diodes!temp_diodes_cfg) = 16
  BY DEF Diodes!temp_diodes_cfg

(* What HalTempRead does next, and which diode's reading comes next.             *)
Reads == {"vdd", "gnd", "adc", "convert", "vdd off", "gnd off", "adc off"}
Taken == IF dPc \in {"vdd", "gnd", "adc", "convert"} THEN dIx - 1 ELSE dIx

(* The registers: between two diodes nothing is left of the one before, and each *)
(* step adds or takes away its own pin alone.                                    *)
Registers ==
  /\ dPc \in {"rest", "vdd", "gnd"} => SEL = {} /\ APCFG = {}
  /\ dPc \in {"rest", "vdd"} => DIR = {}
  /\ dPc = "gnd" => DIR = {PinOf(dIx, 1)} /\ PinOf(dIx, 1) \in dP
  /\ dPc = "adc" => SEL = {} /\ APCFG = {}
  /\ dPc \in {"adc", "convert"} =>
       DIR = {PinOf(dIx, 1), PinOf(dIx, 2)} /\ PinOf(dIx, 1) \in dP /\ PinOf(dIx, 2) \notin dP
  /\ dPc = "convert" => SEL = {PinOf(dIx, 3)} /\ APCFG = {PinOf(dIx, 3)}
  /\ dPc = "vdd off" => DIR = {PinOf(dIx, 1), PinOf(dIx, 2)}
  /\ dPc = "gnd off" => DIR = {PinOf(dIx, 2)}
  /\ dPc = "adc off" => DIR = {}
  /\ dPc \in {"vdd off", "gnd off", "adc off"} => SEL = {PinOf(dIx, 3)} /\ APCFG = {}

Readings ==
  /\ dBuf \in Seq(Int)
  /\ dPc \in Reads => Len(dBuf) = Taken
  /\ dPc = "off" => dBuf = <<>>
  /\ dPc # "off" => volts \in [1 .. 16 -> Int] \/ dBuf = <<>>
  /\ dPc \in Reads => volts \in [1 .. 16 -> Int]

DInv ==
  /\ dPc \in {"off", "rest"} \cup Reads /\ dIx \in 1 .. 16
  /\ Registers /\ Readings
  /\ Diodes!ReadingIsItsDiode

LEMMA RoundsType ==
  /\ [d \in 1 .. 16 |-> 16 * d] \in [1 .. 16 -> Int]
  /\ [d \in 1 .. 16 |-> IF d % 2 = 0 THEN -1 ELSE 31] \in [1 .. 16 -> Int]
  /\ [d \in 1 .. 16 |-> 30000 - 100 * d] \in [1 .. 16 -> Int]
  OBVIOUS

LEMMA DInit == Diodes!Init => DInv
  BY DEF Diodes!Init, DInv, Registers, Readings, Reads, Diodes!ReadingIsItsDiode

LEMMA ResetKeeps == DInv /\ Diodes!temp_pins_reset => DInv'
  BY DEF Diodes!temp_pins_reset, DInv, Registers, Readings, Reads, Diodes!ReadingIsItsDiode

LEMMA CallKeeps == DInv /\ Diodes!Call => DInv'
<1> SUFFICES ASSUME DInv, Diodes!Call PROVE DInv'
  OBVIOUS
<1>1. /\ dPc = "rest" /\ dPc' = "vdd" /\ dIx' = 1 /\ dBuf' = <<>>
      /\ UNCHANGED <<DIR, SEL, dP, APCFG>>
      /\ volts' \in [1 .. 16 -> Int]
  <2>1. volts' \in [1 .. 16 -> Int]
    <3>1. \/ volts' = [d \in 1 .. 16 |-> 16 * d]
          \/ volts' = [d \in 1 .. 16 |-> IF d % 2 = 0 THEN -1 ELSE 31]
          \/ volts' = [d \in 1 .. 16 |-> 30000 - 100 * d]
      BY DEF Diodes!Call
    <3> QED
      BY <3>1
  <2> QED
    BY <2>1 DEF Diodes!Call, Diodes!registers
<1>2. Registers'
  BY <1>1 DEF DInv, Registers
<1>3. Readings'
  BY <1>1 DEF Readings, Reads, Taken
<1> QED
  BY <1>1, <1>2, <1>3 DEF DInv, Reads, Diodes!ReadingIsItsDiode

(* A pin that is switched on or off.                                             *)
LEMMA PinKeeps ==
  ASSUME DInv, UNCHANGED <<dIx, volts, dBuf>>,
         \/ /\ dPc = "vdd" /\ dPc' = "gnd"
            /\ Diodes!enable_temp_pin(Diodes!Pin(1), "vdd")
         \/ /\ dPc = "gnd" /\ dPc' = "adc"
            /\ Diodes!enable_temp_pin(Diodes!Pin(2), "gnd")
         \/ /\ dPc = "adc" /\ dPc' = "convert"
            /\ Diodes!enable_temp_pin(Diodes!Pin(3), "adc")
         \/ dPc = "vdd off" /\ dPc' = "gnd off" /\ Diodes!disable_temp_pin(Diodes!Pin(1))
         \/ dPc = "gnd off" /\ dPc' = "adc off" /\ Diodes!disable_temp_pin(Diodes!Pin(2))
  PROVE  DInv'
<1>1. /\ dIx \in 1 .. 16 /\ Registers /\ Readings /\ Diodes!ReadingIsItsDiode
      /\ UNCHANGED <<dIx, volts, dBuf>>
  BY DEF DInv
<1>2. \A n \in {1, 2, 3} : PinOf(dIx, n) = Diodes!temp_pins_cfg[Diodes!Pin(n)]
  BY DEF PinOf, Diodes!Pin
<1>3. /\ PinOf(dIx, 1) # PinOf(dIx, 2) /\ PinOf(dIx, 1) # PinOf(dIx, 3)
      /\ PinOf(dIx, 2) # PinOf(dIx, 3)
      /\ PinOf(dIx, 3) = <<0, PinOf(dIx, 3)[2]>>
      /\ Diodes!Pin(1) \notin Diodes!Analog /\ Diodes!Pin(2) \in Diodes!Analog
      /\ Diodes!Pin(3) \in Diodes!Analog
  BY <1>1, PinsDiffer DEF Diodes!Pin
<1>4. dPc' \in Reads /\ Registers'
  <2>1. CASE dPc = "vdd"
    <3>1. /\ dPc' = "gnd" /\ SEL' = SEL \ {PinOf(dIx, 1)}
          /\ DIR' = DIR \cup {PinOf(dIx, 1)}
          /\ dP' = dP \cup {PinOf(dIx, 1)} /\ APCFG' = APCFG
      BY <1>2, <2>1 DEF Diodes!enable_temp_pin, Diodes!Digital
    <3> QED
      BY <1>1, <2>1, <3>1 DEF Registers, Reads
  <2>2. CASE dPc = "gnd"
    <3>1. /\ dPc' = "adc" /\ SEL' = SEL \ {PinOf(dIx, 2)}
          /\ DIR' = DIR \cup {PinOf(dIx, 2)}
          /\ dP' = dP \ {PinOf(dIx, 2)} /\ APCFG' = APCFG
      BY <1>2, <2>2 DEF Diodes!enable_temp_pin, Diodes!Digital
    <3> QED
      BY <1>1, <1>3, <2>2, <3>1 DEF Registers, Reads
  <2>3. CASE dPc = "adc"
    <3>1. /\ dPc' = "convert" /\ SEL' = SEL \cup {PinOf(dIx, 3)}
          /\ DIR' = DIR \ {PinOf(dIx, 3)}
          /\ dP' = dP /\ APCFG' = APCFG \cup {PinOf(dIx, 3)}
      BY <1>2, <1>3, <2>3 DEF Diodes!enable_temp_pin, Diodes!Converter
    <3> QED
      BY <1>1, <1>3, <2>3, <3>1 DEF Registers, Reads
  <2>4. CASE dPc = "vdd off"
    <3>1. /\ dPc' = "gnd off" /\ SEL' = SEL \ {PinOf(dIx, 1)}
          /\ DIR' = DIR \ {PinOf(dIx, 1)}
          /\ dP' = dP /\ APCFG' = APCFG
      BY <1>2, <1>3, <2>4 DEF Diodes!disable_temp_pin
    <3> QED
      BY <1>1, <1>3, <2>4, <3>1 DEF Registers, Reads
  <2>5. CASE dPc = "gnd off"
    <3>1. /\ dPc' = "adc off" /\ SEL' = SEL \ {PinOf(dIx, 2)}
          /\ DIR' = DIR \ {PinOf(dIx, 2)}
          /\ dP' = dP /\ APCFG' = APCFG \ {PinOf(dIx, 2)}
      BY <1>2, <1>3, <2>5 DEF Diodes!disable_temp_pin
    <3> QED
      BY <1>1, <1>3, <2>5, <3>1 DEF Registers, Reads
  <2> QED
    BY <2>1, <2>2, <2>3, <2>4, <2>5
<1>5. Readings'
  <2>1. dPc \in Reads /\ Taken' = Taken
    BY <1>1 DEF Reads, Taken
  <2> QED
    BY <1>1, <1>4, <2>1 DEF Readings, Reads
<1> QED
  BY <1>1, <1>4, <1>5 DEF DInv, Diodes!ReadingIsItsDiode

(* The conversion: it is this diode's voltage.                                   *)
Convert ==
  /\ dPc = "convert" /\ dPc' = "vdd off"
  /\ Diodes!HalAdcRead(dIx, Diodes!temp_pins_cfg[Diodes!Pin(3)][2])
  /\ UNCHANGED <<DIR, SEL, dP, dIx, volts>>

LEMMA ConductsAlone ==
  DInv /\ Convert => Diodes!Conducts(dIx, Diodes!temp_pins_cfg[Diodes!Pin(3)][2])
<1> SUFFICES ASSUME DInv, Convert
             PROVE  Diodes!Conducts(dIx, Diodes!temp_pins_cfg[Diodes!Pin(3)][2])
  OBVIOUS
<1>1. dIx \in 1 .. 16 /\ Registers /\ dPc = "convert"
  BY DEF DInv, Convert
<1>2. PinOf(dIx, 3) = <<0, Diodes!temp_pins_cfg[Diodes!Pin(3)][2]>>
  BY <1>1, PinsDiffer DEF PinOf, Diodes!Pin
<1> QED
  BY <1>1, <1>2 DEF Registers, Diodes!Conducts, PinOf

LEMMA Converts ==
  ASSUME DInv, Convert
  PROVE  /\ dBuf' = Append(dBuf, Diodes!Degrees(volts[dIx]))
         /\ Diodes!Degrees(volts[dIx]) \in Int
         /\ APCFG' = APCFG \ {PinOf(dIx, 3)}
<1>1. dIx \in 1 .. 16 /\ volts[dIx] \in Int
  BY DEF DInv, Convert, Readings, Reads
<1>2. \A v \in Int : /\ (IF v < 0 THEN 0 ELSE v) \div 16 = Diodes!Degrees(v)
                     /\ Diodes!Degrees(v) \in Int
  BY DEF Diodes!Degrees
<1>3. PinOf(dIx, 3) = <<0, Diodes!temp_pins_cfg[Diodes!Pin(3)][2]>>
  BY <1>1, PinsDiffer DEF PinOf, Diodes!Pin
<1>4. Diodes!Sample(dIx, Diodes!temp_pins_cfg[Diodes!Pin(3)][2]) = volts[dIx]
  BY ConductsAlone DEF Diodes!Sample
<1> QED
  BY <1>1, <1>2, <1>3, <1>4 DEF Convert, Diodes!HalAdcRead

LEMMA ConvertKeeps == DInv /\ Convert => DInv'
<1> SUFFICES ASSUME DInv, Convert PROVE DInv'
  OBVIOUS
<1>0. dIx \in 1 .. 16
  BY DEF DInv
<1>1. /\ Registers /\ Readings /\ Diodes!ReadingIsItsDiode
      /\ dPc = "convert" /\ dPc' = "vdd off" /\ UNCHANGED <<DIR, SEL, dP, dIx, volts>>
  BY DEF DInv, Convert
<1> DEFINE r == Diodes!Degrees(volts[dIx])
<1>2. /\ dBuf' = Append(dBuf, r) /\ r \in Int
      /\ APCFG' = APCFG \ {PinOf(dIx, 3)}
  BY Converts
<1> HIDE DEF r
<1>3. dBuf \in Seq(Int) /\ Len(dBuf) = dIx - 1
  BY <1>1 DEF Readings, Reads, Taken
<1>4. /\ dBuf' \in Seq(Int) /\ Len(dBuf') = dIx
      /\ \A d \in 1 .. dIx - 1 : dBuf'[d] = dBuf[d]
      /\ dBuf'[dIx] = r
  <2>1. Len(Append(dBuf, r)) = Len(dBuf) + 1 /\ Append(dBuf, r) \in Seq(Int)
    BY <1>2, <1>3, AppendProperties
  <2>2. /\ \A d \in 1 .. Len(dBuf) : Append(dBuf, r)[d] = dBuf[d]
        /\ Append(dBuf, r)[Len(dBuf) + 1] = r
    BY <1>2, <1>3, AppendProperties
  <2>3. dIx - 1 + 1 = dIx
    BY <1>0
  <2> QED
    BY <1>2, <1>3, <2>1, <2>2, <2>3
<1>5. DOMAIN dBuf = 1 .. dIx - 1 /\ DOMAIN dBuf' = 1 .. dIx
  BY <1>3, <1>4, LenProperties
<1>6. \A d \in 1 .. dIx : d \in 1 .. dIx - 1 \/ d = dIx
  BY <1>0
<1>7. Diodes!ReadingIsItsDiode'
  <2>1. r = Diodes!Degrees(volts'[dIx])
    BY <1>1 DEF r
  <2> QED
    BY <1>1, <1>4, <1>5, <1>6, <2>1 DEF Diodes!ReadingIsItsDiode, Diodes!Degrees
<1>8. Registers'
  BY <1>0, <1>1, <1>2 DEF Registers
<1>9. Readings'
  BY <1>0, <1>1, <1>4 DEF Readings, Reads, Taken
<1> QED
  BY <1>0, <1>1, <1>7, <1>8, <1>9 DEF DInv, Reads

(* The converter's pin is switched off, and the next diode's turn comes.         *)
NextDiode ==
  /\ dPc = "adc off" /\ Diodes!disable_temp_pin(Diodes!Pin(3))
  /\ UNCHANGED <<volts, dBuf>>
  /\ \/ dIx = 16 /\ dPc' = "rest" /\ dIx' = dIx
     \/ dIx # 16 /\ dPc' = "vdd" /\ dIx' = dIx + 1

LEMMA NextDiodeKeeps == DInv /\ NextDiode => DInv'
<1> SUFFICES ASSUME DInv, NextDiode PROVE DInv'
  OBVIOUS
<1>0. /\ dIx \in 1 .. 16
      /\ \/ dPc' = "rest" /\ dIx' = dIx
         \/ dIx # 16 /\ dPc' = "vdd" /\ dIx' = dIx + 1
  BY DEF DInv, NextDiode
<1>1. /\ Registers /\ Readings /\ Diodes!ReadingIsItsDiode
      /\ dPc = "adc off" /\ UNCHANGED <<volts, dBuf>>
  BY DEF DInv, NextDiode
<1>2. PinOf(dIx, 3) = Diodes!temp_pins_cfg[Diodes!Pin(3)]
  BY DEF PinOf, Diodes!Pin
<1>3. DIR' = {} /\ SEL' = {} /\ APCFG' = {}
  BY <1>1, <1>2 DEF NextDiode, Diodes!disable_temp_pin, Registers
<1>4. dIx' \in 1 .. 16
  BY ONLY <1>0
<1>5. Registers'
  BY <1>0, <1>3 DEF Registers
<1>6. Readings'
  <2>1. Len(dBuf) = dIx /\ dPc' \in {"rest", "vdd"} /\ dPc' # "off" /\ dPc # "off"
    BY <1>0, <1>1 DEF Readings, Reads, Taken
  <2>2. dPc' = "vdd" => dIx = dIx' - 1
    BY ONLY <1>0
  <2>3. dPc' \in Reads => Taken' = Len(dBuf)
    BY <2>1, <2>2 DEF Reads, Taken
  <2> QED
    BY <1>1, <2>1, <2>3 DEF Readings, Reads
<1> QED
  BY <1>0, <1>1, <1>4, <1>5, <1>6 DEF DInv, Reads, Diodes!ReadingIsItsDiode

LEMMA DStep == DInv /\ [Diodes!Next]_(Diodes!vars) => DInv'
<1> SUFFICES ASSUME DInv, [Diodes!Next]_(Diodes!vars) PROVE DInv'
  OBVIOUS
<1>1. CASE Diodes!temp_pins_reset
  BY <1>1, ResetKeeps
<1>2. CASE Diodes!Call
  BY <1>2, CallKeeps
<1>3. CASE Diodes!HalTempRead
  BY <1>3, PinKeeps, ConvertKeeps, NextDiodeKeeps, Count
     DEF Diodes!HalTempRead, Convert, NextDiode
<1>4. CASE UNCHANGED Diodes!vars
  BY <1>4 DEF Diodes!vars, Diodes!registers, DInv, Registers, Readings, Reads, Taken,
              Diodes!ReadingIsItsDiode
<1> QED
  BY <1>1, <1>2, <1>3, <1>4 DEF Diodes!Next

(* One driver at a time: a step is one of the sensors', or leaves them alone.    *)
LEMMA OneAtATime ==
  [MCNext]_<<which, drivers>> => [Humi!Next]_(Humi!vars) /\ [Diodes!Next]_(Diodes!vars)
<1>1. UNCHANGED humiVars <=> UNCHANGED Humi!vars
  BY DEF humiVars, Humi!vars
<1>2. UNCHANGED diodeVars <=> UNCHANGED Diodes!vars
  BY DEF diodeVars, Diodes!vars, Diodes!registers
<1>3. UNCHANGED drivers => UNCHANGED humiVars /\ UNCHANGED diodeVars
  BY DEF drivers
<1> QED
  BY <1>1, <1>2, <1>3 DEF MCNext

(* The readings of the humidity sensor that are told to be good are of this      *)
(* measurement and in their places, and every reading of a diode is that         *)
(* diode's own, whatever was read before and however the pins were left.         *)
THEOREM SensorsTruth == MCSpec => []SensorsTellTruth
<1>1. MCInit => HInv /\ DInv
  <2>1. which # "diodes" /\ DIR = {} /\ SEL = {} /\ dP = {} /\ APCFG = {} /\ dPc = "off"
        /\ dIx = 1 /\ volts = 0 /\ dBuf = <<>> => DInv
    BY DEF DInv, Registers, Readings, Reads, Diodes!ReadingIsItsDiode
  <2> QED
    BY <2>1, HInit, DInit DEF MCInit
<1>2. HInv /\ DInv /\ [MCNext]_<<which, drivers>> => (HInv /\ DInv)'
  BY OneAtATime, HStep, DStep
<1>3. HInv /\ DInv => SensorsTellTruth
  BY HInvSuffices DEF DInv, SensorsTellTruth
<1> QED
  BY <1>1, <1>2, <1>3, PTL DEF MCSpec

------------------------------------------------------------------------------
(* Division, as far as the clocks need it.                                       *)
LEMMA Divided ==
  ASSUME NEW q \in Int, NEW d \in Nat \ {0}, NEW r \in 0 .. d - 1
  PROVE  (d * q + r) % d = r /\ (d * q + r) \div d = q
OBVIOUS

LEMMA Turned ==
  ASSUME NEW d \in Nat \ {0}, NEW r \in 0 .. 2 * d - 1
  PROVE  r % d = IF r < d THEN r ELSE r - d
OBVIOUS

LEMMA Around ==
  ASSUME NEW d \in Nat \ {0}, NEW a \in 0 .. d - 1, NEW b \in 0 .. d
  PROVE  /\ (a + b) % d = IF a + b < d THEN a + b ELSE a + b - d
         /\ (a + b) % d \in 0 .. d - 1
<1>1. a + b \in 0 .. 2 * d - 1
  OBVIOUS
<1>2. (a + b) % d = IF a + b < d THEN a + b ELSE a + b - d
  <2> DEFINE r == a + b
  <2>1. r \in 0 .. 2 * d - 1
    BY <1>1
  <2> HIDE DEF r
  <2>2. r % d = IF r < d THEN r ELSE r - d
    BY <2>1, Turned
  <2> QED
    BY <2>2 DEF r
<1> QED
  BY <1>2

------------------------------------------------------------------------------
Clock == [slow : {"RC", "XTAL"}, osc : {"HFRC", "XOSC"}, tick : SUBSET {0, 1, 2},
          clk : SUBSET {0, 1, 2}]

(* The command divides the ticks at least as far as the clock, and the crystal   *)
(* comes with the slow RC oscillator; while the application runs the status is   *)
(* the command's.                                                                *)
Fitting == {v \in Clock : v.clk \subseteq v.tick /\ (v.osc # "HFRC" => v.slow = "RC")}
ClocksRight ==
  /\ cmd \in Fitting /\ sta \in Clock
  /\ sta.osc # "HFRC" => sta.slow = "RC" /\ cmd.slow = "RC"
  /\ pPc = "app" => sta = cmd
  /\ pPc \in {"reset", "init32k", "initXosc"} => cmd.osc = "HFRC" /\ sta.osc = "HFRC"

(* The engine is in reset for a deep sleep only, and the crystal is asked for    *)
(* behind one.                                                                   *)
EngineRight ==
  /\ mode \in 0 .. 3
  /\ ~lle => pPc \in {"idle", "asleep", "awake"} /\ mode > 1
  /\ pPc = "leave" => cmd = Power!ValueOf("XOSC")

(* The alarm is as many ticks ahead as were asked for, less those since then.    *)
Ahead == \E d \in Durations : compare = (now + (d - late)) % Width
Coming == \E d \in Durations : \E k \in 1 .. d : (now + k) % Width = compare

AlarmRight ==
  /\ now \in 0 .. Width - 1 /\ stif \in BOOLEAN /\ stie \in BOOLEAN
  /\ late \in 0 .. Slack
  /\ pPc \in {"idle", "asleep", "awake", "leave"} => armed /\ stie
  /\ armed /\ pPc \notin {"asleep", "awake", "leave"} => Ahead
  /\ pPc = "asleep" => stif \/ Coming

PInv == ClocksRight /\ EngineRight /\ AlarmRight

LEMMA PInit == Power!Init => PInv
<1> SUFFICES ASSUME Power!Init PROVE PInv
  OBVIOUS
<1> USE DEF Power!Init, Power!ValueOf, Power!Clkcon
<1>1. ClocksRight
  BY DEF ClocksRight, Clock, Fitting
<1>2. EngineRight
  BY DEF EngineRight
<1>3. AlarmRight
  <2>1. 0 \in 0 .. Width - 1 /\ 0 \in 0 .. Slack
    BY NapAssumption, PowerAssumption
  <2> QED
    BY <2>1 DEF AlarmRight
<1> QED
  BY <1>1, <1>2, <1>3 DEF PInv

(* The commands that are written.                                                *)
LEMMA ValueType ==
  \A s \in {"HFRC", "XOSC"} :
    Power!ValueOf(s) \in Fitting /\ Power!ValueOf(s).slow = "RC" /\ Power!ValueOf(s).osc = s
BY DEF Power!ValueOf, Power!Clkcon, Clock, Fitting

LEMMA SpeedType ==
  ASSUME ClocksRight, NEW b \in SUBSET {0, 1, 2}
  PROVE  /\ Power!WithSpeed(b) \in Fitting
         /\ Power!WithSpeed(b).slow = cmd.slow /\ Power!WithSpeed(b).osc = cmd.osc
BY DEF ClocksRight, Power!WithSpeed, Clock, Fitting

LEMMA SlowType ==
  ASSUME ClocksRight, cmd.osc = "HFRC", NEW r \in {"RC", "XTAL"}
  PROVE  [cmd EXCEPT !.slow = r] \in Fitting /\ [cmd EXCEPT !.slow = r].osc = "HFRC"
BY DEF ClocksRight, Clock, Fitting

(* A command that keeps to the rules may be written at any time that is none of  *)
(* the application's.                                                            *)
LEMMA CommandFits ==
  ASSUME ClocksRight, cmd' \in Fitting, sta' = sta,
         sta.osc # "HFRC" => cmd'.slow = "RC",
         pPc' \notin {"app", "reset"},
         pPc' \in {"init32k", "initXosc"} => cmd'.osc = "HFRC" /\ sta.osc = "HFRC"
  PROVE  ClocksRight'
BY DEF ClocksRight

LEMMA TickKeeps ==
  ASSUME AlarmRight, Power!Tick
  PROVE  AlarmRight'
<1>0. /\ now \in 0 .. Width - 1 /\ late \in 0 .. Slack /\ Width \in Nat \ {0} /\ Slack \in Nat
      /\ \A d \in Durations : d \in Slack + 1 .. Width - 1
  BY NapAssumption, PowerAssumption DEF AlarmRight
<1>1. /\ pPc # "asleep" => armed /\ late < Slack
      /\ now' = (now + 1) % Width /\ stif' = (stif \/ now' = compare)
      /\ late' = (IF pPc = "asleep" THEN late ELSE late + 1)
      /\ compare' = compare /\ stie' = stie /\ armed' = armed /\ pPc' = pPc
  BY DEF Power!Tick
<1>2. now' \in 0 .. Width - 1
  BY <1>0, <1>1, 1 \in 0 .. Width, Around
<1>3. ASSUME NEW k \in 1 .. Width - 1 PROVE (now' + (k - 1)) % Width = (now + k) % Width
  <2>1. 1 \in 0 .. Width /\ k \in 0 .. Width /\ k - 1 \in 0 .. Width
    BY <1>0
  <2>2. /\ (now + 1) % Width = IF now + 1 < Width THEN now + 1 ELSE now + 1 - Width
        /\ (now + k) % Width = IF now + k < Width THEN now + k ELSE now + k - Width
        /\ (now' + (k - 1)) % Width
             = IF now' + (k - 1) < Width THEN now' + (k - 1) ELSE now' + (k - 1) - Width
    BY <1>0, <1>2, <2>1, Around
  <2> QED
    BY <1>0, <1>1, <2>2
<1>4. late' \in 0 .. Slack
  BY <1>0, <1>1
<1>5. ASSUME armed, pPc \notin {"asleep", "awake", "leave"} PROVE Ahead'
  <2>1. PICK d \in Durations : compare = (now + (d - late)) % Width
    BY <1>5 DEF AlarmRight, Ahead
  <2>2. d - late \in 1 .. Width - 1 /\ d - late - 1 = d - (late + 1)
    BY <1>0
  <2>3. compare = (now' + (d - (late + 1))) % Width
    BY <1>3, <2>1, <2>2
  <2> QED
    BY <1>1, <1>5, <2>3 DEF Ahead
<1>6. ASSUME pPc = "asleep" PROVE stif' \/ Coming'
  <2> SUFFICES ASSUME ~stif' PROVE Coming'
    OBVIOUS
  <2>1. PICK d \in Durations : \E k \in 1 .. d : (now + k) % Width = compare
    BY <1>1, <1>6 DEF AlarmRight, Coming
  <2>2. PICK k \in 1 .. d : (now + k) % Width = compare
    BY <2>1
  <2>3. k # 1 /\ k \in 1 .. Width - 1 /\ k - 1 \in 1 .. d
    <3>1. k # 1
      BY <1>1, <2>2
    <3>2. d \in Slack + 1 .. Width - 1 /\ Slack \in Nat /\ Width \in Nat
      BY <1>0
    <3> QED
      BY <3>1, <3>2
  <2>4. (now' + (k - 1)) % Width = compare
    BY <1>3, <2>2, <2>3
  <2> QED
    BY <1>1, <2>3, <2>4 DEF Coming
<1> QED
  BY <1>1, <1>2, <1>4, <1>5, <1>6 DEF AlarmRight

(* A step that leaves the alarm alone, and the chip not asleep.                  *)
LEMMA AlarmStays ==
  ASSUME AlarmRight, UNCHANGED Power!timer, pPc \notin {"asleep", "awake", "leave"},
         pPc' \notin {"asleep", "awake", "leave"},
         pPc' = "idle" => armed /\ stie
  PROVE  AlarmRight'
BY DEF AlarmRight, Ahead, Coming, Power!timer

LEMMA CallsKeep == PInv /\ Power!Calls => PInv'
<1> SUFFICES ASSUME PInv, Power!Calls PROVE PInv'
  OBVIOUS
<1>0. /\ pPc = "app" /\ sta = cmd /\ lle
      /\ ClocksRight /\ EngineRight /\ AlarmRight
  BY DEF Power!Calls, PInv, ClocksRight, EngineRight
<1>1. ASSUME NEW s \in {"HFRC", "XOSC"}, Power!clockSetMainSrc(s) PROVE PInv'
  <2>1. /\ cmd' = Power!ValueOf(s) /\ pPc' = "wait" /\ sta' = sta /\ UNCHANGED <<Power!timer, mode, lle>>
    BY <1>1 DEF Power!clockSetMainSrc, Power!Write
  <2>2. ClocksRight'
    <3>1. cmd' \in Fitting /\ cmd'.slow = "RC"
      BY <2>1, ValueType
    <3> QED
      BY <1>0, <2>1, <3>1, CommandFits
  <2>3. EngineRight' /\ AlarmRight'
    BY <1>0, <2>1, AlarmStays DEF EngineRight
  <2> QED
    BY <2>2, <2>3 DEF PInv
<1>2. ASSUME NEW b \in {{}, {2}, {0, 1}}, Power!clockSetMainClkSpeed(b) PROVE PInv'
  <2>1. /\ cmd' = Power!WithSpeed(b) /\ pPc' = "wait" /\ sta' = sta /\ UNCHANGED <<Power!timer, mode, lle>>
    BY <1>2 DEF Power!clockSetMainClkSpeed, Power!Write
  <2>2. ClocksRight'
    BY <1>0, <2>1, b \in SUBSET {0, 1, 2}, SpeedType, CommandFits DEF ClocksRight
  <2>3. EngineRight' /\ AlarmRight'
    BY <1>0, <2>1, AlarmStays DEF EngineRight
  <2> QED
    BY <2>2, <2>3 DEF PInv
<1>3. ASSUME NEW r \in {"RC", "XTAL"}, Power!clockSelect32k(r) PROVE PInv'
  <2>1. CASE sta.osc # "HFRC"
    <3>1. UNCHANGED <<cmd, sta, Power!timer, pPc, mode, lle>>
      BY <1>3, <2>1 DEF Power!clockSelect32k, Power!clocks
    <3> QED
      BY <1>0, <3>1, AlarmStays DEF PInv, ClocksRight, EngineRight
  <2>2. CASE ~(sta.osc # "HFRC")
    <3>1. /\ cmd' = [cmd EXCEPT !.slow = r] /\ pPc' = "wait" /\ sta' = sta
          /\ UNCHANGED <<Power!timer, mode, lle>>
      BY <1>3, <2>2 DEF Power!clockSelect32k, Power!Write
    <3>2. ClocksRight'
      <4>1. cmd.osc = "HFRC"
        BY <1>0, <2>2
      <4>2. cmd' \in Fitting
        BY <1>0, <3>1, <4>1, SlowType
      <4> QED
        BY <1>0, <2>2, <3>1, <4>2, CommandFits
    <3>3. EngineRight' /\ AlarmRight'
      BY <1>0, <3>1, AlarmStays DEF EngineRight
    <3> QED
      BY <3>2, <3>3 DEF PInv
  <2> QED
    BY <2>1, <2>2
<1>4. ASSUME NEW d \in Durations, ~armed, Power!SetSleepTimer(d) PROVE PInv'
  <2>1. /\ compare' = (now + d) % Width /\ armed' = TRUE /\ late' = 0
        /\ UNCHANGED <<cmd, sta, mode, lle, now, stif, stie, pPc>>
    BY <1>4 DEF Power!SetSleepTimer, Power!halSleepReadTimer, Power!clocks
  <2>2. d - 0 = d /\ 0 \in 0 .. Slack
    BY PowerAssumption
  <2>3. Ahead'
    BY <2>1, <2>2 DEF Ahead
  <2>4. AlarmRight'
    BY <1>0, <2>1, <2>2, <2>3 DEF AlarmRight
  <2> QED
    BY <1>0, <2>1, <2>4 DEF PInv, ClocksRight, EngineRight
<1>5. ASSUME Power!halSleepDisableInterrupt \/ Power!halSleepEnableInterrupt PROVE PInv'
  <2>1. /\ UNCHANGED <<cmd, sta, mode, lle, now, compare, armed, late, pPc>>
        /\ stif' \in BOOLEAN /\ stie' \in BOOLEAN
    BY <1>5 DEF Power!halSleepDisableInterrupt, Power!halSleepEnableInterrupt, Power!clocks
  <2>2. AlarmRight'
    BY <1>0, <2>1 DEF AlarmRight, Ahead, Coming
  <2> QED
    BY <1>0, <2>1, <2>2 DEF PInv, ClocksRight, EngineRight
<1>6. ASSUME NEW m \in 0 .. 3, armed, stie, Power!EnterPowerMode(m) PROVE PInv'
  <2>1. /\ mode' = m /\ pPc' = "idle" /\ sta' = sta /\ UNCHANGED Power!timer
        /\ IF m > 1 THEN lle' = FALSE /\ cmd' = cmd
                    ELSE lle' = lle /\ cmd' = Power!WithSpeed({2})
    BY <1>6 DEF Power!EnterPowerMode, Power!Write
  <2>2. EngineRight' /\ AlarmRight'
    BY <1>0, <1>6, <2>1, AlarmStays DEF EngineRight
  <2>3. CASE m > 1
    BY <1>0, <2>1, <2>2, <2>3 DEF PInv, ClocksRight
  <2>4. CASE ~(m > 1)
    <3>1. {2} \in SUBSET {0, 1, 2}
      OBVIOUS
    <3>2. ClocksRight'
      BY <1>0, <2>1, <2>4, <3>1, SpeedType, CommandFits DEF ClocksRight
    <3> QED
      BY <2>2, <3>2 DEF PInv
  <2> QED
    BY <2>3, <2>4
<1> QED
  BY <1>1, <1>2, <1>3, <1>4, <1>5, <1>6 DEF Power!Calls

LEMMA McuKeeps == PInv /\ Power!halMcuInit => PInv'
<1> SUFFICES ASSUME PInv, Power!halMcuInit PROVE PInv'
  OBVIOUS
<1>0. ClocksRight /\ EngineRight /\ AlarmRight
  BY DEF PInv
<1>1. ASSUME NEW from, NEW v, NEW next, Power!InitStep(from, v, next)
      PROVE  /\ pPc = from /\ cmd' = v /\ pPc' = next /\ sta' = sta /\ sta = cmd
             /\ UNCHANGED <<Power!timer, mode, lle>>
  BY <1>1 DEF Power!InitStep, Power!Write, Power!Settled
<1>2. CASE Power!InitStep("reset", Power!ValueOf("HFRC"), "init32k")
  <2>1. /\ pPc = "reset" /\ cmd' = Power!ValueOf("HFRC") /\ pPc' = "init32k" /\ sta' = sta
        /\ UNCHANGED <<Power!timer, mode, lle>>
    BY <1>1, <1>2
  <2>2. ClocksRight'
    <3>1. cmd' \in Fitting /\ cmd'.slow = "RC" /\ cmd'.osc = "HFRC"
      BY <2>1, ValueType
    <3>2. sta.osc = "HFRC"
      BY <1>0, <2>1 DEF ClocksRight
    <3> QED
      BY <1>0, <2>1, <3>1, <3>2, CommandFits
  <2>3. EngineRight' /\ AlarmRight'
    BY <1>0, <2>1, AlarmStays DEF EngineRight
  <2> QED
    BY <2>2, <2>3 DEF PInv
<1>3. CASE Power!InitStep("init32k", [cmd EXCEPT !.slow = "XTAL"], "initXosc")
  <2>1. /\ pPc = "init32k" /\ cmd' = [cmd EXCEPT !.slow = "XTAL"] /\ pPc' = "initXosc" /\ sta' = sta
        /\ UNCHANGED <<Power!timer, mode, lle>>
    BY <1>1, <1>3
  <2>2. ClocksRight'
    BY <1>0, <2>1, SlowType, CommandFits DEF ClocksRight
  <2>3. EngineRight' /\ AlarmRight'
    BY <1>0, <2>1, AlarmStays DEF EngineRight
  <2> QED
    BY <2>2, <2>3 DEF PInv
<1>4. CASE Power!InitStep("initXosc", Power!ValueOf("XOSC"), "wait")
  <2>1. /\ pPc = "initXosc" /\ cmd' = Power!ValueOf("XOSC") /\ pPc' = "wait" /\ sta' = sta
        /\ UNCHANGED <<Power!timer, mode, lle>>
    BY <1>1, <1>4
  <2>2. ClocksRight'
    <3>1. cmd' \in Fitting /\ cmd'.slow = "RC"
      BY <2>1, ValueType
    <3> QED
      BY <1>0, <2>1, <3>1, CommandFits DEF ClocksRight
  <2>3. EngineRight' /\ AlarmRight'
    BY <1>0, <2>1, AlarmStays DEF EngineRight
  <2> QED
    BY <2>2, <2>3 DEF PInv
<1> QED
  BY <1>2, <1>3, <1>4 DEF Power!halMcuInit

LEMMA SleepKeeps == PInv /\ (Power!Idle \/ Power!Wake \/ Power!LeavePowerMode) => PInv'
<1> SUFFICES ASSUME PInv, Power!Idle \/ Power!Wake \/ Power!LeavePowerMode PROVE PInv'
  OBVIOUS
<1>0. ClocksRight /\ EngineRight /\ AlarmRight
  BY DEF PInv
<1>1. CASE Power!Idle
  <2>1. /\ pPc = "idle" /\ pPc' = "asleep" /\ ~(stif /\ stie)
        /\ UNCHANGED <<cmd, sta, mode, lle, now, compare, stif, stie, armed, late>>
    BY <1>1 DEF Power!Idle, Power!clocks, Power!timer
  <2>2. Coming
    <3>1. PICK d \in Durations : compare = (now + (d - late)) % Width
      BY <1>0, <2>1 DEF AlarmRight, Ahead
    <3>2. d - late \in 1 .. d
      BY <1>0, PowerAssumption DEF AlarmRight
    <3> QED
      BY <3>1, <3>2 DEF Coming
  <2>3. AlarmRight'
    BY <1>0, <2>1, <2>2 DEF AlarmRight, Coming
  <2> QED
    BY <1>0, <2>1, <2>3 DEF PInv, ClocksRight, EngineRight
<1>2. CASE Power!Wake
  <2>1. /\ pPc = "asleep" /\ pPc' = "awake"
        /\ sta' = (IF mode > 0 THEN [cmd EXCEPT !.osc = "HFRC"] ELSE sta)
        /\ UNCHANGED <<cmd, mode, lle, now, compare, stif, stie, armed, late>>
    BY <1>2 DEF Power!Wake, Power!timer
  <2>2. ClocksRight'
    BY <1>0, <2>1 DEF ClocksRight, Clock, Fitting
  <2>3. AlarmRight'
    BY <1>0, <2>1 DEF AlarmRight
  <2> QED
    BY <1>0, <2>1, <2>2, <2>3 DEF PInv, EngineRight
<1>3. CASE /\ pPc = "awake" /\ ~(stif /\ stie)
           /\ Power!Write(Power!ValueOf("XOSC"), "leave")
           /\ lle' = (lle \/ mode > 1)
           /\ UNCHANGED mode
  <2>1. /\ pPc = "awake" /\ pPc' = "leave" /\ cmd' = Power!ValueOf("XOSC") /\ sta' = sta
        /\ lle' = (lle \/ mode > 1) /\ mode' = mode
        /\ UNCHANGED <<now, compare, stif, stie, armed, late>>
    BY <1>3 DEF Power!Write, Power!timer
  <2>2. ClocksRight'
    <3>1. cmd' \in Fitting /\ cmd'.slow = "RC"
      BY <2>1, ValueType
    <3> QED
      BY <1>0, <2>1, <3>1, CommandFits
  <2>3. AlarmRight'
    BY <1>0, <2>1 DEF AlarmRight
  <2>4. EngineRight'
    BY <1>0, <2>1 DEF EngineRight
  <2> QED
    BY <2>2, <2>3, <2>4 DEF PInv
<1>4. CASE /\ pPc = "leave" /\ Power!Settled
           /\ pPc' = "app" /\ armed' = FALSE
           /\ UNCHANGED <<Power!clocks, mode, lle, now, compare, stif, stie, late>>
  <2>1. UNCHANGED <<cmd, sta>> /\ sta = cmd
    BY <1>4 DEF Power!clocks, Power!Settled
  <2>2. ClocksRight' /\ EngineRight'
    BY <1>0, <1>4, <2>1 DEF ClocksRight, EngineRight
  <2>3. AlarmRight'
    BY <1>0, <1>4 DEF AlarmRight
  <2> QED
    BY <2>2, <2>3 DEF PInv
<1> QED
  BY <1>1, <1>2, <1>3, <1>4 DEF Power!LeavePowerMode

LEMMA PStep == PInv /\ [Power!Next]_(Power!vars) => PInv'
<1> SUFFICES ASSUME PInv, [Power!Next]_(Power!vars) PROVE PInv'
  OBVIOUS
<1>0. ClocksRight /\ EngineRight /\ AlarmRight
  BY DEF PInv
<1>1. CASE Power!Settle
  <2>1. /\ sta' = cmd /\ UNCHANGED <<cmd, mode, lle, now, compare, stif, stie, armed, late, pPc>>
    BY <1>1 DEF Power!Settle, Power!timer
  <2>2. AlarmRight'
    BY <1>0, <2>1 DEF AlarmRight, Ahead, Coming
  <2> QED
    BY <1>0, <2>1, <2>2 DEF PInv, ClocksRight, EngineRight, Fitting
<1>2. CASE Power!Tick
  <2>1. UNCHANGED <<cmd, sta, mode, lle, pPc>>
    BY <1>2 DEF Power!Tick, Power!clocks
  <2> QED
    BY <1>0, <1>2, <2>1, TickKeeps DEF PInv, ClocksRight, EngineRight
<1>3. CASE Power!SleepIsr
  <2>1. /\ UNCHANGED <<cmd, sta, mode, lle, now, compare, stie, armed, late, pPc>>
        /\ stif' = FALSE /\ pPc # "asleep"
    BY <1>3 DEF Power!SleepIsr, Power!clocks
  <2>2. AlarmRight'
    BY <1>0, <2>1 DEF AlarmRight, Ahead
  <2> QED
    BY <1>0, <2>1, <2>2 DEF PInv, ClocksRight, EngineRight
<1>4. CASE Power!halMcuInit
  BY <1>4, McuKeeps
<1>5. CASE Power!Calls
  BY <1>5, CallsKeep
<1>6. CASE Power!WaitClkUpdate
  <2>1. /\ pPc = "wait" /\ sta = cmd /\ pPc' = "app" /\ UNCHANGED <<cmd, sta, mode, lle, Power!timer>>
    BY <1>6 DEF Power!WaitClkUpdate, Power!Settled, Power!clocks
  <2>2. AlarmRight'
    BY <1>0, <2>1, AlarmStays
  <2> QED
    BY <1>0, <2>1, <2>2 DEF PInv, ClocksRight, EngineRight
<1>7. CASE Power!Idle \/ Power!Wake \/ Power!LeavePowerMode
  BY <1>7, SleepKeeps
<1>8. CASE UNCHANGED Power!vars
  <2>1. UNCHANGED <<cmd, sta, mode, lle, now, compare, stif, stie, armed, late, pPc>>
    BY <1>8 DEF Power!vars, Power!clocks, Power!timer
  <2>2. AlarmRight'
    BY <1>0, <2>1 DEF AlarmRight, Ahead, Coming
  <2> QED
    BY <1>0, <2>1, <2>2 DEF PInv, ClocksRight, EngineRight
<1> QED
  BY <1>1, <1>2, <1>3, <1>4, <1>5, <1>6, <1>7, <1>8 DEF Power!Next

(* A sleep ends in time, and behind it the crystal runs the chip undivided.      *)
LEMMA PowerRight == PInv => Power!WakesInTime
<1> SUFFICES ASSUME PInv PROVE Power!WakesInTime
  OBVIOUS
<1>1. pPc = "asleep" => stif \/ Coming
  BY DEF PInv, AlarmRight
<1>2. Power!Divider(cmd.tick) >= Power!Divider(cmd.clk)
  BY DEF PInv, ClocksRight, Fitting, Power!Divider
<1>3. sta.slow # cmd.slow => sta.osc = "HFRC"
  BY DEF PInv, ClocksRight
<1> QED
  BY <1>1, <1>2, <1>3 DEF Power!WakesInTime, Coming

LEMMA ReadyRight == PInv /\ [Power!Next]_(Power!vars) => Power!ReadyStep
<1> SUFFICES ASSUME PInv, [Power!Next]_(Power!vars), pPc = "leave", pPc' = "app"
             PROVE  sta = Power!ValueOf("XOSC") /\ lle
  BY DEF Power!ReadyStep
<1>1. Power!LeavePowerMode
  BY DEF Power!Next, Power!vars, Power!Settle, Power!Tick, Power!SleepIsr, Power!halMcuInit,
         Power!InitStep, Power!Calls, Power!WaitClkUpdate, Power!Idle, Power!Wake
<1>2. sta = cmd
  BY <1>1 DEF Power!LeavePowerMode, Power!Settled
<1> QED
  BY <1>2 DEF PInv, EngineRight

(* Numbers that differ by whole turns of b leave the same rest, and the quotient *)
(* of the greater is ahead by as many turns of a.                                *)
LEMMA Multiples ==
  ASSUME NEW a \in Nat \ {0}, NEW b \in Nat \ {0}, NEW m \in Nat, NEW t \in 0 .. a * b - 1
  PROVE  /\ (m * (a * b) + t) % a = t % a
         /\ ((m * (a * b) + t) \div a) % b = t \div a
<1> DEFINE q == t \div a  r == t % a
<1>1. q \in Nat /\ r \in 0 .. a - 1 /\ t = a * q + r
  OBVIOUS
<1> HIDE DEF q, r
<1>2. q \in 0 .. b - 1
  <2>1. ASSUME q >= b PROVE FALSE
    <3>1. a * q >= a * b
      BY <1>1, <2>1
    <3> QED
      BY <1>1, <3>1
  <2> QED
    BY <1>1, <2>1
<1> DEFINE Q == b * m + q
<1>3. Q \in Int /\ m * (a * b) + t = a * Q + r
  <2>1. a * (b * m) = m * (a * b)
    OBVIOUS
  <2>2. a * (b * m + q) = a * (b * m) + a * q
    BY <1>1
  <2> QED
    BY <1>1, <2>1, <2>2
<1>4. Q % b = q
  BY <1>2, Divided
<1> HIDE DEF Q
<1>5. (a * Q + r) % a = r /\ (a * Q + r) \div a = Q
  BY <1>1, <1>3, Divided
<1> QED
  BY <1>3, <1>4, <1>5 DEF q, r

LEMMA Within ==
  ASSUME NEW d \in Nat \ {0}, NEW r \in 0 .. d - 1
  PROVE  r % d = r
OBVIOUS

(* The fine count with the ticks of the rest of a nap.                           *)
LEMMA Carried ==
  ASSUME NEW B \in Nat \ {0}, NEW f \in 0 .. 2 * B - 1
  PROVE  /\ f % B = IF f >= B THEN f - B ELSE f
         /\ f \div B = IF f >= B THEN 1 ELSE 0
<1>1. CASE f < B
  <2>1. (B * 0 + f) % B = f /\ (B * 0 + f) \div B = 0
    BY <1>1, 0 \in Int, f \in 0 .. B - 1, Divided
  <2> QED
    BY <1>1, <2>1
<1>2. CASE ~(f < B)
  <2> DEFINE r == f - B
  <2>1. r \in 0 .. B - 1
    BY <1>2
  <2>2. f = B * 1 + r
    OBVIOUS
  <2> HIDE DEF r
  <2>3. (B * 1 + r) % B = r /\ (B * 1 + r) \div B = 1
    BY <2>1, 1 \in Int, Divided
  <2> QED
    BY <1>2, <2>2, <2>3 DEF r
<1> QED
  BY <1>1, <1>2

------------------------------------------------------------------------------
(* The counts of Timer 2, and what is between the two calls of a nap.            *)
CountRight ==
  /\ fine \in 0 .. Base - 1 /\ coarse \in 0 .. Width - 1 /\ per = Base
  /\ st \in 0 .. Width - 1
  /\ napping => /\ sleepTime1 \in 0 .. Width - 1 /\ slept \in 0 .. NapLimit
                /\ st = (sleepTime1 + slept) % Width

(* A timeout that was asked for is the one compared with, and the periods since  *)
(* are not behind the count; the interrupt says that they are over.              *)
TimeoutRight ==
  /\ RadioTimeoutFlag \in BOOLEAN
  /\ asked \in [ms : Nat, periods : Nat]
  /\ asked # Clocks!None =>
       /\ cmp = asked.ms /\ asked.ms >= 1
       /\ coarse <= asked.periods \/ asked.periods >= asked.ms
       /\ RadioTimeoutFlag \/ "ovf_compare1" \in irqf => asked.periods >= asked.ms

TInv == CountRight /\ TimeoutRight

LEMMA TInit == Clocks!Init => TInv
<1> SUFFICES ASSUME Clocks!Init PROVE TInv
  OBVIOUS
<1>1. CountRight
  BY NapAssumption DEF Clocks!Init, CountRight
<1>2. TimeoutRight
  BY DEF Clocks!Init, TimeoutRight, Clocks!None
<1> QED
  BY <1>1, <1>2 DEF TInv

(* The timer runs.                                                               *)
LEMMA RunKeeps ==
  ASSUME TInv, NEW n \in RunSteps, Clocks!Run(n)
  PROVE  TInv'
<1> DEFINE ends == per # 0 /\ fine + n >= per
           next == (coarse + 1) % Width
           wraps == ovfPer # 0 /\ next = ovfPer
           new == IF wraps THEN 0 ELSE next
<1>1. /\ fine' = (IF ends THEN fine + n - per ELSE (fine + n) % Half)
      /\ coarse' = (IF ends THEN new ELSE coarse)
      /\ irqf' = (IF ends THEN irqf \cup (IF wraps THEN {"ovf_per"} ELSE {})
                                    \cup (IF new = cmp THEN {"ovf_compare1"} ELSE {})
                  ELSE irqf)
      /\ asked' = (IF ends /\ asked.periods < asked.ms THEN [asked EXCEPT !.periods = @ + 1] ELSE asked)
      /\ UNCHANGED <<per, cmp, RadioTimeoutFlag, st, sleepTime1, slept, napping>>
  BY DEF Clocks!Run, Clocks!setup, Clocks!nap
<1>2. /\ Base \in Nat \ {0} /\ Half \in Nat \ {0} /\ Width \in Nat \ {0} /\ n \in 1 .. Base
      /\ Base <= Half
  <2>1. PerSleep * (PerBase - 1) >= 0
    BY NapAssumption
  <2>2. /\ Base \in Nat \ {0} /\ Half \in Nat \ {0} /\ Width \in Nat \ {0} /\ n \in 1 .. Base
        /\ PerSleep \in Nat /\ PerBase \in Nat \ {0}
        /\ Base + PerSleep * (PerBase - 1) <= Half
    BY NapAssumption
  <2> DEFINE x == PerSleep * (PerBase - 1)
  <2> HIDE DEF ends, next, wraps, new, x
  <2>3. x \in Int
    BY <2>2 DEF x
  <2> QED
    BY <2>1, <2>2, <2>3 DEF x
<1>3. next \in 0 .. Width - 1 /\ (next = coarse + 1 \/ next = 0)
  <2>1. coarse \in 0 .. Width - 1 /\ 1 \in 0 .. Width
    BY <1>2 DEF TInv, CountRight
  <2> HIDE DEF ends, next, wraps, new
  <2>2. /\ (coarse + 1) % Width = IF coarse + 1 < Width THEN coarse + 1 ELSE coarse + 1 - Width
        /\ (coarse + 1) % Width \in 0 .. Width - 1
    BY <1>2, <2>1, Around
  <2>3. next = (coarse + 1) % Width
    BY DEF next
  <2> QED
    BY <1>2, <2>1, <2>2, <2>3
<1>4. new \in 0 .. Width - 1 /\ (new = coarse + 1 \/ new = 0)
  BY <1>2, <1>3
<1> HIDE DEF next, wraps, new
<1>5. fine' \in 0 .. Base - 1
  <2>1. fine \in 0 .. Base - 1 /\ per = Base
    BY DEF TInv, CountRight
  <2>2. CASE ends
    BY <1>1, <1>2, <2>1, <2>2
  <2>3. CASE ~ends
    <3>1. fine + n \in 0 .. Base - 1
      BY <1>2, <2>1, <2>3
    <3> DEFINE r == fine + n
    <3> HIDE DEF r
    <3>2. r % Half = r
      BY <1>2, <3>1, Turned DEF r
    <3> QED
      BY <1>1, <2>3, <3>1, <3>2 DEF r
  <2> QED
    BY <2>2, <2>3
<1> HIDE DEF ends
<1>6. CountRight'
  BY <1>1, <1>4, <1>5 DEF TInv, CountRight
<1>7. TimeoutRight'
  <2>1. /\ RadioTimeoutFlag \in BOOLEAN /\ asked \in [ms : Nat, periods : Nat]
        /\ asked # Clocks!None =>
             /\ cmp = asked.ms /\ asked.ms >= 1
             /\ coarse <= asked.periods \/ asked.periods >= asked.ms
             /\ RadioTimeoutFlag \/ "ovf_compare1" \in irqf => asked.periods >= asked.ms
    BY DEF TInv, TimeoutRight
  <2>2. coarse \in Nat
    BY DEF TInv, CountRight
  <2>3. CASE ~ends
    BY <1>1, <2>1, <2>3 DEF TimeoutRight
  <2>4. CASE ends
    <3>1. asked' \in [ms : Nat, periods : Nat] /\ asked'.ms = asked.ms
          /\ asked'.periods = (IF asked.periods < asked.ms THEN asked.periods + 1 ELSE asked.periods)
      BY <1>1, <2>1, <2>4
    <3>2. ASSUME asked' # Clocks!None
          PROVE  /\ cmp' = asked'.ms /\ asked'.ms >= 1
                 /\ coarse' <= asked'.periods \/ asked'.periods >= asked'.ms
                 /\ RadioTimeoutFlag' \/ "ovf_compare1" \in irqf' => asked'.periods >= asked'.ms
      <4>1. asked # Clocks!None
        BY <1>1, <2>4, <3>2 DEF Clocks!None
      <4>2. cmp' = asked'.ms /\ asked'.ms >= 1
        BY <1>1, <2>1, <3>1, <4>1
      <4>3. coarse' <= asked'.periods \/ asked'.periods >= asked'.ms
        BY <1>1, <1>4, <2>1, <2>2, <2>4, <3>1, <4>1
      <4>4. ASSUME "ovf_compare1" \in irqf' PROVE asked'.periods >= asked'.ms
        <5>1. CASE "ovf_compare1" \in irqf
          BY <2>1, <3>1, <4>1, <5>1
        <5>2. CASE new = cmp
          <6>1. new = coarse + 1
            BY <1>4, <2>1, <4>1, <5>2
          <6> QED
            BY <2>1, <2>2, <3>1, <4>1, <5>2, <6>1
        <5> QED
          BY <1>1, <2>4, <4>4, <5>1, <5>2
      <4>5. RadioTimeoutFlag' => asked'.periods >= asked'.ms
        BY <1>1, <2>1, <3>1, <4>1
      <4> QED
        BY <4>2, <4>3, <4>4, <4>5
    <3> QED
      BY <1>1, <2>1, <3>1, <3>2 DEF TimeoutRight
  <2> QED
    BY <2>3, <2>4
<1> QED
  BY <1>6, <1>7 DEF TInv

(* The calls, which are outside of a nap.                                        *)
LEMMA AppCallKeeps ==
  ASSUME TInv, ~napping, Clocks!Calls
  PROVE  TInv'
<1>0. Base \in Nat \ {0} /\ Width \in Nat \ {0} /\ Timeouts \subseteq 1 .. Width - 1
      /\ Counts \subseteq 0 .. Width - 1
  BY NapAssumption
<1>9. ASSUME NEW c \in 0 .. Width - 1 PROVE c % Width = c
  BY <1>0, Within
<1> USE DEF TInv, CountRight, TimeoutRight, Clocks!None
<1>1. CASE \E s \in Clocks!Sources : Clocks!halTimer2EnableInterrupt(s) \/ Clocks!halTimer2DisableInterrupt(s)
  BY <1>1 DEF Clocks!halTimer2EnableInterrupt, Clocks!halTimer2DisableInterrupt,
              Clocks!counter, Clocks!setup, Clocks!nap
<1>2. CASE Clocks!halTimer2Reset
  BY <1>0, <1>2 DEF Clocks!halTimer2Reset, Clocks!setup, Clocks!nap, Clocks!irq
<1>3. ASSUME NEW ms \in Timeouts, NEW periodic \in BOOLEAN, Clocks!halTimer2SetRadioTimeout(ms, periodic)
      PROVE  TInv'
  <2>0. /\ fine' = 0 /\ coarse' = 0 /\ per' = Base /\ st' = st /\ napping' = napping
        /\ irqf' = {} /\ RadioTimeoutFlag' = FALSE
        /\ asked' = (IF periodic THEN Clocks!None ELSE [ms |-> ms, periods |-> 0])
        /\ ~periodic => cmp' = ms
    BY <1>3 DEF Clocks!halTimer2SetRadioTimeout, Clocks!nap
  <2>1. ms \in Nat /\ ms >= 1
    BY <1>0
  <2>2. CountRight'
    BY <1>0, <2>0
  <2>3. CASE periodic
    BY <2>0, <2>2, <2>3
  <2>4. CASE ~periodic
    <3> HIDE DEF TInv, CountRight, TimeoutRight, Clocks!None
    <3>0. asked' = [ms |-> ms, periods |-> 0] /\ cmp' = ms
      BY <2>0, <2>4, Zenon
    <3>1. /\ asked' \in [ms : Nat, periods : Nat] /\ asked'.ms = ms /\ asked'.periods = 0
          /\ cmp' = ms /\ coarse' = 0 /\ RadioTimeoutFlag' = FALSE /\ irqf' = {}
      BY <2>0, <2>1, <3>0
    <3>2. /\ coarse' <= asked'.periods /\ "ovf_compare1" \notin irqf'
          /\ cmp' = asked'.ms /\ asked'.ms >= 1 /\ RadioTimeoutFlag' = FALSE
      BY <2>1, <3>1
    <3>3. TimeoutRight'
      BY <3>1, <3>2 DEF TimeoutRight
    <3> QED
      BY <2>2, <3>3 DEF TInv
  <2> QED
    BY <2>3, <2>4
<1>4. CASE Clocks!halTimer2SetBasePeriod
  BY <1>4 DEF Clocks!halTimer2SetBasePeriod, Clocks!counter, Clocks!irq, Clocks!nap
<1>5. ASSUME NEW n, Clocks!SetOverflow(n) PROVE TInv'
  BY <1>5 DEF Clocks!SetOverflow, Clocks!counter, Clocks!irq, Clocks!nap
<1>6. ASSUME NEW c \in Counts, Clocks!halTimer2SetTimerCount(Base - 1, c) PROVE TInv'
  <2>1. c \in 0 .. Width - 1
    BY <1>0
  <2>2. c % Width = c
    BY <1>9, <2>1
  <2> QED
    BY <1>0, <1>6, <2>1, <2>2 DEF Clocks!halTimer2SetTimerCount, Clocks!Counted, Clocks!setup, Clocks!irq, Clocks!nap
<1>7. CASE Clocks!halTimer2Start \/ Clocks!halTimer2Stop
  BY <1>7 DEF Clocks!halTimer2Start, Clocks!halTimer2Stop, Clocks!counter, Clocks!setup, Clocks!irq, Clocks!nap
<1> QED
  BY <1>1, <1>2, <1>3, <1>4, <1>5, <1>6, <1>7
     DEF Clocks!Calls, Clocks!halTimer2SetOverflowPeriod, Clocks!halTimer2UpdateOverflowCompareValue

(* A nap that is slept is what the two counts of the sleep timer differ in.      *)
LEMMA SleptIs ==
  ASSUME CountRight, napping
  PROVE  /\ slept + Work \in 0 .. PerBase * Half - 1 /\ slept \in Nat /\ slept < Width
         /\ st - sleepTime1 = slept \/ st - sleepTime1 = slept - Width
<1>1. /\ Width \in Nat \ {0} /\ Work \in Nat /\ NapLimit \in Nat
      /\ NapLimit + Work < PerBase * Half /\ NapLimit <= Width
      /\ \E k \in 1 .. Width : Width = k * (PerBase * Half)
      /\ PerBase \in Nat \ {0} /\ Half \in Nat \ {0}
  BY NapAssumption
<1> DEFINE turn == PerBase * Half
<1>2. turn \in Nat
  BY <1>1
<1>3. NapLimit + Work < turn /\ \E k \in 1 .. Width : Width = k * turn
  BY <1>1
<1>7. slept + Work \in 0 .. PerBase * Half - 1 <=> slept + Work \in 0 .. turn - 1
  OBVIOUS
<1> HIDE DEF turn
<1>4. turn <= Width
  BY <1>1, <1>2, <1>3
<1>5. /\ st \in 0 .. Width - 1 /\ sleepTime1 \in 0 .. Width - 1 /\ slept \in 0 .. NapLimit
      /\ st = (sleepTime1 + slept) % Width
  BY DEF CountRight
<1>6. (sleepTime1 + slept) % Width
        = IF sleepTime1 + slept < Width THEN sleepTime1 + slept ELSE sleepTime1 + slept - Width
  <2>1. slept \in 0 .. Width
    BY <1>1, <1>5
  <2> QED
    BY <1>1, <1>5, <2>1, Around
<1>8. slept < Width /\ slept + Work \in 0 .. turn - 1 /\ slept \in Nat
  BY <1>1, <1>2, <1>3, <1>4, <1>5
<1> QED
  BY <1>1, <1>5, <1>6, <1>7, <1>8

(* In 32 bits the difference and the ticks for the work are whole turns of the   *)
(* periods ahead of the ticks that were slept and worked.                        *)
LEMMA DifferenceIs ==
  ASSUME NEW n \in Nat, n < Width, n + Work \in 0 .. PerBase * Half - 1,
         NEW diff, diff = n \/ diff = n - Width
  PROVE  \E m \in Nat : (diff + Work) % Long = m * (PerBase * Half) + (n + Work)
<1> DEFINE turn == PerBase * Half
           t == n + Work
<1>1. /\ Width \in Nat \ {0} /\ Long \in Nat \ {0} /\ Work \in Nat
      /\ PerBase \in Nat \ {0} /\ Half \in Nat \ {0}
      /\ \E k \in 1 .. Width : Width = k * turn
      /\ \E k \in 1 .. Long : Long = k * Width
  BY NapAssumption
<1>2. turn \in Nat /\ t \in 0 .. turn - 1
  BY <1>1
<1>3. SUFFICES \E m \in Nat : (diff + Work) % Long = m * turn + t
  OBVIOUS
<1>4. PICK j \in 1 .. Width : Width = j * turn
  BY <1>1
<1>5. PICK k \in 1 .. Long : Long = k * Width
  BY <1>1
<1>9. diff + Work = t \/ diff + Work = t - Width
  BY <1>1
<1> HIDE DEF turn, t
<1>6. turn <= Width /\ Width <= Long
  <2>1. turn <= j * turn
    BY <1>1, <1>2
  <2>2. Width <= k * Width
    BY <1>1
  <2> QED
    BY <1>4, <1>5, <2>1, <2>2
<1>7. CASE diff + Work = t
  <2>1. t \in 0 .. Long - 1
    BY <1>1, <1>2, <1>6
  <2>2. t % Long = 0 * turn + t
    BY <1>1, <1>2, <2>1, Within
  <2> QED
    BY <1>7, <2>2
<1>8. CASE diff + Work = t - Width
  <2> DEFINE u == Long - Width + t
  <2>1. u \in 0 .. Long - 1 /\ t - Width = Long * (-1) + u
    BY <1>1, <1>2, <1>6
  <2>2. u = ((k - 1) * j) * turn + t
    <3>1. Long - Width = (k - 1) * Width
      BY <1>1, <1>5
    <3>2. (k - 1) * (j * turn) = ((k - 1) * j) * turn
      BY <1>2
    <3> QED
      BY <1>1, <1>2, <1>4, <3>1, <3>2
  <2> HIDE DEF u
  <2>3. (Long * (-1) + u) % Long = u
    BY <1>1, <2>1, -1 \in Int, Divided
  <2>4. (k - 1) * j \in Nat
    BY <1>1
  <2> QED
    BY <1>8, <2>1, <2>2, <2>3, <2>4
<1> QED
  BY <1>9, <1>7, <1>8

(* So the periods and the ticks that a nap is counted for are those slept.       *)
LEMMA NapIs ==
  ASSUME CountRight, napping
  PROVE  /\ Clocks!NapPeriods(st - sleepTime1) = (slept + Work) \div PerBase
         /\ Clocks!NapTicks(st - sleepTime1) = ((slept + Work) % PerBase) * PerSleep
<1>1. /\ slept + Work \in 0 .. PerBase * Half - 1 /\ slept \in Nat /\ slept < Width
      /\ st - sleepTime1 = slept \/ st - sleepTime1 = slept - Width
  BY SleptIs
<1> DEFINE diff == st - sleepTime1  t == slept + Work
<1>2. PICK m \in Nat : (diff + Work) % Long = m * (PerBase * Half) + t
  <2> HIDE DEF diff
  <2> QED
    BY <1>1, DifferenceIs DEF diff
<1>3. /\ (m * (PerBase * Half) + t) % PerBase = t % PerBase
      /\ ((m * (PerBase * Half) + t) \div PerBase) % Half = t \div PerBase
  <2> HIDE DEF t
  <2>1. PerBase \in Nat \ {0} /\ Half \in Nat \ {0} /\ t \in 0 .. PerBase * Half - 1
    BY <1>1, NapAssumption DEF t
  <2> QED
    BY <2>1, Multiples
<1> HIDE DEF diff, t
<1>4. /\ Clocks!NapPeriods(diff) = t \div PerBase
      /\ Clocks!NapTicks(diff) = (t % PerBase) * PerSleep
  BY <1>2, <1>3 DEF Clocks!NapPeriods, Clocks!NapTicks
<1> QED
  BY <1>4 DEF diff, t

(* Rests may be taken early or late.                                             *)
LEMMA Added ==
  ASSUME NEW d \in Nat \ {0}, NEW a \in Nat, NEW n \in Nat
  PROVE  ((a % d) + n) % d = (a + n) % d
<1> DEFINE q == a \div d  r == a % d
<1>1. q \in Int /\ r \in Nat /\ a = d * q + r
  OBVIOUS
<1> HIDE DEF q, r
<1> DEFINE p == (r + n) \div d  u == (r + n) % d
<1>2. p \in Int /\ u \in 0 .. d - 1 /\ r + n = d * p + u
  <2> DEFINE s == r + n
  <2>1. s \in Nat
    BY <1>1
  <2> HIDE DEF s
  <2>2. s \div d \in Int /\ s % d \in 0 .. d - 1 /\ s = d * (s \div d) + (s % d)
    BY <2>1
  <2> QED
    BY <2>2 DEF s
<1> HIDE DEF p, u
<1>3. q + p \in Int /\ a + n = d * (q + p) + u
  <2>1. d * (q + p) = d * q + d * p
    BY <1>1, <1>2
  <2> QED
    BY <1>1, <1>2, <2>1
<1> DEFINE Q == q + p
<1>4. Q \in Int
  BY <1>3
<1> HIDE DEF Q
<1>5. (d * Q + u) % d = u
  BY <1>2, <1>4, Divided
<1> QED
  BY <1>3, <1>5 DEF Q, u, r

(* The end of a nap: the counts are those NapStep tells.                         *)
LEMMA Awoken ==
  ASSUME TInv, Clocks!SynchStart
  PROVE  LET ticks == slept + Work
             carry == IF fine + PerSleep * (ticks % PerBase) >= Base THEN 1 ELSE 0
         IN /\ fine' = fine + PerSleep * (ticks % PerBase) - carry * Base
            /\ coarse' = (coarse + ticks \div PerBase + carry) % Width
            /\ fine' \in 0 .. Base - 1 /\ coarse' \in 0 .. Width - 1
            /\ asked' = Clocks!None
<1> DEFINE ticks == slept + Work
           rest == PerSleep * (ticks % PerBase)
           carry == IF fine + rest >= Base THEN 1 ELSE 0
<1>1. /\ Base \in Nat \ {0} /\ PerSleep \in Nat /\ PerBase \in Nat \ {0} /\ Half \in Nat \ {0}
      /\ Width \in Nat \ {0}
      /\ Base + PerSleep * (PerBase - 1) <= Half /\ PerSleep * (PerBase - 1) < Base
  BY NapAssumption
<1>2. napping /\ CountRight /\ fine \in 0 .. Base - 1 /\ coarse \in 0 .. Width - 1
  BY DEF Clocks!SynchStart, TInv, CountRight
<1>3. ticks \in Nat
  BY <1>2, SleptIs
<1>4. rest \in 0 .. PerSleep * (PerBase - 1) /\ rest \in Nat
  <2> DEFINE r == ticks % PerBase
  <2> HIDE DEF ticks
  <2>1. r \in 0 .. PerBase - 1
    BY <1>1, <1>3
  <2> HIDE DEF r
  <2>2. PerSleep * r >= 0 /\ PerSleep * r <= PerSleep * (PerBase - 1) /\ PerSleep * r \in Int
    BY <1>1, <2>1
  <2>3. rest = PerSleep * r
    BY DEF r
  <2> HIDE DEF rest
  <2>4. PerSleep * (PerBase - 1) \in Int
    BY <1>1
  <2> QED
    BY <2>2, <2>3, <2>4
<1>5. fine + rest \in 0 .. Half - 1 /\ fine + rest \in 0 .. 2 * Base - 1
  <2> DEFINE x == PerSleep * (PerBase - 1)
  <2>1. x \in Int /\ rest \in 0 .. x /\ Base + x <= Half /\ x < Base
    BY <1>1, <1>4
  <2> HIDE DEF x, rest
  <2> QED
    BY <1>1, <1>2, <2>1
<1>6. /\ fine' = ((fine + rest) % Half) % Base
      /\ coarse' = (coarse + ticks \div PerBase + ((fine + rest) % Half) \div Base) % Width
      /\ asked' = Clocks!None
  <2>1. /\ Clocks!NapPeriods(st - sleepTime1) = ticks \div PerBase
        /\ Clocks!NapTicks(st - sleepTime1) = (ticks % PerBase) * PerSleep
    BY <1>2, NapIs
  <2>2. (ticks % PerBase) * PerSleep = rest
    <3> DEFINE r == ticks % PerBase
    <3>1. r \in Nat
      BY <1>1, <1>3
    <3> HIDE DEF r
    <3>2. r * PerSleep = PerSleep * r
      BY <1>1, <3>1
    <3> QED
      BY <3>2 DEF r
  <2> HIDE DEF ticks, rest
  <2> QED
    BY <2>1, <2>2 DEF Clocks!SynchStart, Clocks!UpdateTimerCount, Clocks!Counted
<1>7. (fine + rest) % Half = fine + rest
  <2> DEFINE g == fine + rest
  <2>1. g \in 0 .. Half - 1
    BY <1>5
  <2> HIDE DEF g
  <2>2. g % Half = g
    BY <1>1, <2>1, Within
  <2> QED
    BY <2>2 DEF g
<1> HIDE DEF ticks, rest, carry
<1>8. /\ (fine + rest) % Base = fine + rest - carry * Base /\ (fine + rest) \div Base = carry
      /\ (fine + rest) % Base \in 0 .. Base - 1
  <2> DEFINE g == fine + rest
  <2>1. g \in 0 .. 2 * Base - 1
    BY <1>5
  <2>2. carry = IF g >= Base THEN 1 ELSE 0
    BY DEF carry
  <2> HIDE DEF g
  <2>3. g % Base = (IF g >= Base THEN g - Base ELSE g) /\ g \div Base = IF g >= Base THEN 1 ELSE 0
    BY <1>1, <2>1, Carried
  <2>4. g % Base = g - carry * Base /\ g \div Base = carry /\ g % Base \in 0 .. Base - 1
    BY <1>1, <2>1, <2>2, <2>3
  <2>5. g = fine + rest
    BY DEF g
  <2> QED
    BY <1>1, <1>2, <1>4, <2>1, <2>4, <2>5
<1>9. coarse' \in 0 .. Width - 1
  <2> DEFINE g == coarse + ticks \div PerBase + ((fine + rest) % Half) \div Base
  <2>1. g \in Int
    <3>1. ticks \div PerBase \in Int
      BY <1>1, <1>3
    <3>2. ((fine + rest) % Half) \div Base \in Int
      BY <1>1, <1>5, <1>7
    <3> QED
      BY <1>2, <3>1, <3>2
  <2>2. coarse' = g % Width
    BY <1>6
  <2> HIDE DEF g
  <2> QED
    BY <1>1, <2>1, <2>2
<1>10. /\ fine' = fine + rest - carry * Base
       /\ coarse' = (coarse + ticks \div PerBase + carry) % Width
       /\ fine' \in 0 .. Base - 1
  BY <1>6, <1>7, <1>8
<1> QED
  BY <1>6, <1>9, <1>10 DEF ticks, rest, carry

LEMMA SynchKeeps ==
  ASSUME TInv, Clocks!SynchStart
  PROVE  TInv'
<1>1. fine' \in 0 .. Base - 1 /\ coarse' \in 0 .. Width - 1 /\ asked' = Clocks!None
  BY Awoken
<1>2. per' = per /\ st' = st /\ ~napping' /\ RadioTimeoutFlag' = RadioTimeoutFlag
  BY DEF Clocks!SynchStart, Clocks!setup, Clocks!irq
<1> QED
  BY <1>1, <1>2 DEF TInv, CountRight, TimeoutRight, Clocks!None

(* The sleep timer counts on, and a nap begins.                                  *)
LEMMA NapKeeps ==
  ASSUME TInv, (\E n \in SleepSteps : Clocks!SleepTicks(n)) \/ Clocks!SynchStop
  PROVE  TInv'
<1>1. Width \in Nat \ {0} /\ NapLimit \in Nat /\ SleepSteps \subseteq Nat
  BY NapAssumption
<1>2. ASSUME NEW n \in SleepSteps, Clocks!SleepTicks(n) PROVE TInv'
  <2>1. /\ napping /\ slept + n < NapLimit /\ st' = (st + n) % Width /\ slept' = slept + n
        /\ UNCHANGED <<fine, coarse, per, cmp, irqf, RadioTimeoutFlag, sleepTime1, napping, asked>>
    BY <1>2 DEF Clocks!SleepTicks, Clocks!counter, Clocks!setup, Clocks!irq
  <2>2. /\ st \in 0 .. Width - 1 /\ sleepTime1 \in 0 .. Width - 1 /\ slept \in Nat /\ n \in Nat
        /\ st = (sleepTime1 + slept) % Width
    BY <1>1, <2>1 DEF TInv, CountRight
  <2>3. slept' \in 0 .. NapLimit
    BY <1>1, <2>1, <2>2
  <2>4. st' \in 0 .. Width - 1
    BY <1>1, <2>1, <2>2
  <2>5. st' = (sleepTime1 + slept') % Width
    <3> DEFINE a == sleepTime1 + slept
    <3>1. a \in Nat /\ sleepTime1 + slept' = a + n
      BY <1>1, <2>1, <2>2
    <3>2. st' = ((a % Width) + n) % Width
      BY <2>1, <2>2
    <3> HIDE DEF a
    <3>3. ((a % Width) + n) % Width = (a + n) % Width
      BY <1>1, <2>2, <3>1, Added
    <3> QED
      BY <3>1, <3>2, <3>3, Zenon
  <2>6. CountRight'
    BY <2>1, <2>2, <2>3, <2>4, <2>5 DEF TInv, CountRight
  <2>7. TimeoutRight'
    BY <2>1 DEF TInv, TimeoutRight
  <2> QED
    BY <2>6, <2>7 DEF TInv
<1>3. CASE Clocks!SynchStop
  <2>1. /\ sleepTime1' = st /\ slept' = 0
        /\ UNCHANGED <<fine, coarse, per, cmp, irqf, RadioTimeoutFlag, st, asked>>
    BY <1>3 DEF Clocks!SynchStop, Clocks!counter, Clocks!setup, Clocks!irq
  <2>2. st \in 0 .. Width - 1
    BY DEF TInv, CountRight
  <2>3. st = (st + 0) % Width
    BY <1>1, <2>2, Within
  <2>4. CountRight'
    BY <1>1, <2>1, <2>2, <2>3 DEF TInv, CountRight
  <2>5. TimeoutRight'
    BY <2>1 DEF TInv, TimeoutRight
  <2> QED
    BY <2>4, <2>5 DEF TInv
<1> QED
  BY <1>2, <1>3

LEMMA TStep == TInv /\ [Clocks!Next]_(Clocks!vars) => TInv'
<1> SUFFICES ASSUME TInv, [Clocks!Next]_(Clocks!vars) PROVE TInv'
  OBVIOUS
<1>1. CASE ~napping /\ Clocks!Calls
  BY <1>1, AppCallKeeps
<1>2. CASE \E n \in RunSteps : Clocks!Run(n)
  BY <1>2, RunKeeps
<1>3. CASE (\E n \in SleepSteps : Clocks!SleepTicks(n)) \/ Clocks!SynchStop
  BY <1>3, NapKeeps
<1>4. CASE Clocks!T2_ISR
  BY <1>4 DEF Clocks!T2_ISR, Clocks!counter, Clocks!setup, Clocks!nap, TInv, CountRight, TimeoutRight
<1>5. CASE Clocks!SynchStart
  BY <1>5, SynchKeeps
<1>6. CASE UNCHANGED Clocks!vars
  BY <1>6 DEF Clocks!vars, Clocks!counter, Clocks!setup, Clocks!irq, Clocks!nap, TInv, CountRight,
              TimeoutRight
<1> QED
  BY <1>1, <1>2, <1>3, <1>4, <1>5, <1>6 DEF Clocks!Next

LEMMA ClocksOneAtATime ==
  [MCNext]_<<which, drivers>> => [Clocks!Next]_(Clocks!vars) /\ [Power!Next]_(Power!vars)
<1>1. UNCHANGED timerVars <=> UNCHANGED Clocks!vars
  BY DEF timerVars, Clocks!vars, Clocks!counter, Clocks!setup, Clocks!irq, Clocks!nap
<1>2. UNCHANGED powerVars <=> UNCHANGED Power!vars
  BY DEF powerVars, Power!vars, Power!clocks, Power!timer
<1>3. UNCHANGED drivers => UNCHANGED timerVars /\ UNCHANGED powerVars
  BY DEF drivers
<1> QED
  BY <1>1, <1>2, <1>3 DEF MCNext

LEMMA ClocksInvariant == MCSpec => [](TInv /\ PInv)
<1>1. MCInit => TInv /\ PInv
  BY TInit, PInit DEF MCInit
<1>2. TInv /\ PInv /\ [MCNext]_<<which, drivers>> => (TInv /\ PInv)'
  BY ClocksOneAtATime, TStep, PStep
<1> QED
  BY <1>1, <1>2, PTL DEF MCSpec

(* A timeout is never told before the milliseconds that were asked for are over, *)
(* and the chip never falls asleep with its alarm behind it, for every width of  *)
(* the timers and every duration: hal_timer2.c and hal_sleep.c.                  *)
THEOREM AlarmsAreInTime == MCSpec => []AlarmsInTime
<1>1. TInv => Clocks!TimeoutNotEarly
  BY DEF TInv, TimeoutRight, Clocks!TimeoutNotEarly
<1>2. TInv /\ PInv => AlarmsInTime
  BY <1>1, PowerRight DEF AlarmsInTime
<1> QED
  BY <1>2, ClocksInvariant, PTL

(* The time of a nap is added to the count of Timer 2, without one period lost   *)
(* or added where the sleep timer wraps, the 32-bit difference borrows or the    *)
(* 16-bit sum would overflow; and an application that runs again after a sleep   *)
(* runs on the undivided crystal with the radio's engine out of reset.           *)
THEOREM NapsAreCounted == MCSpec => NapIsCounted
<1>1. TInv => Clocks!NapStep
  BY Awoken DEF Clocks!NapStep
<1>2. TInv /\ PInv /\ [MCNext]_<<which, drivers>>
        => [/\ which = "timers" => Clocks!NapStep
            /\ which = "power" => Power!ReadyStep]_<<timerVars, powerVars>>
  BY <1>1, ReadyRight, ClocksOneAtATime
<1> QED
  BY <1>2, ClocksInvariant, PTL DEF MCSpec, NapIsCounted

------------------------------------------------------------------------------
(* What a byte is to hold when the first n of the data are over it: behind an    *)
(* erase where the call has one.                                                 *)
Under(b) == IF fPc # "write" /\ b \div Memory!PageSize = args.at \div Memory!PageSize
            THEN Ones ELSE before[b]
Over(b, n) == IF b - args.at \in 0 .. n - 1 THEN Under(b) \intersect args.data[b - args.at + 1]
                                            ELSE Under(b)

(* Between the calls the controller is idle and the channel disarmed.            *)
RestRight ==
  fPc \in {"ready", "read"} => FCTL = "" /\ ~DMAARM

(* A read has the bytes it was asked for, up to the one it is at.                *)
ReadRight ==
  fPc = "read" =>
    /\ args.pg \in Memory!Pages /\ args.offset \in Nat /\ args.cnt \in Nat
    /\ args.offset + args.cnt <= Memory!PageSize
    /\ flash = before /\ MEMCTR = args.pg \div PagesPerBank
    /\ fBuf \in Seq(SUBSET Ones) /\ Len(fBuf) <= args.cnt
    /\ \A b \in 1 .. Len(fBuf) : fBuf[b] = before[args.pg * Memory!PageSize + args.offset + b - 1]

EraseRight ==
  fPc = "erase" =>
    /\ ~DMAARM /\ FCTL \in {"", "erase"}
    /\ FCTL = "erase" => flash = before /\ Memory!PageOf(FADDR) = args.pg
    /\ FCTL = "" => flash = Memory!ErasedPage(args.pg)

(* A write has moved the first of its bytes, those still to move are the rest.   *)
DescRight ==
  fPc \in {"write", "erased", "moved", "page"} =>
    /\ args = [asked |-> args.asked, at |-> args.at, data |-> args.data, moved |-> args.moved]
    /\ args.at = IF fPc = "write" THEN args.asked
                 ELSE args.asked % (NamedPages * Memory!PageSize)
    /\ args.at = FADDR * Memory!WordSize
    /\ args.data \in Seq(SUBSET Ones) /\ Len(args.data) > 0
    /\ args.moved \in 0 .. Len(args.data)
    /\ desc \in Seq(SUBSET Ones) /\ Len(desc) = Len(args.data) - args.moved
    /\ \A b \in 1 .. Len(desc) : desc[b] = args.data[args.moved + b]

WriteRight ==
  /\ fPc = "erased" =>
       /\ args.moved = 0 /\ ~DMAARM /\ FCTL \in {"", "erase"}
       /\ FCTL = "erase" => flash = before /\ Memory!PageOf(FADDR) = args.at \div Memory!PageSize
  /\ fPc \in {"write", "moved", "page"} =>
       /\ FCTL \in {"", "write"}
       /\ DMAARM <=> Len(desc) > 0
       /\ FCTL = "" => ~DMAARM

BytesRight ==
  fPc \in {"write", "moved", "page"} \/ (fPc = "erased" /\ FCTL = "") =>
    \A b \in Memory!Bytes : flash[b] = Over(b, args.moved)

FInv == /\ FADDR \in Nat /\ flash \in [Memory!Bytes -> SUBSET Ones]
        /\ before \in [Memory!Bytes -> SUBSET Ones] /\ DMAARM \in BOOLEAN
        /\ RestRight /\ ReadRight /\ EraseRight /\ DescRight /\ WriteRight /\ BytesRight
        /\ fPc \in {"ready", "read", "erase", "write", "erased", "moved", "page"}

(* Sizes, and where a page is.                                                   *)
LEMMA Sizes ==
  /\ Memory!WordSize = 4 /\ Memory!PageSize = 8 * HighUnit /\ Memory!PageSize \in Nat \ {0}
  /\ Memory!PageSize >= 8
  /\ Memory!PerBank = PagesPerBank * Memory!PageSize
  /\ Banks \in Nat \ {0} /\ PagesPerBank \in Nat \ {0} /\ HighUnit \in Nat \ {0}
BY FlashAssumption DEF Memory!WordSize, Memory!PageSize, Memory!PerBank

LEMMA PageAt ==
  ASSUME NEW S \in Nat \ {0}, NEW pg \in Nat, NEW x \in 0 .. S - 1
  PROVE  (pg * S + x) \div S = pg
<1>1. pg * S = S * pg
  OBVIOUS
<1>2. (S * pg + x) \div S = pg
  BY Divided
<1> QED
  BY <1>1, <1>2

LEMMA InPage ==
  ASSUME NEW S \in Nat \ {0}, NEW K \in Nat, NEW pg \in 0 .. K - 1, NEW x \in 0 .. S - 1
  PROVE  pg * S + x \in 0 .. K * S - 1
<1>1. (pg + 1) * S <= K * S
  OBVIOUS
<1>2. (pg + 1) * S = pg * S + S /\ pg * S >= 0
  OBVIOUS
<1>3. pg * S \in Int /\ K * S \in Int
  OBVIOUS
<1> DEFINE p == pg * S  k == K * S
<1> HIDE DEF p, k
<1>4. p + S <= k /\ p >= 0 /\ p \in Int /\ k \in Int
  BY <1>1, <1>2, <1>3 DEF p, k
<1>5. p + x \in 0 .. k - 1
  BY <1>4
<1> QED
  BY <1>5 DEF p, k

(* The words that are written to.                                                *)
LEMMA WordAt ==
  ASSUME NEW pg \in Memory!Pages, NEW word \in 0 .. 2 * HighUnit - 1
  PROVE  LET w == pg * 2 * HighUnit + word
         IN  /\ w \in Nat /\ Memory!PageOf(w) = pg
             /\ (w * Memory!WordSize) \div Memory!PageSize = pg
             /\ Memory!FlashWord(w * Memory!WordSize) = w
<1>1. pg \in Nat /\ HighUnit \in Nat \ {0} /\ word \in Nat
  BY Sizes DEF Memory!Pages
<1> DEFINE w == pg * 2 * HighUnit + word
<1>2. w = pg * (2 * HighUnit) + word
  <2>1. pg * 2 * HighUnit = pg * (2 * HighUnit)
    BY <1>1
  <2> QED
    BY <2>1
<1>3. w \in Nat
  <2>1. pg * (2 * HighUnit) \in Nat
    BY <1>1
  <2> QED
    BY <1>1, <1>2, <2>1
<1>4. w \div (2 * HighUnit) = pg
  <2> DEFINE S == 2 * HighUnit
  <2>1. S \in Nat \ {0} /\ word \in 0 .. S - 1
    BY <1>1
  <2>2. w = pg * S + word
    BY <1>2
  <2> HIDE DEF S, w
  <2>3. (pg * S + word) \div S = pg
    BY <1>1, <2>1, PageAt
  <2>4. w \div S = pg
    BY <2>2, <2>3
  <2> QED
    BY <2>4 DEF S
<1>5. (w * 4) \div (8 * HighUnit) = pg
  <2> DEFINE S == 8 * HighUnit  x == 4 * word
  <2>1. S \in Nat \ {0} /\ x \in 0 .. S - 1
    BY <1>1
  <2>2. w * 4 = pg * S + x
    <3>1. pg * (8 * HighUnit) = 4 * (pg * (2 * HighUnit))
      BY <1>1
    <3>2. pg * (2 * HighUnit) \in Nat
      BY <1>1
    <3> QED
      BY <1>1, <1>2, <3>1, <3>2
  <2> HIDE DEF S, x, w
  <2>3. (pg * S + x) \div S = pg
    BY <1>1, <2>1, PageAt
  <2>4. (w * 4) \div S = pg
    BY <2>2, <2>3
  <2> QED
    BY <2>4 DEF S
<1> HIDE DEF w
<1>6. (w * 4) \div 4 = w
  BY <1>3
<1>7. /\ Memory!PageOf(w) = pg /\ (w * Memory!WordSize) \div Memory!PageSize = pg
      /\ Memory!FlashWord(w * Memory!WordSize) = w
  BY <1>4, <1>5, <1>6, Sizes DEF Memory!PageOf, Memory!FlashWord
<1> QED
  BY <1>3, <1>7 DEF w

(* What sixteen bits leave of the address of a word: a word of the same place in  *)
(* another page, or in the same.                                                 *)
LEMMA CutWord ==
  ASSUME NEW pg \in Memory!Pages, NEW word \in 0 .. 2 * HighUnit - 1
  PROVE  /\ pg % NamedPages \in Memory!Pages
         /\ Memory!Uint16((pg * 2 * HighUnit + word) * Memory!WordSize)
              = ((pg % NamedPages) * 2 * HighUnit + word) * Memory!WordSize
<1> DEFINE R == NamedPages  q == pg \div R  p == pg % R  S == 8 * HighUnit  x == 4 * word
<1>1. /\ pg \in Nat /\ HighUnit \in Nat \ {0} /\ word \in Nat /\ R \in Nat \ {0}
      /\ Memory!PageSize = S /\ Memory!WordSize = 4
  BY Sizes, FlashAssumption DEF Memory!Pages
<1>2. S \in Nat \ {0} /\ x \in 0 .. S - 1
  BY <1>1
<1>3. q \in Nat /\ p \in 0 .. R - 1 /\ pg = R * q + p /\ p <= pg
  BY <1>1
<1>4. p \in Memory!Pages
  <2>1. Banks * PagesPerBank \in Int
    BY Sizes
  <2> HIDE DEF p
  <2> QED
    BY <1>1, <1>3, <2>1 DEF Memory!Pages
<1>5. /\ (pg * 2 * HighUnit + word) * 4 = pg * S + x
      /\ (p * 2 * HighUnit + word) * 4 = p * S + x
  <2>1. \A a, h, y \in Nat : (a * 2 * h + y) * 4 = a * (8 * h) + 4 * y
    OBVIOUS
  <2>2. p \in Nat
    BY <1>3
  <2> HIDE DEF p
  <2> QED
    BY <1>1, <2>1, <2>2
<1> HIDE DEF R, q, p, S, x
<1>6. pg * S + x = (R * S) * q + (p * S + x)
  <2>1. \A a, b, c, d \in Nat : (a * b + c) * d = (a * d) * b + c * d
    OBVIOUS
  <2>2. p \in Nat /\ S \in Nat /\ x \in Nat /\ R \in Nat
    BY <1>1, <1>2, <1>3
  <2>3. pg * S = (R * S) * q + p * S
    BY <1>3, <2>1, <2>2
  <2>4. (R * S) * q \in Nat /\ p * S \in Nat
    <3>1. R * S \in Nat /\ p * S \in Nat
      BY <2>2
    <3> QED
      BY <1>3, <3>1
  <2> QED
    BY <2>2, <2>3, <2>4
<1>7. p * S + x \in 0 .. R * S - 1
  BY <1>1, <1>2, <1>3, InPage
<1>8. (pg * S + x) % (R * S) = p * S + x
  <2> DEFINE T == R * S  y == p * S + x
  <2>1. T \in Nat \ {0}
    BY <1>1, <1>2
  <2>2. y \in 0 .. T - 1
    BY <1>7
  <2>3. pg * S + x = T * q + y
    BY <1>6
  <2> HIDE DEF T, y
  <2>4. q \in Int
    BY <1>3
  <2>5. (T * q + y) % T = y
    BY ONLY <2>1, <2>2, <2>4, Divided
  <2> QED
    BY <2>3, <2>5 DEF T, y
<1>9. Memory!Uint16(pg * S + x) = p * S + x
  BY <1>1, <1>8 DEF Memory!Uint16, R
<1>10. Memory!Uint16((pg * 2 * HighUnit + word) * Memory!WordSize)
         = (p * 2 * HighUnit + word) * Memory!WordSize
  BY <1>1, <1>5, <1>9, Zenon
<1> QED
  BY <1>4, <1>10 DEF p, R

(* The window of a bank: where the read of a page begins.                        *)
LEMMA WindowAt ==
  ASSUME NEW pg \in Memory!Pages, NEW n \in Nat
  PROVE  (pg \div PagesPerBank) * Memory!PerBank + (n + (pg % PagesPerBank) * Memory!PageSize)
           = pg * Memory!PageSize + n
<1> DEFINE q == pg \div PagesPerBank  r == pg % PagesPerBank  S == Memory!PageSize
<1>1. pg \in Nat /\ PagesPerBank \in Nat \ {0} /\ S \in Nat /\ Memory!PerBank = PagesPerBank * S
  BY Sizes DEF Memory!Pages
<1>2. q \in Int /\ r \in Int /\ pg = PagesPerBank * q + r
  BY <1>1
<1> HIDE DEF q, r, S
<1>3. pg * S = q * (PagesPerBank * S) + r * S
  <2>1. pg * S = (PagesPerBank * q) * S + r * S
    BY <1>1, <1>2
  <2>2. (PagesPerBank * q) * S = q * (PagesPerBank * S)
    BY <1>1, <1>2
  <2> QED
    BY <2>1, <2>2
<1>4. q * Memory!PerBank = q * (PagesPerBank * S)
  BY <1>1
<1>5. q * (PagesPerBank * S) \in Int /\ r * S \in Int
  BY <1>1, <1>2
<1>6. q * Memory!PerBank + (n + r * S) = pg * S + n
  BY <1>3, <1>4, <1>5
<1> QED
  BY <1>6 DEF q, r, S

LEMMA FInit == Memory!Init => FInv
<1> SUFFICES ASSUME Memory!Init PROVE FInv
  OBVIOUS
<1>1. flash \in [Memory!Bytes -> SUBSET Ones] /\ before = flash
  BY DEF Memory!Init
<1>2. fPc = "ready" /\ FADDR = 0 /\ DMAARM = FALSE /\ FCTL = ""
  BY DEF Memory!Init
<1> QED
  BY <1>1, <1>2 DEF FInv, RestRight, ReadRight, EraseRight, DescRight, WriteRight, BytesRight

(* The calls begin.                                                              *)
LEMMA ReadCalled ==
  ASSUME FInv, NEW pg \in Memory!Pages, NEW offset \in {0, Memory!PageSize - 3},
         Memory!HalFlashRead(pg, offset, 3)
  PROVE  FInv'
<1>1. /\ fPc = "ready" /\ fPc' = "read" /\ before' = flash
      /\ args' = [pg |-> pg, offset |-> offset, cnt |-> 3, saved |-> MEMCTR]
      /\ MEMCTR' = pg \div PagesPerBank /\ fBuf' = <<>>
      /\ flash' = flash /\ FADDR' = FADDR /\ FCTL' = FCTL /\ DMAARM' = DMAARM
  BY DEF Memory!HalFlashRead, Memory!Ready, Memory!Called, Memory!chip
<1>2. /\ offset \in Nat /\ offset + 3 <= Memory!PageSize
  BY Sizes
<1>3. /\ args'.pg = pg /\ args'.offset = offset /\ args'.cnt = 3
  BY <1>1
<1>4. ReadRight'
  BY <1>1, <1>2, <1>3 DEF ReadRight
<1> QED
  BY <1>1, <1>4 DEF FInv, RestRight, EraseRight, DescRight, WriteRight, BytesRight

LEMMA WriteCalled ==
  ASSUME FInv, NEW pg \in Memory!Pages, NEW word \in {0, HighUnit}, NEW d \in Buffers,
         \/ Memory!HalFlashWrite(pg * 2 * HighUnit + word, d)
         \/ Memory!HalFlashWritePage((pg * 2 * HighUnit + word) * Memory!WordSize, d)
  PROVE  FInv'
<1> DEFINE v == pg * 2 * HighUnit + word
           cut == (pg % NamedPages) * 2 * HighUnit + word
           wide == Memory!HalFlashWrite(v, d)
           w == IF wide THEN v ELSE cut
           p == IF wide THEN pg ELSE pg % NamedPages
<1>1. word \in 0 .. 2 * HighUnit - 1
  BY Sizes
<1>2. /\ w \in Nat /\ Memory!PageOf(w) = p
      /\ (w * Memory!WordSize) \div Memory!PageSize = p
      /\ Memory!FlashWord(w * Memory!WordSize) = w
  <2>1. pg % NamedPages \in Memory!Pages
    BY <1>1, CutWord
  <2>2. CASE wide
    BY <1>1, <2>2, WordAt
  <2>3. CASE ~wide
    BY <1>1, <2>1, <2>3, WordAt
  <2> QED
    BY <2>2, <2>3
<1>3. d \in Seq(SUBSET Ones) /\ Len(d) > 0 /\ Len(d) \in Nat
  BY FlashAssumption
<1>4. /\ fPc = "ready" /\ FCTL = "" /\ before' = flash /\ flash' = flash /\ FADDR' = w
      /\ args' = [asked |-> v * Memory!WordSize, at |-> w * Memory!WordSize, data |-> d, moved |-> 0]
      /\ desc' = d
      /\ \/ fPc' = "write" /\ DMAARM' = TRUE /\ FCTL' = "write" /\ w = v
         \/ /\ fPc' = "erased" /\ DMAARM' = DMAARM /\ FCTL' = "erase"
            /\ w * Memory!WordSize = Memory!Uint16(v * Memory!WordSize)
  <2> HIDE DEF v, cut
  <2>1. CASE wide
    <3>1. w = v
      BY <2>1
    <3> QED
      BY <2>1, <3>1 DEF Memory!HalFlashWrite, Memory!Ready, Memory!Called
  <2>2. CASE ~wide
    <3>1. w = cut /\ Memory!HalFlashWritePage(v * Memory!WordSize, d)
      BY <2>2 DEF v
    <3>2. Memory!Uint16(v * Memory!WordSize) = w * Memory!WordSize
      BY <1>1, <3>1, CutWord DEF v, cut
    <3>3. Memory!FlashWord(Memory!Uint16(v * Memory!WordSize)) = w
      BY <1>2, <3>2
    <3> HIDE DEF w
    <3> QED
      BY <3>1, <3>2, <3>3 DEF Memory!HalFlashWritePage, Memory!Ready, Memory!Called
  <2> QED
    BY <2>1, <2>2
<1> HIDE DEF w, v, wide, cut, p
<1>5. /\ args'.at = FADDR' * Memory!WordSize /\ args'.data = d /\ args'.moved = 0
      /\ args' = [asked |-> args'.asked, at |-> args'.at, data |-> args'.data, moved |-> args'.moved]
      /\ args'.at = IF fPc' = "write" THEN args'.asked
                    ELSE args'.asked % (NamedPages * Memory!PageSize)
  <2>1. args'.asked = v * Memory!WordSize /\ args'.at = w * Memory!WordSize
    BY <1>4
  <2>2. args'.at = IF fPc' = "write" THEN args'.asked ELSE Memory!Uint16(args'.asked)
    BY <1>4, <2>1
  <2> QED
    BY <1>4, <2>1, <2>2 DEF Memory!Uint16
<1>6. ~DMAARM /\ FADDR' \in Nat /\ before' \in [Memory!Bytes -> SUBSET Ones]
      /\ flash' \in [Memory!Bytes -> SUBSET Ones] /\ DMAARM' \in BOOLEAN
  BY <1>2, <1>4 DEF FInv, RestRight
<1>7. \A b \in 1 .. Len(desc') : desc'[b] = args'.data[args'.moved + b]
  <2>1. \A b \in 1 .. Len(d) : 0 + b = b
    BY <1>3
  <2>2. \A b \in 1 .. Len(d) : d[b] = d[0 + b]
    BY <2>1
  <2>3. desc' = d /\ args'.data = d /\ args'.moved = 0
    BY <1>4, <1>5
  <2> QED
    BY <2>2, <2>3, Zenon
<1>8. fPc' = "write" => \A b \in Memory!Bytes : flash'[b] = Over(b, args.moved)'
  <2> SUFFICES ASSUME fPc' = "write", NEW b \in Memory!Bytes PROVE flash'[b] = Over(b, args.moved)'
    OBVIOUS
  <2>1. b - args'.at \notin 0 .. args'.moved - 1
    BY <1>5
  <2>2. before'[b] = flash'[b]
    BY <1>4
  <2> QED
    BY <2>1, <2>2 DEF Over, Under
<1>9. Memory!PageOf(FADDR') = args'.at \div Memory!PageSize
  BY <1>2, <1>4, <1>5
<1>10. DescRight'
  <2>1. args'.moved \in 0 .. Len(args'.data) /\ Len(desc') = Len(args'.data) - args'.moved
    <3>1. 0 \in 0 .. Len(d) /\ Len(d) = Len(d) - 0
      BY <1>3
    <3>2. desc' = d /\ args'.data = d /\ args'.moved = 0
      BY <1>4, <1>5
    <3> QED
      BY <3>1, <3>2, Zenon
  <2> QED
    BY <1>3, <1>4, <1>5, <1>7, <2>1 DEF DescRight
<1>11. WriteRight' /\ BytesRight'
  BY <1>3, <1>4, <1>5, <1>6, <1>8, <1>9 DEF WriteRight, BytesRight, Memory!PageOf
<1> QED
  BY <1>4, <1>6, <1>10, <1>11 DEF FInv, RestRight, ReadRight, EraseRight

LEMMA EraseCalled ==
  ASSUME FInv, NEW pg \in Memory!Pages, Memory!HalFlashErase(pg)
  PROVE  FInv'
<1> DEFINE word == FADDR % HighUnit
<1>1. word \in 0 .. 2 * HighUnit - 1
  <2>1. FADDR \in Nat /\ HighUnit \in Nat \ {0}
    BY Sizes DEF FInv
  <2>2. word \in 0 .. HighUnit - 1
    BY <2>1
  <2> QED
    BY <2>1, <2>2
<1> HIDE DEF word
<1>2. pg * 2 * HighUnit + word \in Nat /\ Memory!PageOf(pg * 2 * HighUnit + word) = pg
  BY <1>1, WordAt
<1>3. /\ fPc = "ready" /\ FCTL = "" /\ fPc' = "erase" /\ before' = flash /\ flash' = flash
      /\ args' = [pg |-> pg] /\ FADDR' = pg * 2 * HighUnit + word /\ FCTL' = "erase"
      /\ DMAARM' = DMAARM
  BY DEF Memory!HalFlashErase, Memory!Ready, Memory!Called, word
<1>4. FADDR' \in Nat /\ Memory!PageOf(FADDR') = args'.pg
  BY <1>2, <1>3
<1>5. EraseRight'
  BY <1>3, <1>4 DEF FInv, RestRight, EraseRight, Memory!PageOf
<1> QED
  BY <1>3, <1>4, <1>5 DEF FInv, RestRight, ReadRight, DescRight, WriteRight, BytesRight

(* A byte is read, or the read is over.                                          *)
LEMMA ReadGoesOn ==
  ASSUME FInv, Memory!ReadByte
  PROVE  FInv'
<1>1. /\ fPc = "read" /\ flash' = flash /\ FADDR' = FADDR /\ FCTL' = FCTL /\ DMAARM' = DMAARM
      /\ args' = args /\ before' = before
  BY DEF Memory!ReadByte, Memory!chip
<1>2. /\ args.pg \in Memory!Pages /\ args.offset \in Nat /\ args.cnt \in Nat
      /\ args.offset + args.cnt <= Memory!PageSize
      /\ flash = before /\ MEMCTR = args.pg \div PagesPerBank
      /\ fBuf \in Seq(SUBSET Ones) /\ Len(fBuf) <= args.cnt
      /\ \A b \in 1 .. Len(fBuf) : fBuf[b] = before[args.pg * Memory!PageSize + args.offset + b - 1]
  BY <1>1 DEF FInv, ReadRight
<1>3. CASE Len(fBuf) < args.cnt
  <2> DEFINE x == args.offset + Len(fBuf)
             e == flash[MEMCTR * Memory!PerBank + Memory!Window + Len(fBuf)]
  <2>1. fBuf' = Append(fBuf, e) /\ MEMCTR' = MEMCTR /\ fPc' = "read"
    BY <1>1, <1>3 DEF Memory!ReadByte
  <2>2. Len(fBuf) \in Nat /\ x \in Nat /\ x \in 0 .. Memory!PageSize - 1
    <3>1. /\ fBuf \in Seq(SUBSET Ones) /\ args.offset \in Nat /\ args.cnt \in Nat
          /\ args.offset + args.cnt <= Memory!PageSize /\ Memory!PageSize \in Nat
      BY <1>2, Sizes, Zenon
    <3>2. Len(fBuf) \in Nat
      BY <3>1
    <3> QED
      BY <1>3, <3>1, <3>2
  <2>3. MEMCTR * Memory!PerBank + Memory!Window + Len(fBuf) = args.pg * Memory!PageSize + x
    <3> DEFINE q == args.pg \div PagesPerBank  r == (args.pg % PagesPerBank) * Memory!PageSize
               m == q * Memory!PerBank
    <3>1. m + (x + r) = args.pg * Memory!PageSize + x
      BY <1>2, <2>2, WindowAt
    <3>2. m \in Int /\ r \in Int
      <4>1. args.pg \in Nat /\ PagesPerBank \in Nat \ {0} /\ Memory!PageSize \in Nat
            /\ Memory!PerBank \in Nat
        BY <1>2, Sizes DEF Memory!Pages
      <4>2. args.pg \div PagesPerBank \in Int /\ args.pg % PagesPerBank \in Int
        BY <4>1
      <4> QED
        BY <4>1, <4>2
    <3>3. Memory!Window = args.offset + r
      BY DEF Memory!Window
    <3>4. MEMCTR * Memory!PerBank = m
      BY <1>2
    <3> HIDE DEF m, r, q
    <3>5. m + (args.offset + r) + Len(fBuf) = m + (args.offset + Len(fBuf) + r)
      BY <1>2, <2>2, <3>2
    <3> QED
      BY <3>1, <3>3, <3>4, <3>5
  <2>4. args.pg * Memory!PageSize + x \in Memory!Bytes
    <3> DEFINE S == Memory!PageSize  K == Banks * PagesPerBank
    <3>1. S \in Nat \ {0} /\ K \in Nat /\ args.pg \in 0 .. K - 1 /\ x \in 0 .. S - 1
      BY <1>2, <2>2, Sizes DEF Memory!Pages
    <3>2. K * S = Banks * Memory!PerBank
      BY Sizes
    <3> HIDE DEF S, K, x
    <3>3. args.pg * S + x \in 0 .. K * S - 1
      BY <3>1, InPage
    <3>4. Memory!Bytes = 0 .. K * S - 1
      BY <3>2 DEF Memory!Bytes
    <3> QED
      BY <3>3, <3>4 DEF S
  <2>5. e = before[args.pg * Memory!PageSize + x] /\ e \in SUBSET Ones
    <3>1. before \in [Memory!Bytes -> SUBSET Ones]
      BY DEF FInv
    <3> HIDE DEF x
    <3> QED
      BY <1>2, <2>3, <2>4, <3>1
  <2> HIDE DEF e
  <2>6. /\ fBuf' \in Seq(SUBSET Ones) /\ Len(fBuf') = Len(fBuf) + 1
        /\ \A b \in 1 .. Len(fBuf) : fBuf'[b] = fBuf[b]
        /\ fBuf'[Len(fBuf) + 1] = e
    BY <1>2, <2>1, <2>5
  <2>7. ASSUME NEW b \in 1 .. Len(fBuf')
        PROVE  fBuf'[b] = before[args.pg * Memory!PageSize + args.offset + b - 1]
    <3>1. CASE b \in 1 .. Len(fBuf)
      BY <1>2, <2>6, <3>1
    <3>2. CASE b = Len(fBuf) + 1
      <4> DEFINE m == args.pg * Memory!PageSize
      <4>1. m \in Int
        BY <1>2, Sizes DEF Memory!Pages
      <4>2. m + x = m + args.offset + b - 1
        <5> HIDE DEF m
        <5> QED
          BY <1>2, <2>2, <3>2, <4>1
      <4>3. fBuf'[b] = e
        BY <2>6, <3>2, Zenon
      <4>4. e = before[args.pg * Memory!PageSize + x]
        BY <2>5
      <4> QED
        BY <4>2, <4>3, <4>4, Zenon
    <3> QED
      BY <2>2, <2>6, <3>1, <3>2
  <2>8. ReadRight'
    <3>1. Len(fBuf') <= args.cnt
      BY <1>2, <1>3, <2>2, <2>6
    <3> QED
      BY <1>1, <1>2, <2>1, <2>6, <2>7, <3>1 DEF ReadRight
  <2> QED
    BY <1>1, <2>1, <2>8 DEF FInv, RestRight, EraseRight, DescRight, WriteRight, BytesRight
<1>4. CASE ~(Len(fBuf) < args.cnt)
  <2>1. fPc' = "ready"
    BY <1>4 DEF Memory!ReadByte
  <2> QED
    BY <1>1, <2>1 DEF FInv, RestRight, ReadRight, EraseRight, DescRight, WriteRight, BytesRight
<1> QED
  BY <1>3, <1>4

(* The waits of the writes and the erase end.                                    *)
LEMMA WaitsEnd ==
  ASSUME FInv, Memory!ArmAndWrite \/ Memory!AwaitDma \/ Memory!Return
  PROVE  FInv'
<1>1. CASE Memory!ArmAndWrite \/ Memory!AwaitDma
  <2>1. /\ flash' = flash /\ FADDR' = FADDR /\ desc' = desc /\ args' = args /\ before' = before
        /\ \/ /\ fPc = "erased" /\ FCTL = "" /\ fPc' = "moved" /\ DMAARM' = TRUE /\ FCTL' = "write"
           \/ /\ fPc = "moved" /\ fPc' = "page" /\ DMAARM' = DMAARM /\ FCTL' = FCTL
    BY <1>1 DEF Memory!ArmAndWrite, Memory!AwaitDma, Memory!chip
  <2>2. DescRight /\ WriteRight /\ BytesRight
    BY DEF FInv
  <2>3. BytesRight'
    <3> SUFFICES ASSUME NEW b \in Memory!Bytes PROVE flash'[b] = Over(b, args.moved)'
      BY DEF BytesRight
    <3>1. flash[b] = Over(b, args.moved)
      BY <2>1, <2>2 DEF BytesRight
    <3>2. Under(b)' = Under(b)
      BY <2>1 DEF Under
    <3>3. Over(b, args.moved)' = Over(b, args.moved)
      BY <2>1, <3>2 DEF Over
    <3>4. flash' = flash
      BY <2>1
    <3> QED
      BY <3>1, <3>3, <3>4, Zenon
  <2>4. DescRight'
    BY <2>1, <2>2 DEF DescRight
  <2>5. fPc = "erased" => Len(desc) > 0
    <3> SUFFICES ASSUME fPc = "erased" PROVE Len(desc) > 0
      OBVIOUS
    <3>1. args.moved = 0
      BY <2>2 DEF WriteRight
    <3>2. Len(args.data) > 0 /\ Len(args.data) \in Nat /\ Len(desc) = Len(args.data) - args.moved
      BY <2>2 DEF DescRight
    <3> QED
      BY <3>1, <3>2
  <2>6. WriteRight'
    <3>1. CASE fPc = "erased" /\ fPc' = "moved" /\ DMAARM' = TRUE /\ FCTL' = "write"
      BY <2>1, <2>5, <3>1 DEF WriteRight
    <3>2. CASE fPc = "moved" /\ fPc' = "page" /\ DMAARM' = DMAARM /\ FCTL' = FCTL
      BY <2>1, <2>2, <3>2 DEF WriteRight
    <3> QED
      BY <2>1, <3>1, <3>2
  <2> QED
    BY <2>1, <2>3, <2>4, <2>6 DEF FInv, RestRight, ReadRight, EraseRight
<1>2. CASE Memory!Return
  <2>1. /\ fPc \in {"write", "page", "erase"} /\ FCTL = "" /\ fPc' = "ready"
        /\ flash' = flash /\ FADDR' = FADDR /\ FCTL' = FCTL /\ DMAARM' = DMAARM /\ before' = before
    BY <1>2 DEF Memory!Return, Memory!Idle
  <2>2. ~DMAARM
    BY <2>1 DEF FInv, EraseRight, DescRight, WriteRight, BytesRight
  <2> QED
    BY <2>1, <2>2 DEF FInv, RestRight, ReadRight, EraseRight, DescRight, WriteRight, BytesRight
<1> QED
  BY <1>1, <1>2

(* The controller has erased a page.                                             *)
LEMMA ErasedKeeps ==
  ASSUME FInv, Memory!Erased, UNCHANGED <<args, fPc, before>>
  PROVE  FInv'
<1>1. /\ FCTL = "erase" /\ FCTL' = ""
      /\ flash' = [b \in Memory!Bytes |-> IF b \div Memory!PageSize = Memory!PageOf(FADDR)
                                            THEN Ones ELSE flash[b]]
      /\ FADDR' = FADDR /\ desc' = desc /\ DMAARM' = DMAARM
      /\ args' = args /\ fPc' = fPc /\ before' = before
  BY DEF Memory!Erased
<1>2. fPc \in {"erase", "erased"}
  BY <1>1 DEF FInv, RestRight, WriteRight
<1>3. flash' \in [Memory!Bytes -> SUBSET Ones]
  BY <1>1 DEF FInv
<1>4. CASE fPc = "erase"
  <2>1. flash = before /\ Memory!PageOf(FADDR) = args.pg /\ ~DMAARM
    BY <1>1, <1>4 DEF FInv, EraseRight
  <2>2. flash' = [b \in Memory!Bytes |-> IF b \div Memory!PageSize = args.pg THEN Ones ELSE before[b]]
    BY <1>1, <2>1
  <2>3. flash' = Memory!ErasedPage(args.pg)'
    BY <1>1, <2>2 DEF Memory!ErasedPage
  <2>4. EraseRight'
    BY <1>1, <2>1, <2>3 DEF EraseRight
  <2> QED
    BY <1>1, <1>3, <1>4, <2>4 DEF FInv, RestRight, ReadRight, DescRight, WriteRight, BytesRight
<1>5. CASE fPc = "erased"
  <2>1. DescRight /\ WriteRight
    BY DEF FInv
  <2>2. flash = before /\ Memory!PageOf(FADDR) = args.at \div Memory!PageSize /\ args.moved = 0
        /\ ~DMAARM
    BY <1>1, <1>5, <2>1 DEF WriteRight
  <2>3. ASSUME NEW b \in Memory!Bytes PROVE flash'[b] = Over(b, args.moved)'
    <3>1. flash'[b] = IF b \div Memory!PageSize = args.at \div Memory!PageSize THEN Ones ELSE before[b]
      BY <1>1, <2>2
    <3>2. b - args.at \notin 0 .. 0 - 1
      OBVIOUS
    <3>3. b - args'.at \notin 0 .. args'.moved - 1
      BY <1>1, <2>2, <3>2, Zenon
    <3>4. Over(b, args.moved)' = Under(b)'
      BY <3>3 DEF Over
    <3> QED
      BY <1>1, <1>5, <3>1, <3>4 DEF Under
  <2>4. DescRight' /\ WriteRight'
    BY <1>1, <1>5, <2>1, <2>2 DEF DescRight, WriteRight
  <2>5. BytesRight'
    BY <2>3 DEF BytesRight
  <2> QED
    BY <1>1, <1>3, <1>5, <2>4, <2>5 DEF FInv, RestRight, ReadRight, EraseRight
<1> QED
  BY <1>2, <1>4, <1>5

(* It has taken a byte from the channel.                                         *)
LEMMA MovedKeeps ==
  ASSUME FInv, Memory!Moved, UNCHANGED <<fPc, before>>
  PROVE  FInv'
<1> DEFINE n == args.moved
           to == FADDR * Memory!WordSize + args.moved
<1>1. /\ FCTL = "write" /\ DMAARM /\ desc # <<>> /\ desc' = Tail(desc)
      /\ flash' = [flash EXCEPT ![to] = @ \intersect Head(desc)]
      /\ DMAARM' = (Len(desc) > 1) /\ args' = [args EXCEPT !.moved = @ + 1]
      /\ FADDR' = FADDR /\ FCTL' = FCTL /\ fPc' = fPc /\ before' = before
  BY DEF Memory!Moved
<1>2. fPc \in {"write", "moved", "page"}
  BY <1>1 DEF FInv, RestRight, EraseRight, DescRight, WriteRight, BytesRight
<1>3. /\ args.at = FADDR * Memory!WordSize /\ args.data \in Seq(SUBSET Ones) /\ Len(args.data) > 0
      /\ n \in 0 .. Len(args.data) /\ desc \in Seq(SUBSET Ones)
      /\ Len(desc) = Len(args.data) - n
      /\ \A b \in 1 .. Len(desc) : desc[b] = args.data[n + b]
      /\ \A b \in Memory!Bytes : flash[b] = Over(b, n)
  BY <1>1, <1>2 DEF FInv, DescRight, BytesRight
<1>4. /\ Len(desc) \in Nat /\ Len(desc) > 0 /\ Len(args.data) \in Nat /\ n \in Nat /\ args.at \in Int
      /\ Len(desc') = Len(desc) - 1 /\ desc' \in Seq(SUBSET Ones)
      /\ \A b \in 1 .. Len(desc') : desc'[b] = desc[b + 1]
  <2>1. Len(desc) \in Nat /\ Len(args.data) \in Nat /\ n \in Nat
    BY <1>3
  <2>2. Len(desc) > 0 /\ Len(desc') = Len(desc) - 1 /\ desc' \in Seq(SUBSET Ones)
        /\ \A b \in 1 .. Len(desc') : desc'[b] = desc[b + 1]
    BY <1>1, <1>3
  <2>3. args.at \in Int
    BY <1>3, Sizes DEF FInv
  <2> QED
    BY <2>1, <2>2, <2>3
<1>5. /\ args'.at = args.at /\ args'.data = args.data /\ args'.moved = n + 1
      /\ args'.asked = args.asked
      /\ args' = [asked |-> args'.asked, at |-> args'.at, data |-> args'.data, moved |-> args'.moved]
  <2>1. args = [asked |-> args.asked, at |-> args.at, data |-> args.data, moved |-> args.moved]
    BY <1>2 DEF FInv, DescRight
  <2>2. args' = [args EXCEPT !.moved = n + 1]
    BY <1>1
  <2> QED
    BY <2>1, <2>2
<1>6. ASSUME NEW b \in 1 .. Len(desc') PROVE desc'[b] = args'.data[args'.moved + b]
  <2>0. Len(desc) \in Nat /\ n \in Nat /\ Len(desc') = Len(desc) - 1
    BY <1>4
  <2> HIDE DEF n
  <2>1. b + 1 \in 1 .. Len(desc) /\ n + (b + 1) = n + 1 + b
    BY <2>0
  <2>2. desc'[b] = desc[b + 1]
    BY <1>4
  <2>3. desc[b + 1] = args.data[n + (b + 1)]
    BY <1>3, <2>1
  <2> QED
    BY <1>5, <2>1, <2>2, <2>3, Zenon
<1>7. flash \in [Memory!Bytes -> SUBSET Ones] /\ to = args.at + n
  BY <1>3 DEF FInv
<1>8. Head(desc) = args.data[n + 1] /\ Head(desc) \in SUBSET Ones
  <2>1. Head(desc) = desc[1] /\ 1 \in 1 .. Len(desc) /\ desc[1] \in SUBSET Ones
    BY <1>3, <1>4
  <2> QED
    BY <1>3, <2>1
<1> HIDE DEF n, to
<1>9. flash' \in [Memory!Bytes -> SUBSET Ones]
  BY <1>1, <1>7, <1>8
<1>10. ASSUME NEW b \in Memory!Bytes PROVE flash'[b] = Over(b, args.moved)'
  <2>0. b \in Int
    BY Sizes DEF Memory!Bytes
  <2>1. Under(b)' = Under(b)
    BY <1>1, <1>5 DEF Under
  <2>2. Over(b, args.moved)' = IF b - args.at \in 0 .. n
                               THEN Under(b) \intersect args.data[b - args.at + 1] ELSE Under(b)
    <3>1. args'.at = args.at /\ args'.data = args.data /\ args'.moved - 1 = n
      BY <1>4, <1>5
    <3>2. Over(b, args.moved)' = IF b - args'.at \in 0 .. args'.moved - 1
                                 THEN Under(b)' \intersect args'.data[b - args'.at + 1] ELSE Under(b)'
      BY DEF Over
    <3>3. 0 .. args'.moved - 1 = 0 .. n
      BY <3>1
    <3>4. (b - args'.at \in 0 .. args'.moved - 1) <=> (b - args.at \in 0 .. n)
      BY <3>1, <3>3
    <3>5. (Under(b)' \intersect args'.data[b - args'.at + 1]) = (Under(b) \intersect args.data[b - args.at + 1])
      BY <2>1, <3>1
    <3>6. CASE b - args.at \in 0 .. n
      BY <3>2, <3>4, <3>5, <3>6
    <3>7. CASE ~(b - args.at \in 0 .. n)
      BY <2>1, <3>2, <3>4, <3>7
    <3> QED
      BY <3>6, <3>7
  <2>3. flash[b] = IF b - args.at \in 0 .. n - 1
                   THEN Under(b) \intersect args.data[b - args.at + 1] ELSE Under(b)
    BY <1>3 DEF Over
  <2>4. CASE b = to
    <3>1. b - args.at = n /\ b - args.at + 1 = n + 1
      BY <1>4, <1>7, <2>0, <2>4
    <3>2. flash[b] = Under(b)
      BY <1>4, <2>3, <3>1
    <3>3. flash'[b] = flash[b] \intersect Head(desc)
      BY <1>1, <1>7, <2>4
    <3>4. b - args.at \in 0 .. n
      BY <1>4, <3>1
    <3> QED
      BY <1>8, <2>2, <3>1, <3>2, <3>3, <3>4
  <2>5. CASE b # to
    <3>1. flash'[b] = flash[b]
      BY <1>1, <1>7, <2>5
    <3>2. b - args.at # n
      BY <1>4, <1>7, <2>0, <2>5
    <3>3. b - args.at \in 0 .. n <=> b - args.at \in 0 .. n - 1
      BY <1>4, <2>0, <3>2
    <3> QED
      BY <2>2, <2>3, <3>1, <3>3
  <2> QED
    BY <2>4, <2>5
<1>11. DescRight'
  <2>1. n + 1 \in 0 .. Len(args.data) /\ Len(desc) - 1 = Len(args.data) - (n + 1)
    BY <1>3, <1>4 DEF n
  <2>2. /\ args'.at = FADDR' * Memory!WordSize
        /\ args'.data \in Seq(SUBSET Ones) /\ Len(args'.data) > 0
    BY <1>1, <1>3, <1>5
  <2>4. args'.at = IF fPc' = "write" THEN args'.asked
                   ELSE args'.asked % (NamedPages * Memory!PageSize)
    <3>1. args.at = IF fPc = "write" THEN args.asked
                    ELSE args.asked % (NamedPages * Memory!PageSize)
      BY <1>2 DEF FInv, DescRight
    <3>2. args'.at = args.at /\ args'.asked = args.asked /\ fPc' = fPc
      BY <1>1, <1>5
    <3> QED
      BY ONLY <3>1, <3>2
  <2>3. /\ args'.moved \in 0 .. Len(args'.data)
        /\ desc' \in Seq(SUBSET Ones) /\ Len(desc') = Len(args'.data) - args'.moved
    BY <1>4, <1>5, <2>1, Zenon
  <2> QED
    BY <1>5, <1>6, <2>2, <2>3, <2>4 DEF DescRight
<1>12. WriteRight' /\ BytesRight'
  <2>1. FCTL' = "write" /\ (DMAARM' <=> Len(desc') > 0)
    <3>1. Len(desc) > 1 <=> Len(desc') > 0
      BY <1>4
    <3>2. FCTL' = "write" /\ (DMAARM' <=> Len(desc) > 1)
      BY <1>1
    <3> QED
      BY <3>1, <3>2
  <2> QED
    BY <1>1, <1>2, <1>10, <2>1 DEF WriteRight, BytesRight
<1> QED
  BY <1>1, <1>2, <1>9, <1>11, <1>12 DEF FInv, RestRight, ReadRight, EraseRight

LEMMA FStep == FInv /\ [Memory!Next]_(Memory!vars) => FInv'
<1> SUFFICES ASSUME FInv, [Memory!Next]_(Memory!vars) PROVE FInv'
  OBVIOUS
<1>1. ASSUME NEW pg \in Memory!Pages, NEW offset \in {0, Memory!PageSize - 3},
             Memory!HalFlashRead(pg, offset, 3)
      PROVE  FInv'
  BY <1>1, ReadCalled
<1>2. ASSUME NEW pg \in Memory!Pages, NEW word \in {0, HighUnit}, NEW d \in Buffers,
             \/ Memory!HalFlashWrite(pg * 2 * HighUnit + word, d)
             \/ Memory!HalFlashWritePage((pg * 2 * HighUnit + word) * Memory!WordSize, d)
      PROVE  FInv'
  BY <1>2, WriteCalled
<1>3. ASSUME NEW pg \in Memory!Pages, Memory!HalFlashErase(pg) PROVE FInv'
  BY <1>3, EraseCalled
<1>4. CASE Memory!ReadByte
  BY <1>4, ReadGoesOn
<1>5. CASE Memory!ArmAndWrite \/ Memory!AwaitDma \/ Memory!Return
  BY <1>5, WaitsEnd
<1>6. CASE Memory!Controller
  <2>1. UNCHANGED <<fPc, before>>
    BY <1>6 DEF Memory!Controller
  <2>2. CASE Memory!Erased /\ UNCHANGED args
    BY <2>1, <2>2, ErasedKeeps
  <2>3. CASE Memory!Moved
    BY <2>1, <2>3, MovedKeeps
  <2>4. CASE Memory!Written /\ UNCHANGED args
    <3>1. /\ FCTL = "write" /\ ~DMAARM /\ FCTL' = ""
          /\ UNCHANGED <<flash, FADDR, desc, DMAARM, args, fPc, before>>
      BY <2>1, <2>4 DEF Memory!Written
    <3>2. fPc \in {"write", "moved", "page"}
      BY <3>1 DEF FInv, RestRight, EraseRight, DescRight, WriteRight, BytesRight
    <3>3. DescRight' /\ WriteRight'
      BY <3>1, <3>2 DEF FInv, DescRight, WriteRight
    <3>4. BytesRight'
      BY <3>1, <3>2 DEF FInv, BytesRight, Over, Under
    <3> QED
      BY <3>1, <3>2, <3>3, <3>4 DEF FInv, RestRight, ReadRight, EraseRight
  <2> QED
    BY <1>6, <2>2, <2>3, <2>4 DEF Memory!Controller
<1>7. CASE UNCHANGED Memory!vars
  BY <1>7 DEF Memory!vars, FInv, RestRight, ReadRight, EraseRight, DescRight, WriteRight, BytesRight, Over, Under,
              Memory!ErasedPage, Memory!PageOf
<1> QED
  BY <1>1, <1>2, <1>3, <1>4, <1>5, <1>6, <1>7 DEF Memory!Next

(* What a call that returns has left.                                            *)
LEMMA Returned ==
  ASSUME FInv, Memory!Return \/ Memory!ReadByte, fPc' = "ready"
  PROVE  Memory!ReturnStep
<1>1. CASE Memory!Return
  <2>1. /\ fPc \in {"write", "page", "erase"} /\ FCTL = ""
    BY <1>1 DEF Memory!Return, Memory!Idle
  <2>2. ~DMAARM
    BY <2>1 DEF FInv, EraseRight, WriteRight
  <2>3. CASE fPc = "erase"
    <3>1. flash = Memory!ErasedPage(args.pg)
      BY <2>1, <2>3 DEF FInv, EraseRight
    <3> QED
      BY <2>1, <2>2, <2>3, <3>1 DEF Memory!ReturnStep
  <2>4. CASE fPc \in {"write", "page"}
    <3>1. /\ args.data \in Seq(SUBSET Ones) /\ Len(args.data) \in Nat /\ args.moved \in 0 .. Len(args.data)
          /\ desc \in Seq(SUBSET Ones) /\ Len(desc) = Len(args.data) - args.moved
      BY <2>4 DEF FInv, DescRight
    <3>2. DMAARM <=> Len(desc) > 0
      BY <2>4 DEF FInv, WriteRight
    <3>3. args.moved = Len(args.data)
      <4>1. ~(Len(desc) > 0)
        BY <2>2, <3>2
      <4>2. Len(desc) \in Nat
        BY <3>1
      <4> QED
        BY <3>1, <4>1, <4>2
    <3>4. \A b \in Memory!Bytes : flash[b] = Over(b, Len(args.data))
      BY <2>4, <3>3 DEF FInv, BytesRight
    <3>5. flash = [b \in Memory!Bytes |-> flash[b]]
      BY DEF FInv
    <3>6. CASE fPc = "write"
      <4>1. \A b \in Memory!Bytes : Under(b) = before[b]
        BY <3>6 DEF Under
      <4>2. \A b \in Memory!Bytes :
              flash[b] = IF b - args.at \in 0 .. Len(args.data) - 1
                         THEN before[b] \intersect args.data[b - args.at + 1] ELSE before[b]
        BY <3>4, <4>1 DEF Over
      <4>3. flash = Memory!WrittenOver(args.at, before)
        BY <3>5, <4>2 DEF Memory!WrittenOver
      <4>4. args.at = args.asked
        BY <3>6 DEF FInv, DescRight
      <4> QED
        BY <2>1, <2>2, <3>6, <4>3, <4>4 DEF Memory!ReturnStep
    <3>7. CASE fPc = "page"
      <4> DEFINE old == Memory!ErasedPage(args.at \div Memory!PageSize)
      <4>1. \A b \in Memory!Bytes : Under(b) = old[b]
        BY <3>7 DEF Under, Memory!ErasedPage
      <4> HIDE DEF old
      <4>2. \A b \in Memory!Bytes :
              flash[b] = IF b - args.at \in 0 .. Len(args.data) - 1
                         THEN old[b] \intersect args.data[b - args.at + 1] ELSE old[b]
        BY <3>4, <4>1 DEF Over
      <4>3. flash = Memory!WrittenOver(args.at, old)
        BY <3>5, <4>2 DEF Memory!WrittenOver
      <4>4. flash = Memory!WrittenOver(args.at, Memory!ErasedPage(args.at \div Memory!PageSize))
        BY <4>3 DEF old
      <4>5. args.at = args.asked % (NamedPages * Memory!PageSize)
        BY <3>7 DEF FInv, DescRight
      <4> QED
        BY <2>1, <2>2, <3>7, <4>4, <4>5 DEF Memory!ReturnStep
    <3> QED
      BY <2>4, <3>6, <3>7
  <2> QED
    BY <2>1, <2>3, <2>4
<1>2. CASE Memory!ReadByte
  <2>1. fPc = "read" /\ ~(Len(fBuf) < args.cnt) /\ MEMCTR' = args.saved
    BY <1>2 DEF Memory!ReadByte
  <2>2. /\ flash = before /\ FCTL = "" /\ ~DMAARM /\ args.cnt \in Nat
        /\ fBuf \in Seq(SUBSET Ones) /\ Len(fBuf) <= args.cnt
        /\ \A b \in 1 .. Len(fBuf) : fBuf[b] = before[args.pg * Memory!PageSize + args.offset + b - 1]
    BY <2>1 DEF FInv, RestRight, ReadRight
  <2>3. Len(fBuf) = args.cnt
    <3>1. fBuf \in Seq(SUBSET Ones) /\ args.cnt \in Nat /\ Len(fBuf) <= args.cnt
      BY <2>2, Zenon
    <3>2. Len(fBuf) \in Nat
      BY <3>1
    <3> QED
      BY <2>1, <3>1, <3>2
  <2>4. fBuf = [b \in 1 .. args.cnt |-> fBuf[b]]
    <3>1. fBuf \in Seq(SUBSET Ones)
      BY <2>2
    <3>2. fBuf \in [1 .. Len(fBuf) -> SUBSET Ones]
      BY <3>1
    <3> QED
      BY <2>3, <3>2
  <2>5. fBuf = [b \in 1 .. args.cnt |-> before[args.pg * Memory!PageSize + args.offset + b - 1]]
    BY <2>2, <2>3, <2>4
  <2> QED
    BY <2>1, <2>2, <2>5 DEF Memory!ReturnStep
<1> QED
  BY <1>1, <1>2

(* A call that returns leaves in the flash what it says, in the bytes it names   *)
(* and in no others, and a read has the bytes of its page, for any flash that    *)
(* the registers of the chip can name, pages of any size, any data and any calls *)
(* before; HalFlashWritePage names what sixteen bits leave of the address:       *)
(* hal_flash.c.                                                                  *)
THEOREM FlashKeepsItsBytes == MCSpec => FlashIsAsCalled
<1> DEFINE Right == which = "flash" => FInv
<1>1. MCInit => Right
  BY FInit DEF MCInit
<1>2. [MCNext]_<<which, drivers>> =>
        which' = which /\ (which = "flash" => [Memory!Next]_(Memory!vars))
  <2>1. UNCHANGED flashVars <=> UNCHANGED Memory!vars
    BY DEF flashVars, Memory!vars
  <2>2. UNCHANGED drivers => UNCHANGED flashVars
    BY DEF drivers
  <2> QED
    BY <2>1, <2>2 DEF MCNext
<1>3. Right /\ [MCNext]_<<which, drivers>> => Right'
  BY <1>2, FStep
<1>4. FInv /\ [Memory!Next]_(Memory!vars) => Memory!ReturnStep
  <2> SUFFICES ASSUME FInv, [Memory!Next]_(Memory!vars), fPc # "ready", fPc' = "ready"
               PROVE  Memory!ReturnStep
    BY DEF Memory!ReturnStep
  <2>1. Memory!Return \/ Memory!ReadByte
    BY DEF Memory!Next, Memory!vars, Memory!HalFlashRead, Memory!HalFlashWrite,
           Memory!HalFlashWritePage, Memory!HalFlashErase, Memory!Ready, Memory!ArmAndWrite,
           Memory!AwaitDma, Memory!Controller
  <2> QED
    BY <2>1, Returned
<1>5. Right /\ [MCNext]_<<which, drivers>> => [which = "flash" => Memory!ReturnStep]_flashVars
  BY <1>2, <1>4
<1> HIDE DEF Right
<1> QED
  BY <1>1, <1>3, <1>5, PTL DEF MCSpec, FlashIsAsCalled

------------------------------------------------------------------------------
(* The two-line display, at the end of two wires the driver toggles by hand.     *)

Messages == Seq(0 .. 255) \ {<<>>}

(* The places in the driver at which a bit is sent, the ninth clock is given and  *)
(* the transfer ends.                                                            *)
Shifting == {"bit", "data", "clockHigh"}
Ninth == {"ackLow", "ackData", "ackClock", "ackRead"}
Ending == {"stopData", "stopClock"}

LTypeOK ==
  /\ lPc \in {"rest", "start", "clockLow", "stop"} \cup Shifting \cup Ninth \cup Ending
  /\ todo \in Seq(Messages)
  /\ lI \in Nat /\ lK \in 0 .. 7
  /\ low \in BOOLEAN /\ clk \in BOOLEAN /\ ack \in BOOLEAN
  /\ bits \in Seq({0, 1}) /\ got \in Seq(0 .. 255)

(* Bit j of a byte, the first that is sent the highest.                          *)
Bit(b, j) == (b \div 2 ^ (8 - j)) % 2

(* The display has taken the first n bytes, and shifted in the first n bits of   *)
(* byte m.                                                                       *)
Acked(n) == Len(got) = n /\ \A j \in 1 .. n : got[j] = Head(todo)[j]
Shifted(n, m) == \A j \in 1 .. n : bits[j] = Bit(Head(todo)[m], j)

Counters ==
  /\ lPc # "rest" => todo # <<>>
  /\ lPc \notin Shifting => lK = 7
  /\ lPc \notin Shifting \cup Ninth => lI = 1
  /\ lPc \in Shifting \cup Ninth => lI <= Len(Head(todo)) /\ lI > 0

Fresh == ~clk /\ ~ack /\ Len(bits) = 0 /\ Acked(lI - 1)
(* The ninth clock is over when the next byte begins, or the same again.         *)
Answered == /\ clk /\ ~low /\ Len(bits) = 9
            /\ ack => lI > 1 /\ Shifted(8, lI - 1) /\ Acked(lI - 2)
            /\ ~ack => Acked(lI - 1)
Partly == Len(bits) = 7 - lK /\ Shifted(7 - lK, lI) /\ Acked(lI - 1)
Wholly == Shifted(8, lI) /\ Acked(lI - 1)

Stages ==
  /\ lPc = "clockLow" => clk /\ ~ack /\ Len(bits) = 0 /\ Len(got) = 0
  /\ lPc = "bit" /\ lK = 7 => Fresh \/ Answered
  /\ lPc = "bit" /\ lK # 7 => clk /\ ~ack /\ Partly
  /\ lPc \in {"data", "clockHigh"} => ~clk /\ ~ack /\ Partly
  /\ lPc = "clockHigh" => low = (Bit(Head(todo)[lI], 8 - lK) = 0)
  /\ lPc = "ackLow" => clk /\ ~ack /\ Len(bits) = 8 /\ Wholly
  /\ lPc \in {"ackData", "ackClock"} => ~clk /\ Len(bits) = 8 /\ Wholly
  /\ lPc \in {"ackClock", "ackRead", "stop"} => ~low
  /\ lPc = "ackRead" => clk /\ Len(bits) = 9 /\ Wholly
  /\ lPc = "stop" => /\ clk /\ ack /\ Len(bits) = 9
                     /\ Shifted(8, Len(Head(todo))) /\ Acked(Len(Head(todo)) - 1)
  /\ lPc \in Ending => ~clk /\ Acked(Len(Head(todo)))

LInv == LTypeOK /\ Counters /\ Stages

LEMMA Powers ==
  /\ 2 ^ 0 = 1 /\ 2 ^ 1 = 2 /\ 2 ^ 2 = 4 /\ 2 ^ 3 = 8
  /\ 2 ^ 4 = 16 /\ 2 ^ 5 = 32 /\ 2 ^ 6 = 64 /\ 2 ^ 7 = 128
BY SMT

LEMMA BitType == ASSUME NEW b \in 0 .. 255, NEW j \in 1 .. 8 PROVE Bit(b, j) \in {0, 1}
<1>1. CASE j = 1 BY <1>1, Powers DEF Bit
<1>2. CASE j = 2 BY <1>2, Powers DEF Bit
<1>3. CASE j = 3 BY <1>3, Powers DEF Bit
<1>4. CASE j = 4 BY <1>4, Powers DEF Bit
<1>5. CASE j = 5 BY <1>5, Powers DEF Bit
<1>6. CASE j = 6 BY <1>6, Powers DEF Bit
<1>7. CASE j = 7 BY <1>7, Powers DEF Bit
<1>8. CASE j = 8 BY <1>8, Powers DEF Bit
<1> QED
  BY <1>1, <1>2, <1>3, <1>4, <1>5, <1>6, <1>7, <1>8

(* Eight bits of a byte, the highest first, are the byte.                        *)
LEMMA Weights ==
  \A b \in 0 .. 255 :
    128 * ((b \div 128) % 2) + 64 * ((b \div 64) % 2) + 32 * ((b \div 32) % 2)
    + 16 * ((b \div 16) % 2) + 8 * ((b \div 8) % 2) + 4 * ((b \div 4) % 2)
    + 2 * ((b \div 2) % 2) + (b % 2) = b
BY SMTT(60)

LEMMA BitsAreByte ==
  ASSUME NEW b \in 0 .. 255, NEW s, \A j \in 1 .. 8 : s[j] = Bit(b, j)
  PROVE  Two!Byte(s) = b
<1>1. /\ s[1] = (b \div 128) % 2 /\ s[2] = (b \div 64) % 2 /\ s[3] = (b \div 32) % 2
      /\ s[4] = (b \div 16) % 2 /\ s[5] = (b \div 8) % 2 /\ s[6] = (b \div 4) % 2
      /\ s[7] = (b \div 2) % 2 /\ s[8] = (b \div 1) % 2
  BY Powers DEF Bit
<1>2. (b \div 1) % 2 = b % 2
  OBVIOUS
<1> QED
  BY <1>1, <1>2, Weights DEF Two!Byte

(* Whatever is written, transfers are of bytes, one at least.                    *)
LEMMA Sent == ASSUME NEW reg \in {0, 64}, NEW s \in Seq(0 .. 255)
              PROVE  Two!Transfer(reg, s) \in Messages
<1>1. <<118, reg>> \in Seq(0 .. 255) /\ Len(<<118, reg>>) = 2
  OBVIOUS
<1>2. /\ <<118, reg>> \o s \in Seq(0 .. 255)
      /\ Len(<<118, reg>> \o s) = 2 + Len(s)
  BY <1>1
<1>3. <<118, reg>> \o s # <<>>
  BY <1>2
<1> QED
  BY <1>2, <1>3 DEF Two!Transfer, Two!LCD_ADDR, Messages

LEMMA Converted == \A c \in 0 .. 255 : Two!lcdConvertChar(c) \in 0 .. 255
BY DEF Two!lcdConvertChar

LEMMA CharSent ==
  ASSUME NEW line \in {1, 2}, NEW col \in 0 .. 255, NEW c \in 0 .. 255
  PROVE  Two!halLcdWriteChar(line, col, c) \in Seq(Messages)
<1> DEFINE place == IF col > 16 THEN 15 ELSE col
<1>1. Two!LineAddr(line) + place \in 0 .. 255
  BY DEF Two!LineAddr
<1>2. <<Two!LineAddr(line) + place>> \in Seq(0 .. 255)
  BY <1>1
<1>3. <<Two!lcdConvertChar(c)>> \in Seq(0 .. 255)
  <2>1. Two!lcdConvertChar(c) \in 0 .. 255
    BY Converted
  <2> QED
    BY <2>1
<1>4. Two!Transfer(0, <<Two!LineAddr(line) + place>>) \in Messages
  BY <1>2, Sent
<1>5. Two!Transfer(64, <<Two!lcdConvertChar(c)>>) \in Messages
  BY <1>3, Sent
<1> QED
  BY <1>4, <1>5 DEF Two!halLcdWriteChar, Two!REG_SEL_0, Two!REG_SEL_1, Two!LCD_LINE_LENGTH

LEMMA Row ==
  ASSUME NEW S, NEW n \in Nat, NEW s \in [1 .. n -> S] PROVE s \in Seq(S)
BY SeqDef

LEMMA LineSent ==
  ASSUME NEW line \in {1, 2}, NEW s \in LineTexts \cup {NoText}
  PROVE  Two!halLcdWriteLine(line, s) \in Seq(Messages)
<1>1. CASE s = NoText
  BY <1>1 DEF Two!halLcdWriteLine
<1>2. CASE s # NoText
  <2> DEFINE row == [n \in 1 .. 16 |-> Two!lcdConvertChar(IF n <= Len(s) THEN s[n] ELSE 32)]
  <2>1. s \in Seq(0 .. 255)
    BY <1>2, LineAssumption
  <2>2. ASSUME NEW n \in 1 .. 16 PROVE (IF n <= Len(s) THEN s[n] ELSE 32) \in 0 .. 255
    <3>1. CASE n <= Len(s)
      <4>1. n \in 1 .. Len(s)
        BY <2>1, <3>1
      <4> QED
        BY <2>1, <3>1, <4>1, ElementOfSeq
    <3>2. CASE ~(n <= Len(s))
      BY <3>2
    <3> QED
      BY <3>1, <3>2
  <2>3. ASSUME NEW n \in 1 .. 16
        PROVE  Two!lcdConvertChar(IF n <= Len(s) THEN s[n] ELSE 32) \in 0 .. 255
    BY <2>2, Converted
  <2>4. row \in [1 .. 16 -> 0 .. 255]
    BY <2>3
  <2>5. row \in Seq(0 .. 255)
    <3> HIDE DEF row
    <3> QED
      BY <2>4, Row, 16 \in Nat
  <2>6. <<Two!LineAddr(line)>> \in Seq(0 .. 255)
    BY DEF Two!LineAddr
  <2>7. Two!Transfer(0, <<Two!LineAddr(line)>>) \in Messages
    BY <2>6, Sent
  <2>8. Two!Transfer(64, row) \in Messages
    <3> HIDE DEF row
    <3> QED
      BY <2>5, Sent
  <2>9. Two!halLcdWriteLine(line, s) = <<Two!Transfer(0, <<Two!LineAddr(line)>>), Two!Transfer(64, row)>>
    BY <1>2 DEF Two!halLcdWriteLine, Two!REG_SEL_0, Two!REG_SEL_1, Two!LCD_LINE_LENGTH
  <2> QED
    <3> HIDE DEF row
    <3> QED
      BY <2>7, <2>8, <2>9
<1> QED
  BY <1>1, <1>2

LEMMA LinesSent ==
  ASSUME NEW s \in LineTexts \cup {NoText}, NEW t \in LineTexts \cup {NoText}
  PROVE  Two!halLcdWriteLines(s, t) \in Seq(Messages)
<1>1. Two!halLcdWriteLine(1, s) \in Seq(Messages) /\ Two!halLcdWriteLine(2, t) \in Seq(Messages)
  BY LineSent
<1> QED
  BY <1>1 DEF Two!halLcdWriteLines

LEMMA ShapeSent ==
  ASSUME NEW n \in {0, 7}, NEW s \in LineShapes
  PROVE  Two!halLcdCreateSpecChar(n, s) \in Seq(Messages)
<1> DEFINE address == 8 + n * 8
<1>1. address = 8 \/ address = 64
  OBVIOUS
<1>2. <<IF address < 64 THEN 128 ELSE 192, 64 + (address % 64)>> \in Seq(0 .. 255)
  <2>1. (IF address < 64 THEN 128 ELSE 192) \in 0 .. 255
    BY <1>1
  <2>2. 64 + (address % 64) \in 0 .. 255
    BY <1>1
  <2> HIDE DEF address
  <2> QED
    BY <2>1, <2>2
<1>3. Two!Transfer(0, <<IF address < 64 THEN 128 ELSE 192, 64 + (address % 64)>>) \in Messages
  BY <1>2, Sent
<1>4. Two!Transfer(64, s) \in Messages
  BY LineAssumption, Sent
<1> QED
  BY <1>3, <1>4 DEF Two!halLcdCreateSpecChar, Two!REG_SEL_0, Two!REG_SEL_1

LEMMA CallsAreBytes == \A c \in Two!Calls : c \in Seq(Messages)
<1>1. Two!halLcdClear \in Seq(Messages)
  BY LinesSent DEF Two!halLcdClear
<1>2. Two!halLcdInit \in Seq(Messages)
  <2>1. <<12, 33, 160, 7, 52, 1>> \in Seq(0 .. 255)
    OBVIOUS
  <2>2. Two!Transfer(0, <<12, 33, 160, 7, 52, 1>>) \in Messages
    BY <2>1, Sent
  <2>3. <<Two!Transfer(0, <<12, 33, 160, 7, 52, 1>>)>> \in Seq(Messages)
    BY <2>2
  <2> QED
    BY <1>1, <2>3 DEF Two!halLcdInit, Two!REG_SEL_0
<1>3. \A n \in {1, 2} : Two!halLcdWriteSpecChar(n, 0, 7) \in Seq(Messages)
  <2>1. 0 \in 0 .. 255 /\ 7 \in 0 .. 255
    OBVIOUS
  <2> QED
    BY <2>1, CharSent DEF Two!halLcdWriteSpecChar
<1>4. \A n \in {1, 2}, col \in LineColumns, c \in LineChars :
        Two!halLcdWriteChar(n, col, c) \in Seq(Messages)
  BY CharSent, LineAssumption
<1>5. \A p, q \in LineTexts \cup {NoText} : Two!halLcdWriteLines(p, q) \in Seq(Messages)
  BY LinesSent
<1>6. \A n \in {0, 7}, s \in LineShapes : Two!halLcdCreateSpecChar(n, s) \in Seq(Messages)
  BY ShapeSent
<1> DEFINE Lines == {Two!halLcdWriteLines(s, t) :
                       s \in LineTexts \cup {NoText}, t \in LineTexts \cup {NoText}}
           Places == {Two!halLcdWriteChar(n, col, c) :
                        n \in {1, 2}, col \in LineColumns, c \in LineChars}
           Specials == {Two!halLcdWriteSpecChar(n, 0, 7) : n \in {1, 2}}
           Drawn == {Two!halLcdCreateSpecChar(n, s) : n \in {0, 7}, s \in LineShapes}
<1>7. Lines \subseteq Seq(Messages)
  <2> SUFFICES ASSUME NEW x \in Lines PROVE x \in Seq(Messages)
    OBVIOUS
  <2>1. PICK s \in LineTexts \cup {NoText}, t \in LineTexts \cup {NoText} :
          x = Two!halLcdWriteLines(s, t)
    OBVIOUS
  <2> QED
    BY <1>5, <2>1
<1>8. Places \subseteq Seq(Messages)
  BY <1>4
<1>9. Specials \subseteq Seq(Messages)
  BY <1>3
<1>10. Drawn \subseteq Seq(Messages)
  BY <1>6
<1>11. Two!Calls = {Two!halLcdInit, Two!halLcdClear} \cup Lines \cup Places \cup Specials \cup Drawn
  BY DEF Two!Calls
<1> HIDE DEF Lines, Places, Specials, Drawn
<1> QED
  BY <1>1, <1>2, <1>7, <1>8, <1>9, <1>10, <1>11

(* The clock falls: after eight bits the display may answer, and after nine it   *)
(* takes what it answered for.                                                   *)
LEMMA Falls ==
  ASSUME LTypeOK, clk = TRUE, NEW l \in BOOLEAN, Two!Wires(l, FALSE)
  PROVE  /\ low' = l /\ clk' = FALSE
         /\ Len(bits) < 8 => ack' = ack /\ bits' = bits /\ got' = got
         /\ Len(bits) = 8 => ack' \in BOOLEAN /\ bits' = bits /\ got' = got
         /\ Len(bits) = 9 => /\ ack' = FALSE /\ bits' = <<>>
                             /\ got' = IF ack THEN Append(got, Two!Byte(bits)) ELSE got
<1>1. Len(bits) \in Nat
  BY DEF LTypeOK
<1>2. CASE Len(bits) = 8
  BY <1>2 DEF Two!Wires, Two!display
<1>3. CASE Len(bits) = 9
  BY <1>3 DEF Two!Wires, Two!display
<1>4. CASE Len(bits) < 8
  <2>1. \A n \in Nat : n < 8 => n # 8 /\ n # 9
    OBVIOUS
  <2>2. Len(bits) # 8 /\ Len(bits) # 9
    BY <1>1, <1>4, <2>1, Zenon
  <2> QED
    BY <2>2, Zenon DEF Two!Wires, Two!display
<1>5. low' = l /\ clk' = FALSE
  BY DEF Two!Wires
<1> QED
  BY <1>1, <1>2, <1>3, <1>4, <1>5

LEMMA StaysLow ==
  ASSUME clk = FALSE, NEW l, Two!Wires(l, FALSE)
  PROVE  low' = l /\ clk' = FALSE /\ ack' = ack /\ bits' = bits /\ got' = got
BY DEF Two!Wires, Two!display

LEMMA Rises ==
  ASSUME clk = FALSE, NEW l \in BOOLEAN, Two!Wires(l, TRUE)
  PROVE  /\ low' = l /\ clk' = TRUE /\ ack' = ack /\ got' = got
         /\ bits' = Append(bits, IF ~l /\ ~ack THEN 1 ELSE 0)
BY DEF Two!Wires, Two!display

LEMMA HeadType ==
  ASSUME LTypeOK, todo # <<>>
  PROVE  /\ Head(todo) \in Seq(0 .. 255) /\ Len(Head(todo)) \in Nat \ {0}
         /\ \A n \in 1 .. Len(Head(todo)) : Head(todo)[n] \in 0 .. 255
<1>1. Head(todo) \in Messages
  BY DEF LTypeOK
<1>2. Head(todo) \in Seq(0 .. 255) /\ Head(todo) # <<>>
  BY <1>1 DEF Messages
<1> QED
  BY <1>2, EmptySeq, LenProperties, ElementOfSeq

(* A byte the display takes is the one whose bits it has.                        *)
LEMMA Grown ==
  ASSUME LTypeOK, todo # <<>>, NEW m \in 1 .. Len(Head(todo)), Shifted(8, m), Acked(m - 1),
         got' = Append(got, Two!Byte(bits)), todo' = todo
  PROVE  Acked(m)' /\ got' \in Seq(0 .. 255)
<1>1. Head(todo)[m] \in 0 .. 255 /\ Len(Head(todo)) \in Nat
  BY HeadType
<1>2. Two!Byte(bits) = Head(todo)[m]
  BY <1>1, BitsAreByte DEF Shifted
<1>3. got \in Seq(0 .. 255) /\ Len(got) = m - 1
  BY DEF LTypeOK, Acked
<1>4. /\ got' \in Seq(0 .. 255) /\ Len(got') = m /\ got'[m] = Head(todo)[m]
      /\ \A j \in 1 .. m - 1 : got'[j] = got[j]
  BY <1>1, <1>2, <1>3
<1>5. \A j \in 1 .. m : j = m \/ j \in 1 .. m - 1
  BY <1>1
<1> QED
  BY <1>4, <1>5 DEF Acked

LEMMA StartKeeps == LInv /\ Two!SmbStart => LInv'
<1> SUFFICES ASSUME LInv, Two!SmbStart PROVE LInv'
  OBVIOUS
<1>1. CASE lPc = "start"
  <2>1. /\ lPc' = "clockLow" /\ clk = TRUE /\ ~low /\ ~ack
        /\ Two!Wires(TRUE, TRUE) /\ UNCHANGED <<todo, lI, lK>>
    BY <1>1 DEF Two!SmbStart, Two!At
  <2>2. low' = TRUE /\ clk' = TRUE /\ ack' = FALSE /\ bits' = <<>> /\ got' = <<>>
    BY <2>1 DEF Two!Wires
  <2>3. LTypeOK'
    BY <2>1, <2>2, EmptySeq DEF LInv, LTypeOK, Shifting
  <2>4. Counters'
    BY <1>1, <2>1 DEF LInv, Counters, Shifting, Ninth
  <2>5. Stages'
    BY <2>1, <2>2 DEF Stages, Ending
  <2> QED
    BY <2>3, <2>4, <2>5 DEF LInv
<1>2. CASE lPc = "clockLow"
  <2>1. lPc' = "bit" /\ Two!Wires(low, FALSE) /\ UNCHANGED <<todo, lI, lK>>
    BY <1>2 DEF Two!SmbStart, Two!At
  <2>2. clk = TRUE /\ ~ack /\ Len(bits) = 0 /\ Len(got) = 0
    BY <1>2 DEF LInv, LTypeOK, Stages
  <2>3. low' = low /\ clk' = FALSE /\ ack' = ack /\ bits' = bits /\ got' = got
    <3>1. LTypeOK /\ low \in BOOLEAN /\ Len(bits) < 8
      BY <2>2 DEF LInv, LTypeOK
    <3> QED
      BY <2>1, <2>2, <3>1, Falls
  <2>4. LTypeOK'
    BY <2>1, <2>3 DEF LInv, LTypeOK, Shifting
  <2>5. lI = 1 /\ lK = 7 /\ todo # <<>>
    BY <1>2 DEF LInv, Counters, Shifting, Ninth
  <2>6. Counters'
    BY <2>1, <2>4, <2>5, HeadType DEF LInv, Counters, Shifting, Ninth
  <2>7. Fresh'
    BY <2>1, <2>2, <2>3, <2>5 DEF Fresh, Acked
  <2>8. Stages'
    BY <2>1, <2>5, <2>7 DEF Stages, Ending
  <2> QED
    BY <2>4, <2>6, <2>8 DEF LInv
<1> QED
  BY <1>1, <1>2 DEF Two!SmbStart, Two!At

(* The clock falls before a bit; with the first of a byte, the display takes the *)
(* byte before.                                                                  *)
LEMMA BitKeeps ==
  ASSUME LInv, Two!At("bit", "data"), Two!Wires(low, FALSE), UNCHANGED <<todo, lI, lK>>
  PROVE  LInv'
<1>1. lPc = "bit" /\ lPc' = "data"
  BY DEF Two!At
<1>2. /\ todo # <<>> /\ lI \in 1 .. Len(Head(todo)) /\ lK \in 0 .. 7
      /\ Len(Head(todo)) \in Nat /\ low \in BOOLEAN /\ got \in Seq(0 .. 255)
  BY <1>1, HeadType DEF LInv, LTypeOK, Counters, Shifting, Ninth
<1>3. /\ low' = low /\ clk' = FALSE /\ ack' = FALSE /\ bits' \in Seq({0, 1})
      /\ got' \in Seq(0 .. 255) /\ Partly'
  <2>1. CASE lK # 7
    <3>1. clk = TRUE /\ ~ack /\ Partly /\ Len(bits) < 8
      BY <1>1, <1>2, <2>1 DEF LInv, LTypeOK, Stages, Partly
    <3>2. low' = low /\ clk' = FALSE /\ ack' = ack /\ bits' = bits /\ got' = got
      BY <1>2, <3>1, Falls DEF LInv
    <3> QED
      BY <3>1, <3>2 DEF LInv, LTypeOK, Partly, Shifted, Acked
  <2>2. CASE lK = 7 /\ Fresh
    <3>1. clk = FALSE
      BY <2>2 DEF Fresh, LInv, LTypeOK
    <3>2. low' = low /\ clk' = FALSE /\ ack' = ack /\ bits' = bits /\ got' = got
      BY <3>1, StaysLow
    <3> QED
      BY <2>2, <3>2 DEF LInv, LTypeOK, Fresh, Partly, Shifted, Acked
  <2>3. CASE lK = 7 /\ Answered
    <3>1. clk = TRUE /\ Len(bits) = 9
      BY <2>3 DEF Answered, LInv, LTypeOK
    <3>2. /\ low' = low /\ clk' = FALSE /\ ack' = FALSE /\ bits' = <<>>
          /\ got' = IF ack THEN Append(got, Two!Byte(bits)) ELSE got
      BY <1>2, <3>1, Falls DEF LInv
    <3>3. Acked(lI - 1)' /\ got' \in Seq(0 .. 255)
      <4>1. CASE ack
        <5>1. lI - 1 \in 1 .. Len(Head(todo)) /\ Shifted(8, lI - 1) /\ Acked((lI - 1) - 1)
          BY <1>2, <2>3, <4>1 DEF Answered, Acked
        <5>2. PICK m \in 1 .. Len(Head(todo)) : m = lI - 1
          BY <5>1
        <5>3. Acked(m)' /\ got' \in Seq(0 .. 255)
          BY <1>2, <3>2, <4>1, <5>1, <5>2, Grown DEF LInv
        <5> QED
          BY <5>2, <5>3 DEF Acked
      <4>2. CASE ~ack
        BY <1>2, <2>3, <3>2, <4>2 DEF Answered, Acked
      <4> QED
        BY <4>1, <4>2
    <3> QED
      BY <2>3, <3>2, <3>3 DEF Partly, Shifted, Acked
  <2> QED
    BY <1>1, <2>1, <2>2, <2>3 DEF LInv, Stages
<1>4. LTypeOK'
  BY <1>1, <1>2, <1>3 DEF LInv, LTypeOK, Shifting
<1>5. Counters'
  BY <1>1, <1>2 DEF Counters, Shifting, Ninth
<1>6. Stages'
  BY <1>1, <1>3 DEF Stages, Ending
<1> QED
  BY <1>4, <1>5, <1>6 DEF LInv

(* The data is the next bit, and the clock shifts it in.                         *)
LEMMA DataKeeps ==
  ASSUME LInv, Two!At("data", "clockHigh"), UNCHANGED <<todo, lI, lK>>,
         Two!Wires((Head(todo)[lI] \div 2 ^ lK) % 2 = 0, clk)
  PROVE  LInv'
<1>1. lPc = "data" /\ lPc' = "clockHigh"
  BY DEF Two!At
<1>2. clk = FALSE /\ ~ack /\ Partly /\ lK \in 0 .. 7
  BY <1>1 DEF LInv, LTypeOK, Stages
<1>3. /\ low' = ((Head(todo)[lI] \div 2 ^ lK) % 2 = 0)
      /\ clk' = FALSE /\ ack' = ack /\ bits' = bits /\ got' = got
  BY <1>2, StaysLow
<1>4. 8 - (8 - lK) = lK
  BY <1>2
<1>5. LTypeOK'
  BY <1>1, <1>3 DEF LInv, LTypeOK, Shifting
<1>6. Counters'
  BY <1>1 DEF LInv, Counters, Shifting, Ninth
<1>7. Partly'
  BY <1>2, <1>3 DEF Partly, Shifted, Acked
<1>8. low' = (Bit(Head(todo)[lI], 8 - lK) = 0)
  BY <1>3, <1>4 DEF Bit
<1>9. Stages'
  BY <1>1, <1>2, <1>3, <1>7, <1>8 DEF Stages, Ending
<1> QED
  BY <1>5, <1>6, <1>9 DEF LInv

LEMMA HighKeeps ==
  ASSUME LInv, Two!At("clockHigh", IF lK = 0 THEN "ackLow" ELSE "bit"), Two!Wires(low, TRUE),
         lK' = IF lK = 0 THEN 7 ELSE lK - 1, UNCHANGED <<todo, lI>>
  PROVE  LInv'
<1>1. lPc = "clockHigh" /\ lPc' = IF lK = 0 THEN "ackLow" ELSE "bit"
  BY DEF Two!At
<1>2. /\ clk = FALSE /\ ~ack /\ Partly /\ lK \in 0 .. 7 /\ low \in BOOLEAN
      /\ low = (Bit(Head(todo)[lI], 8 - lK) = 0) /\ bits \in Seq({0, 1}) /\ ack \in BOOLEAN
  BY <1>1 DEF LInv, LTypeOK, Stages
<1>3. /\ todo # <<>> /\ lI \in 1 .. Len(Head(todo)) /\ Head(todo)[lI] \in 0 .. 255
      /\ 8 - lK \in 1 .. 8
  <2>1. todo # <<>> /\ lI <= Len(Head(todo)) /\ lI > 0 /\ lI \in Nat /\ LTypeOK
    BY <1>1 DEF LInv, LTypeOK, Counters, Shifting
  <2>2. lI \in 1 .. Len(Head(todo))
    BY <2>1, HeadType
  <2>3. Head(todo)[lI] \in 0 .. 255
    BY <2>1, <2>2, HeadType
  <2>4. 8 - lK \in 1 .. 8
    BY <1>2
  <2> QED
    BY <2>1, <2>2, <2>3, <2>4
<1>4. /\ low' = low /\ clk' = TRUE /\ ack' = ack /\ got' = got
      /\ bits' = Append(bits, IF ~low /\ ~ack THEN 1 ELSE 0)
  BY <1>2, Rises
<1>5. bits' = Append(bits, Bit(Head(todo)[lI], 8 - lK))
  <2>1. Bit(Head(todo)[lI], 8 - lK) \in {0, 1}
    BY <1>3, BitType
  <2> QED
    BY <1>2, <1>4, <2>1
<1>6. Len(bits) = 7 - lK /\ Shifted(7 - lK, lI) /\ Acked(lI - 1)
  BY <1>2 DEF Partly
<1>7. /\ Len(bits') = 8 - lK /\ bits'[8 - lK] = Bit(Head(todo)[lI], 8 - lK)
      /\ \A j \in 1 .. 7 - lK : bits'[j] = bits[j]
      /\ bits' \in Seq({0, 1})
  <2>1. Bit(Head(todo)[lI], 8 - lK) \in {0, 1}
    BY <1>3, BitType
  <2>2. Len(bits) \in Nat /\ Len(bits) + 1 = 8 - lK
    BY <1>2, <1>6
  <2> QED
    BY <1>2, <1>5, <1>6, <2>1, <2>2, AppendProperties
<1>8. \A j \in 1 .. 8 - lK : bits'[j] = Bit(Head(todo)[lI], j)
  <2>1. \A j \in 1 .. 8 - lK : j = 8 - lK \/ j \in 1 .. 7 - lK
    BY <1>2
  <2> QED
    BY <1>6, <1>7, <2>1 DEF Shifted
<1>9. Acked(lI - 1)'
  BY <1>4, <1>6 DEF Acked
<1>10. LTypeOK'
  BY <1>1, <1>2, <1>4, <1>7 DEF LInv, LTypeOK, Shifting, Ninth
<1>11. Counters'
  BY <1>1, <1>2 DEF LInv, Counters, Shifting, Ninth
<1>12. CASE lK = 0
  <2>1. Wholly' /\ Len(bits') = 8
    BY <1>7, <1>8, <1>9, <1>12 DEF Wholly, Shifted
  <2>2. Stages'
    BY <1>1, <1>2, <1>4, <1>12, <2>1 DEF Stages, Ending
  <2> QED
    BY <1>10, <1>11, <2>2 DEF LInv
<1>13. CASE lK # 0
  <2>1. lK' = lK - 1 /\ 7 - lK' = 8 - lK /\ lK' # 7
    BY <1>2, <1>13
  <2>2. Partly'
    BY <1>7, <1>8, <1>9, <2>1 DEF Partly, Shifted
  <2>3. Stages'
    BY <1>1, <1>2, <1>4, <1>13, <2>1, <2>2 DEF Stages, Ending
  <2> QED
    BY <1>10, <1>11, <2>3 DEF LInv
<1> QED
  BY <1>12, <1>13

LEMMA WriteBitKeeps == LInv /\ Two!SmbWrite => LInv'
BY BitKeeps, DataKeeps, HighKeeps DEF Two!SmbWrite

(* The ninth clock: the display holds the data or not, and a byte it did not     *)
(* take is sent again.                                                           *)
LEMMA NinthKeeps == LInv /\ Two!SmbSendByte => LInv'
<1> SUFFICES ASSUME LInv, Two!SmbSendByte PROVE LInv'
  OBVIOUS
<1>1. lPc \in Ninth
  BY DEF Two!SmbSendByte, Two!At, Ninth
<1>2. /\ todo # <<>> /\ lI \in 1 .. Len(Head(todo)) /\ lK = 7 /\ Len(Head(todo)) \in Nat
      /\ low \in BOOLEAN /\ ack \in BOOLEAN /\ LTypeOK /\ bits \in Seq({0, 1})
  BY <1>1, HeadType DEF LInv, LTypeOK, Counters, Shifting, Ninth
<1>3. UNCHANGED todo /\ UNCHANGED lK
  BY DEF Two!SmbSendByte
<1>4. CASE lPc = "ackLow"
  <2>1. lPc' = "ackData" /\ Two!Wires(low, FALSE) /\ lI' = lI
    BY <1>4 DEF Two!SmbSendByte, Two!At
  <2>2. clk = TRUE /\ Len(bits) = 8 /\ Wholly
    BY <1>4 DEF LInv, LTypeOK, Stages
  <2>3. low' = low /\ clk' = FALSE /\ ack' \in BOOLEAN /\ bits' = bits /\ got' = got
    BY <1>2, <2>1, <2>2, Falls
  <2>4. LTypeOK'
    BY <1>3, <2>1, <2>3 DEF LInv, LTypeOK, Ninth
  <2>5. Counters'
    BY <1>2, <1>3, <2>1 DEF Counters, Shifting, Ninth
  <2>6. Wholly'
    BY <1>3, <2>1, <2>2, <2>3 DEF Wholly, Shifted, Acked
  <2>7. Stages'
    BY <2>1, <2>2, <2>3, <2>6 DEF Stages, Ending
  <2> QED
    BY <2>4, <2>5, <2>7 DEF LInv
<1>5. CASE lPc = "ackData"
  <2>1. lPc' = "ackClock" /\ Two!Wires(FALSE, clk) /\ lI' = lI
    BY <1>5 DEF Two!SmbSendByte, Two!At
  <2>2. clk = FALSE /\ Len(bits) = 8 /\ Wholly
    BY <1>5 DEF LInv, LTypeOK, Stages
  <2>3. low' = FALSE /\ clk' = FALSE /\ ack' = ack /\ bits' = bits /\ got' = got
    BY <2>1, <2>2, StaysLow
  <2>4. LTypeOK'
    BY <1>2, <1>3, <2>1, <2>3 DEF LTypeOK, Ninth
  <2>5. Counters'
    BY <1>2, <1>3, <2>1 DEF Counters, Shifting, Ninth
  <2>6. Wholly'
    BY <1>3, <2>1, <2>2, <2>3 DEF Wholly, Shifted, Acked
  <2>7. Stages'
    BY <2>1, <2>2, <2>3, <2>6 DEF Stages, Ending
  <2> QED
    BY <2>4, <2>5, <2>7 DEF LInv
<1>6. CASE lPc = "ackClock"
  <2>1. lPc' = "ackRead" /\ Two!Wires(low, TRUE) /\ lI' = lI
    BY <1>6 DEF Two!SmbSendByte, Two!At
  <2>2. clk = FALSE /\ Len(bits) = 8 /\ Wholly /\ low = FALSE
    BY <1>6 DEF LInv, LTypeOK, Stages
  <2>3. /\ low' = FALSE /\ clk' = TRUE /\ ack' = ack /\ got' = got
        /\ bits' = Append(bits, IF ~low /\ ~ack THEN 1 ELSE 0)
    BY <1>2, <2>1, <2>2, Rises
  <2>4. bits' \in Seq({0, 1}) /\ Len(bits') = 9 /\ \A j \in 1 .. 8 : bits'[j] = bits[j]
    <3>1. PICK v \in {0, 1} : bits' = Append(bits, v)
      BY <2>3
    <3>2. /\ Append(bits, v) \in Seq({0, 1}) /\ Len(Append(bits, v)) = Len(bits) + 1
          /\ \A j \in 1 .. Len(bits) : Append(bits, v)[j] = bits[j]
      BY <1>2, AppendProperties
    <3> QED
      BY <2>2, <3>1, <3>2
  <2>5. LTypeOK'
    BY <1>2, <1>3, <2>1, <2>3, <2>4 DEF LTypeOK, Ninth
  <2>6. Counters'
    BY <1>2, <1>3, <2>1 DEF Counters, Shifting, Ninth
  <2>7. Wholly'
    BY <1>3, <2>1, <2>2, <2>3, <2>4 DEF Wholly, Shifted, Acked
  <2>8. Stages'
    BY <2>1, <2>3, <2>4, <2>7 DEF Stages, Ending
  <2> QED
    BY <2>5, <2>6, <2>8 DEF LInv
<1>7. CASE lPc = "ackRead"
  <2>1. clk /\ ~low /\ Len(bits) = 9 /\ Wholly
    BY <1>7 DEF LInv, Stages
  <2>2. low' = low /\ clk' = clk /\ ack' = ack /\ bits' = bits /\ got' = got
    BY <1>7 DEF Two!SmbSendByte, Two!At, Two!display
  <2>3. CASE ack /\ lI < Len(Head(todo))
    <3>1. lPc' = "bit" /\ lI' = lI + 1
      BY <1>7, <2>3 DEF Two!SmbSendByte, Two!At
    <3>2. LTypeOK'
      BY <1>2, <1>3, <2>2, <3>1 DEF LTypeOK, Shifting
    <3>3. Counters'
      BY <1>2, <1>3, <2>3, <3>1 DEF Counters, Shifting, Ninth
    <3>4. Answered'
      <4>1. lI' - 1 = lI /\ lI' - 2 = lI - 1 /\ lI' > 1
        BY <1>2, <3>1
      <4> QED
        BY <1>3, <2>1, <2>2, <2>3, <4>1 DEF Wholly, Answered, Shifted, Acked
    <3>5. Stages'
      BY <1>2, <1>3, <3>1, <3>4 DEF Stages, Ending
    <3> QED
      BY <3>2, <3>3, <3>5 DEF LInv
  <2>4. CASE ack /\ ~(lI < Len(Head(todo)))
    <3>1. lPc' = "stop" /\ lI' = 1 /\ lI = Len(Head(todo))
      BY <1>2, <1>7, <2>4 DEF Two!SmbSendByte, Two!At
    <3>2. LTypeOK'
      BY <1>2, <1>3, <2>2, <3>1 DEF LTypeOK
    <3>3. Counters'
      BY <1>2, <1>3, <3>1 DEF Counters, Shifting, Ninth
    <3>4. Shifted(8, Len(Head(todo)))' /\ Acked(Len(Head(todo)) - 1)'
      BY <1>3, <2>1, <2>2, <3>1 DEF Wholly, Shifted, Acked
    <3>5. Stages'
      BY <1>3, <2>1, <2>2, <2>4, <3>1, <3>4 DEF Stages, Ending
    <3> QED
      BY <3>2, <3>3, <3>5 DEF LInv
  <2>5. CASE ~ack
    <3>1. lPc' = "bit" /\ lI' = lI
      BY <1>7, <2>1, <2>5 DEF Two!SmbSendByte, Two!At
    <3>2. LTypeOK'
      BY <1>2, <1>3, <2>2, <3>1 DEF LTypeOK, Shifting
    <3>3. Counters'
      BY <1>2, <1>3, <3>1 DEF Counters, Shifting, Ninth
    <3>4. Answered'
      BY <1>3, <2>1, <2>2, <2>5, <3>1 DEF Wholly, Answered, Acked
    <3>5. Stages'
      BY <1>2, <1>3, <3>1, <3>4 DEF Stages, Ending
    <3> QED
      BY <3>2, <3>3, <3>5 DEF LInv
  <2> QED
    BY <2>3, <2>4, <2>5
<1> QED
  BY <1>1, <1>4, <1>5, <1>6, <1>7 DEF Ninth

(* The last byte is taken as the clock falls; what follows is seen as one more   *)
(* bit.                                                                          *)
LEMMA LastKeeps == LInv /\ Two!SmbStop => LInv'
<1> SUFFICES ASSUME LInv, Two!SmbStop PROVE LInv'
  OBVIOUS
<1>1. lPc \in {"stop"} \cup Ending
  BY DEF Two!SmbStop, Two!At, Ending
<1>2. /\ todo # <<>> /\ lI = 1 /\ lK = 7 /\ Len(Head(todo)) \in Nat \ {0}
      /\ low \in BOOLEAN /\ ack \in BOOLEAN /\ LTypeOK /\ bits \in Seq({0, 1})
  BY <1>1, HeadType DEF LInv, LTypeOK, Counters, Shifting, Ninth, Ending
<1>3. CASE lPc = "stop"
  <2>1. lPc' = "stopData" /\ Two!Wires(low, FALSE) /\ UNCHANGED <<todo, lI, lK>>
    BY <1>3 DEF Two!SmbStop, Two!At
  <2>2. /\ clk = TRUE /\ ack = TRUE /\ Len(bits) = 9
        /\ Shifted(8, Len(Head(todo))) /\ Acked(Len(Head(todo)) - 1)
    BY <1>3 DEF LInv, LTypeOK, Stages
  <2>3. /\ low' = low /\ clk' = FALSE /\ ack' = FALSE /\ bits' = <<>>
        /\ got' = Append(got, Two!Byte(bits))
    BY <1>2, <2>1, <2>2, Falls
  <2>4. PICK m \in 1 .. Len(Head(todo)) : m = Len(Head(todo))
    BY <1>2
  <2>5. Acked(m)' /\ got' \in Seq(0 .. 255)
    BY <1>2, <2>1, <2>2, <2>3, <2>4, Grown
  <2>6. LTypeOK'
    BY <1>2, <2>1, <2>3, <2>5, EmptySeq DEF LTypeOK, Ending
  <2>7. Counters'
    BY <1>2, <2>1 DEF Counters, Shifting, Ninth
  <2>8. Acked(Len(Head(todo)))'
    BY <2>1, <2>4, <2>5 DEF Acked
  <2>9. Stages'
    BY <2>1, <2>3, <2>8 DEF Stages, Ending
  <2> QED
    BY <2>6, <2>7, <2>9 DEF LInv
<1>4. CASE lPc = "stopData"
  <2>1. lPc' = "stopClock" /\ Two!Wires(FALSE, clk) /\ UNCHANGED <<todo, lI, lK>>
    BY <1>4 DEF Two!SmbStop, Two!At
  <2>2. clk = FALSE /\ Acked(Len(Head(todo)))
    BY <1>4 DEF LInv, LTypeOK, Stages, Ending
  <2>3. low' = FALSE /\ clk' = FALSE /\ ack' = ack /\ bits' = bits /\ got' = got
    BY <2>1, <2>2, StaysLow
  <2>4. LTypeOK'
    BY <1>2, <2>1, <2>3 DEF LTypeOK, Ending
  <2>5. Counters'
    BY <1>2, <2>1 DEF Counters, Shifting, Ninth
  <2>6. Stages'
    BY <2>1, <2>2, <2>3 DEF Stages, Ending, Acked
  <2> QED
    BY <2>4, <2>5, <2>6 DEF LInv
<1>5. CASE lPc = "stopClock"
  <2>1. /\ Two!Wires(low, TRUE) /\ UNCHANGED <<lI, lK>> /\ todo' = Tail(todo)
        /\ lPc' = IF Len(todo) = 1 THEN "rest" ELSE "start"
    BY <1>5 DEF Two!SmbStop, Two!At, Two!Ended
  <2>2. clk = FALSE
    BY <1>5 DEF LInv, LTypeOK, Stages, Ending
  <2>3. /\ low' = low /\ clk' = TRUE /\ ack' = ack /\ got' = got
        /\ bits' = Append(bits, IF ~low /\ ~ack THEN 1 ELSE 0)
    BY <1>2, <2>1, <2>2, Rises
  <2>4. bits' \in Seq({0, 1})
    BY <1>2, <2>3
  <2>5. todo' \in Seq(Messages) /\ Len(todo') = Len(todo) - 1 /\ Len(todo) \in Nat \ {0}
    BY <1>2, <2>1, EmptySeq DEF LTypeOK
  <2>6. lPc' # "rest" => todo' # <<>>
    BY <2>1, <2>5
  <2>7. LTypeOK'
    BY <1>2, <2>1, <2>3, <2>4, <2>5 DEF LTypeOK
  <2>8. Counters'
    BY <1>2, <2>1, <2>6 DEF Counters, Shifting, Ninth
  <2>9. Stages'
    BY <2>1 DEF Stages, Ending
  <2> QED
    BY <2>7, <2>8, <2>9 DEF LInv
<1> QED
  BY <1>1, <1>3, <1>4, <1>5 DEF Ending

LEMMA SendKeeps ==
  ASSUME LInv, NEW transfers \in Seq(Messages), Two!Call(transfers)
  PROVE  LInv'
<1>1. LTypeOK'
  BY DEF LInv, LTypeOK, Two!Call, Two!display
<1>2. Counters'
  BY DEF LInv, Counters, Two!Call, Shifting, Ninth
<1>3. Stages'
  BY DEF Two!Call, Stages, Ending
<1> QED
  BY <1>1, <1>2, <1>3 DEF LInv

LEMMA LStep == LInv /\ [Two!Next]_(Two!vars) => LInv'
<1> SUFFICES ASSUME LInv, [Two!Next]_(Two!vars) PROVE LInv'
  OBVIOUS
<1>1. CASE \E transfers \in Two!Calls : Two!Call(transfers)
  <2>1. PICK transfers \in Two!Calls : Two!Call(transfers)
    BY <1>1
  <2>2. transfers \in Seq(Messages)
    BY CallsAreBytes
  <2> QED
    BY <2>1, <2>2, SendKeeps
<1>2. CASE UNCHANGED Two!vars
  <2>1. UNCHANGED <<lPc, todo, lI, lK, low, clk, ack, bits, got>>
    BY <1>2 DEF Two!vars, Two!driver, Two!display
  <2>2. LTypeOK'
    BY <2>1 DEF LInv, LTypeOK
  <2>3. Counters'
    BY <2>1 DEF LInv, Counters
  <2>4. Stages'
    BY <2>1 DEF LInv, Stages, Fresh, Answered, Partly, Wholly, Shifted, Acked
  <2> QED
    BY <2>2, <2>3, <2>4 DEF LInv
<1> QED
  BY <1>1, <1>2, StartKeeps, WriteBitKeeps, NinthKeeps, LastKeeps DEF Two!Next, Two!Bus

LEMMA LInit == Two!Init => LInv
<1> SUFFICES ASSUME Two!Init PROVE LInv
  OBVIOUS
<1>1. LTypeOK
  <2>1. 1 \in Nat /\ 7 \in 0 .. 7
    OBVIOUS
  <2>2. <<>> \in Seq(Messages) /\ <<>> \in Seq({0, 1}) /\ <<>> \in Seq(0 .. 255)
    BY EmptySeq, Zenon
  <2> QED
    BY <2>1, <2>2, Zenon DEF Two!Init, LTypeOK
<1>2. Counters
  BY DEF Two!Init, Counters, Shifting, Ninth
<1>3. Stages
  BY DEF Two!Init, Stages, Ending
<1> QED
  BY <1>1, <1>2, <1>3 DEF LInv

LEMMA Front ==
  ASSUME NEW S, NEW s \in Seq(S), NEW n \in 0 .. Len(s)
  PROVE  /\ SubSeq(s, 1, n) \in Seq(S) /\ Len(SubSeq(s, 1, n)) = n
         /\ \A j \in 1 .. n : SubSeq(s, 1, n)[j] = s[j]
<1>1. n \in Nat /\ Len(s) \in Nat /\ \A j \in 1 .. n : j \in 1 .. Len(s)
  OBVIOUS
<1>2. \A j \in 1 .. n : s[j] \in S
  BY <1>1, ElementOfSeq
<1>3. PICK one \in Int : one = 1
  OBVIOUS
<1>4. /\ SubSeq(s, one, n) \in Seq(S)
      /\ Len(SubSeq(s, one, n)) = IF one <= n THEN n - one + 1 ELSE 0
      /\ \A j \in 1 .. n - one + 1 : SubSeq(s, one, n)[j] = s[one + j - 1]
  BY <1>1, <1>2, <1>3, SubSeqProperties
<1> QED
  BY <1>1, <1>3, <1>4

(* What the display has taken so far are the first bytes of the transfer.        *)
LEMMA FirstBytes ==
  ASSUME LTypeOK, todo # <<>>, NEW n \in 0 .. Len(Head(todo)), Acked(n)
  PROVE  /\ Len(got) <= Len(Head(todo)) /\ got = SubSeq(Head(todo), 1, Len(got))
         /\ n = Len(Head(todo)) => got = Head(todo)
<1>1. Head(todo) \in Seq(0 .. 255) /\ Len(Head(todo)) \in Nat
  BY HeadType
<1>2. got \in Seq(0 .. 255) /\ Len(got) = n /\ \A j \in 1 .. n : got[j] = Head(todo)[j]
  BY DEF LTypeOK, Acked
<1>3. /\ SubSeq(Head(todo), 1, n) \in Seq(0 .. 255) /\ Len(SubSeq(Head(todo), 1, n)) = n
      /\ \A j \in 1 .. n : SubSeq(Head(todo), 1, n)[j] = Head(todo)[j]
  BY <1>1, Front
<1>4. got = SubSeq(Head(todo), 1, n)
  BY <1>2, <1>3, SeqEqual
<1>5. n = Len(Head(todo)) => got = Head(todo)
  BY <1>1, <1>2, SeqEqual
<1> QED
  BY <1>1, <1>2, <1>4, <1>5

LEMMA LInvSuffices == LInv => Two!TransferIsTaken
<1> SUFFICES ASSUME LInv PROVE Two!TransferIsTaken
  OBVIOUS
<1>1. LTypeOK /\ lK \in 0 .. 7 /\ lI \in Nat /\ Counters /\ Stages
  BY DEF LInv, LTypeOK
<1>2. ASSUME lPc \in Shifting \cup Ninth \cup {"stop"}
      PROVE  Len(got) <= Len(Head(todo)) /\ got = SubSeq(Head(todo), 1, Len(got))
  <2>1. /\ todo # <<>> /\ Len(Head(todo)) \in Nat \ {0}
        /\ lPc # "stop" => lI \in 1 .. Len(Head(todo))
    BY <1>1, <1>2, HeadType DEF Counters, Shifting, Ninth
  <2>2. \E n \in 0 .. Len(Head(todo)) : Acked(n)
    <3>1. CASE lPc = "stop"
      <4>1. Acked(Len(Head(todo)) - 1) /\ Len(Head(todo)) - 1 \in 0 .. Len(Head(todo))
        BY <1>1, <2>1, <3>1 DEF Stages
      <4> QED
        BY <4>1
    <3>2. CASE Acked(lI - 1) /\ lPc # "stop"
      <4>1. lI - 1 \in 0 .. Len(Head(todo))
        BY <2>1, <3>2
      <4> QED
        BY <3>2, <4>1
    <3>3. CASE Acked(lI - 2) /\ lI > 1 /\ lPc # "stop"
      <4>1. lI - 2 \in 0 .. Len(Head(todo))
        BY <2>1, <3>3
      <4> QED
        BY <3>3, <4>1
    <3> QED
      BY <1>1, <1>2, <3>1, <3>2, <3>3
         DEF Stages, Fresh, Answered, Partly, Wholly, Shifting, Ninth
  <2> QED
    BY <1>1, <2>1, <2>2, FirstBytes
<1>3. ASSUME lPc \in Ending PROVE got = Head(todo)
  <2>1. todo # <<>> /\ Len(Head(todo)) \in Nat /\ Acked(Len(Head(todo)))
    BY <1>1, <1>3, HeadType DEF Counters, Stages, Ending
  <2>2. Len(Head(todo)) \in 0 .. Len(Head(todo))
    BY <2>1
  <2> QED
    BY <1>1, <2>1, <2>2, FirstBytes
<1> QED
  BY <1>2, <1>3 DEF Two!TransferIsTaken, Shifting, Ninth, Ending

(* The display takes each transfer whole and in order, every byte once, for any  *)
(* texts, characters, columns and shapes and however often it is busy:           *)
(* hal_lcd_srf04.c.                                                              *)
THEOREM TransfersAreTaken == MCSpec => []TransferIsTaken
<1>1. MCInit => LInv
  BY LInit DEF MCInit
<1>2. [MCNext]_<<which, drivers>> => [Two!Next]_(Two!vars)
  <2>1. UNCHANGED wireVars <=> UNCHANGED Two!vars
    BY DEF wireVars, Two!vars, Two!driver, Two!display
  <2>2. UNCHANGED drivers => UNCHANGED wireVars
    BY DEF drivers
  <2> QED
    BY <2>1, <2>2 DEF MCNext
<1>3. LInv /\ [MCNext]_<<which, drivers>> => LInv'
  BY <1>2, LStep
<1>4. LInv => TransferIsTaken
  BY LInvSuffices DEF TransferIsTaken
<1> QED
  BY <1>1, <1>3, <1>4, PTL DEF MCSpec
-----------------------------------------------------------------------------
(* The menus.  A menu always stands on an enabled item; the screen it shows is   *)
(* that item's, or one no enabled item lies before on the way there.  That is    *)
(* what a key keeps when it moves a screen at a time, and from where every       *)
(* further key finds its way.  Parents lead upwards, as no menu opens one it was *)
(* opened from, so that menuTop, which follows them, ends at the root.           *)
(* The menu shows the screen of its item, or one on the way from there past no   *)
(* enabled item.                                                                 *)
Stands(m, p) ==
  /\ p \in Positions(m) /\ p.item \in Enabled(m)
  /\ \/ p.screen = menuGetScreen(p.item)
     \/ /\ p.screen > menuGetScreen(p.item)
        /\ \A i \in Enabled(m) : i > p.item => menuGetScreen(i) > p.screen
     \/ /\ p.screen < menuGetScreen(p.item)
        /\ \A i \in Enabled(m) : i < p.item => menuGetScreen(i) < p.screen

(* How deep a menu lies, as no menu opens one it was opened from.                *)
Depth == CHOOSE depth \in [Menus -> Nat] :
           \A m \in Menus : \A i \in Items(m) :
             pSubMenu[m][i] # NoMenu => depth[pSubMenu[m][i]] > depth[m]

Position == [item : Int, screen : Int]

MenuTypeOK ==
  /\ here \in Menus
  /\ at \in [Menus -> Position]
  /\ nSelectedItem \in [Menus -> Int]
  /\ pParentMenu \in [Menus -> Menus \cup {NoMenu}]
  /\ path \in Seq(Menus) /\ Len(path) \in Nat \ {0}

(* Parents lead upwards, to the root.                                            *)
Upwards ==
  \A m \in Menus : pParentMenu[m] # NoMenu =>
    /\ Depth[pParentMenu[m]] < Depth[m]
    /\ pParentMenu[m] = Root \/ pParentMenu[pParentMenu[m]] # NoMenu

MInv ==
  /\ MenuTypeOK
  /\ \A m \in Menus : Stands(m, at[m])
  /\ \A m \in Menus : nSelectedItem[m] \in Enabled(m) \cup {-1, -2}
  /\ ParentsArePath
  /\ Upwards
  /\ \A j, k \in 1 .. Len(path) : j < k => Depth[path[j]] < Depth[path[k]]

(* Every set of numbers has a least one, which is what an induction needs.       *)
LEMMA Least ==
  ASSUME NEW T \in SUBSET Nat, T # {}
  PROVE  \E x \in T : \A y \in T : x <= y
<1> DEFINE R == {ss \in Nat \X Nat : ss[1] < ss[2]}
<1>1. IsWellFoundedOn(R, Nat)
  BY NatLessThanWellFounded DEF OpToRel
<1>2. \A x, y \in Nat : <<y, x>> \in R <=> y < x
  OBVIOUS
<1> HIDE DEF R
<1>3. PICK x \in T : \A y \in T : ~(<<y, x>> \in R)
  BY <1>1, WFMin
<1>4. \A y \in T : x \in Nat /\ y \in Nat /\ ~(y < x)
  BY <1>2, <1>3
<1> QED
  BY <1>4

LEMMA Lowest ==
  ASSUME NEW S \in SUBSET Nat, S # {} PROVE \E i \in S : IsMin(i, S)
BY Least DEF IsMin

LEMMA Highest ==
  ASSUME NEW n \in Nat, NEW S \in SUBSET (0 .. n), S # {} PROVE \E i \in S : IsMax(i, S)
<1> DEFINE T == {j \in 0 .. n : n - j \in S}
<1>1. T # {}
  <2>1. PICK i \in S : TRUE
    OBVIOUS
  <2>2. n - i \in 0 .. n /\ n - (n - i) = i
    OBVIOUS
  <2> QED
    BY <2>1, <2>2
<1>2. T \in SUBSET Nat
  OBVIOUS
<1>3. PICK x \in T : \A y \in T : x <= y
  BY <1>1, <1>2, Least
<1>4. ASSUME NEW j \in S PROVE j <= n - x
  <2>1. n - j \in 0 .. n /\ n - (n - j) = j
    OBVIOUS
  <2>2. n - j \in T
    BY <2>1
  <2>3. x <= n - j /\ x \in 0 .. n
    BY <1>3, <2>2
  <2> QED
    BY <2>3
<1>5. n - x \in S
  OBVIOUS
<1> QED
  BY <1>4, <1>5 DEF IsMax

------------------------------------------------------------------------------
(* Items and screens.                                                            *)

LEMMA MenuTypes ==
  ASSUME NEW m \in Menus
  PROVE  /\ nMenuItems[m] \in 1 .. 127 /\ PerScreen \in Nat \ {0}
         /\ Items(m) = 0 .. nMenuItems[m] - 1 /\ Enabled(m) \subseteq Items(m)
         /\ Enabled(m) \subseteq 0 .. 126 /\ Enabled(m) \subseteq Nat
         /\ LastScreen(m) = menuGetScreen(nMenuItems[m] - 1)
<1>1. nMenuItems[m] \in 1 .. 127 /\ PerScreen \in Nat \ {0}
  BY MenuAssumption
<1>2. Items(m) = 0 .. nMenuItems[m] - 1 /\ Enabled(m) \subseteq Items(m)
  BY DEF Items, Enabled
<1>3. 0 .. nMenuItems[m] - 1 \subseteq 0 .. 126
  BY <1>1
<1>4. Enabled(m) \subseteq 0 .. 126
  BY <1>2, <1>3
<1>5. Enabled(m) \subseteq Nat
  BY <1>4
<1> QED
  BY <1>1, <1>2, <1>4, <1>5 DEF LastScreen

LEMMA ScreenType == \A i \in Nat : menuGetScreen(i) \in Nat
<1> SUFFICES ASSUME NEW i \in Nat PROVE i \div PerScreen \in Nat
  BY DEF menuGetScreen
<1>1. PerScreen \in Nat \ {0}
  BY MenuAssumption
<1> QED
  BY <1>1

LEMMA ScreensRise ==
  ASSUME NEW i \in Nat, NEW j \in Nat, i <= j
  PROVE  menuGetScreen(i) <= menuGetScreen(j)
<1> DEFINE q == i \div PerScreen  r == i % PerScreen
           u == j \div PerScreen  v == j % PerScreen
<1>1. PerScreen \in Nat \ {0}
  BY MenuAssumption
<1>2. /\ q \in Nat /\ r \in 0 .. PerScreen - 1 /\ i = PerScreen * q + r
      /\ u \in Nat /\ v \in 0 .. PerScreen - 1 /\ j = PerScreen * u + v
  BY <1>1
<1> HIDE DEF q, r, u, v
<1>3. ASSUME u < q PROVE FALSE
  <2>1. PerScreen * q >= PerScreen * (u + 1)
    BY <1>1, <1>2, <1>3
  <2>2. PerScreen * (u + 1) = PerScreen * u + PerScreen
    BY <1>1, <1>2
  <2>3. PerScreen * q \in Nat /\ PerScreen * u \in Nat
    BY <1>1, <1>2
  <2> QED
    BY <1>1, <1>2, <2>1, <2>2, <2>3
<1>4. q <= u
  BY <1>2, <1>3
<1> QED
  BY <1>4 DEF q, u, menuGetScreen

LEMMA LastIsLast ==
  ASSUME NEW m \in Menus, NEW i \in Items(m)
  PROVE  menuGetScreen(i) \in 0 .. LastScreen(m) /\ LastScreen(m) \in Nat
<1>1. i \in Nat /\ nMenuItems[m] - 1 \in Nat /\ i <= nMenuItems[m] - 1
  <2>1. nMenuItems[m] \in 1 .. 127 /\ i \in 0 .. nMenuItems[m] - 1
    BY MenuTypes
  <2> QED
    BY <2>1
<1>2. menuGetScreen(i) <= menuGetScreen(nMenuItems[m] - 1)
  BY <1>1, ScreensRise
<1> QED
  BY <1>1, <1>2, MenuTypes, ScreenType

LEMMA PositionType ==
  ASSUME NEW m \in Menus, NEW p \in Positions(m)
  PROVE  /\ p.item \in Items(m) /\ p.item \in Nat
         /\ p.screen \in 0 .. LastScreen(m) /\ LastScreen(m) \in Nat
         /\ p = [item |-> p.item, screen |-> p.screen]
         /\ menuGetScreen(p.item) \in 0 .. LastScreen(m)
<1>1. /\ p.item \in Items(m) /\ p.screen \in 0 .. LastScreen(m)
      /\ p = [item |-> p.item, screen |-> p.screen]
  BY DEF Positions
<1>2. p.item \in Nat
  <2>1. nMenuItems[m] \in 1 .. 127 /\ p.item \in 0 .. nMenuItems[m] - 1
    BY <1>1, MenuTypes
  <2> QED
    BY <2>1
<1> QED
  BY <1>1, <1>2, LastIsLast

(* A key leads to a position of the menu that stands as it should.               *)
LEMMA UpKeeps ==
  ASSUME NEW m \in Menus, NEW p \in Positions(m)
  PROVE  /\ UpFrom(m, p) \in Positions(m)
         /\ UpFrom(m, p) = p \/ UpFrom(m, p).item + UpFrom(m, p).screen < p.item + p.screen
         /\ Stands(m, p) => Stands(m, UpFrom(m, p))
<1> DEFINE s == menuGetScreen(p.item)
           a == CHOOSE i \in Above(m, p) : IsMax(i, Above(m, p))
<1>1. /\ p.item \in Items(m) /\ p.item \in Nat /\ p.screen \in 0 .. LastScreen(m)
      /\ LastScreen(m) \in Nat /\ s \in Nat /\ p = [item |-> p.item, screen |-> p.screen]
  BY PositionType
<1>2. Above(m, p) \subseteq 0 .. 126
  BY MenuTypes DEF Above
<1>3. Above(m, p) # {} =>
        /\ a \in Enabled(m) /\ a \in Items(m) /\ a \in Nat /\ a < p.item
        /\ \A i \in Enabled(m) : i < p.item => i <= a
  <2>1. ASSUME Above(m, p) # {} PROVE \E i \in Above(m, p) : IsMax(i, Above(m, p))
    BY <1>2, <2>1, Highest, 126 \in Nat
  <2>2. ASSUME Above(m, p) # {} PROVE a \in Above(m, p) /\ IsMax(a, Above(m, p))
    BY <2>1, <2>2
  <2> HIDE DEF a
  <2> QED
    BY <2>2, MenuTypes DEF Above, IsMax
<1>4. UpFrom(m, p) =
        IF Above(m, p) # {} /\ menuGetScreen(a) = p.screen /\ s = p.screen
          THEN [p EXCEPT !.item = a]
        ELSE IF Above(m, p) # {} /\ menuGetScreen(a) = p.screen - 1 /\ s >= p.screen
          THEN [item |-> a, screen |-> p.screen - 1]
        ELSE IF p.screen > 0 THEN [p EXCEPT !.screen = @ - 1]
        ELSE p
  BY DEF UpFrom
<1>5. Above(m, p) # {} => menuGetScreen(a) \in Nat /\ menuGetScreen(a) <= s
  BY <1>1, <1>3, ScreenType, ScreensRise
<1>6. \A i \in Enabled(m) : i < p.item => Above(m, p) # {}
  BY DEF Above
<1> HIDE DEF a, s
<1>7. CASE Above(m, p) # {} /\ menuGetScreen(a) = p.screen /\ s = p.screen
  <2>1. UpFrom(m, p) = [item |-> a, screen |-> p.screen]
    BY <1>1, <1>4, <1>7
  <2> QED
    BY <1>1, <1>3, <1>7, <2>1 DEF Stands, Positions
<1>8. CASE /\ ~(Above(m, p) # {} /\ menuGetScreen(a) = p.screen /\ s = p.screen)
           /\ Above(m, p) # {} /\ menuGetScreen(a) = p.screen - 1 /\ s >= p.screen
  <2>1. UpFrom(m, p) = [item |-> a, screen |-> p.screen - 1]
    BY <1>4, <1>8
  <2>2. p.screen - 1 \in 0 .. LastScreen(m)
    BY <1>1, <1>5, <1>8
  <2> QED
    BY <1>1, <1>3, <1>8, <2>1, <2>2 DEF Stands, Positions
<1>9. CASE /\ ~(Above(m, p) # {} /\ menuGetScreen(a) = p.screen /\ s = p.screen)
           /\ ~(Above(m, p) # {} /\ menuGetScreen(a) = p.screen - 1 /\ s >= p.screen)
           /\ p.screen > 0
  <2>1. UpFrom(m, p) = [item |-> p.item, screen |-> p.screen - 1]
    BY <1>1, <1>4, <1>9
  <2>2. UpFrom(m, p) \in Positions(m)
    BY <1>1, <1>9, <2>1 DEF Positions
  <2>3. ASSUME Stands(m, p) PROVE Stands(m, UpFrom(m, p))
    <3>1. CASE s < p.screen
      <4>1. \A i \in Enabled(m) : i > p.item => menuGetScreen(i) > p.screen
        BY <1>1, <2>3, <3>1 DEF Stands, s
      <4>2. \A i \in Enabled(m) : i > p.item => menuGetScreen(i) > p.screen - 1
        BY <1>1, <4>1, ScreenType, MenuTypes
      <4> QED
        BY <1>1, <2>1, <2>2, <2>3, <3>1, <4>2 DEF Stands, s
    <3>2. CASE s >= p.screen
      <4>1. ASSUME NEW i \in Enabled(m), i < p.item PROVE menuGetScreen(i) < p.screen - 1
        <5>1. /\ Above(m, p) # {} /\ i <= a /\ i \in Nat /\ menuGetScreen(i) \in Nat
              /\ menuGetScreen(a) \in Nat /\ menuGetScreen(a) <= s /\ a \in Enabled(m) /\ a < p.item
          BY <1>3, <1>5, <1>6, <4>1, ScreenType, MenuTypes
        <5>2. menuGetScreen(i) <= menuGetScreen(a)
          BY <1>3, <5>1, ScreensRise
        <5>3. menuGetScreen(a) # p.screen - 1
          BY <1>9, <3>2, <5>1
        <5>4. menuGetScreen(a) <= p.screen
          BY <1>1, <2>3, <3>2, <5>1 DEF Stands, s
        <5>5. menuGetScreen(a) # p.screen
          BY <1>1, <1>9, <2>3, <3>2, <5>1 DEF Stands, s
        <5> QED
          BY <1>1, <5>1, <5>2, <5>3, <5>4, <5>5
      <4> QED
        BY <1>1, <2>1, <2>2, <2>3, <3>2, <4>1 DEF Stands, s
    <3> QED
      BY <1>1, <3>1, <3>2
  <2> QED
    BY <1>1, <2>1, <2>2, <2>3
<1>10. CASE /\ ~(Above(m, p) # {} /\ menuGetScreen(a) = p.screen /\ s = p.screen)
            /\ ~(Above(m, p) # {} /\ menuGetScreen(a) = p.screen - 1 /\ s >= p.screen)
            /\ ~(p.screen > 0)
  <2>1. UpFrom(m, p) = p
    BY <1>4, <1>10
  <2> QED
    BY <2>1
<1> QED
  BY <1>7, <1>8, <1>9, <1>10

LEMMA DownKeeps ==
  ASSUME NEW m \in Menus, NEW p, Stands(m, p) PROVE Stands(m, DownFrom(m, p))
<1> DEFINE s == menuGetScreen(p.item)
           a == CHOOSE i \in Below(m, p) : IsMin(i, Below(m, p))
<1>1. /\ p \in Positions(m) /\ p.item \in Enabled(m)
      /\ p.item \in Items(m) /\ p.item \in Nat /\ p.screen \in 0 .. LastScreen(m)
      /\ LastScreen(m) \in Nat /\ s \in 0 .. LastScreen(m)
      /\ p = [item |-> p.item, screen |-> p.screen]
  BY PositionType DEF Stands
<1>2. Below(m, p) \subseteq Nat
  BY MenuTypes DEF Below
<1>3. Below(m, p) # {} =>
        /\ a \in Enabled(m) /\ a \in Items(m) /\ a \in Nat /\ a > p.item
        /\ \A i \in Enabled(m) : i > p.item => i >= a
  <2>1. ASSUME Below(m, p) # {} PROVE \E i \in Below(m, p) : IsMin(i, Below(m, p))
    BY <1>2, <2>1, Lowest
  <2>2. ASSUME Below(m, p) # {} PROVE a \in Below(m, p) /\ IsMin(a, Below(m, p))
    BY <2>1, <2>2
  <2> HIDE DEF a
  <2> QED
    BY <2>2, MenuTypes DEF Below, IsMin
<1>4. DownFrom(m, p) =
        IF Below(m, p) # {} /\ menuGetScreen(a) = p.screen /\ s = p.screen
          THEN [p EXCEPT !.item = a]
        ELSE IF Below(m, p) # {} /\ menuGetScreen(a) = p.screen + 1 /\ s <= p.screen
          THEN [item |-> a, screen |-> p.screen + 1]
        ELSE IF p.screen < LastScreen(m) THEN [p EXCEPT !.screen = @ + 1]
        ELSE p
  BY DEF DownFrom
<1>5. Below(m, p) # {} => menuGetScreen(a) \in 0 .. LastScreen(m) /\ menuGetScreen(a) >= s
  BY <1>1, <1>3, LastIsLast, ScreensRise
<1>6. \A i \in Enabled(m) : i > p.item => Below(m, p) # {}
  BY DEF Below
<1> HIDE DEF a, s
<1>7. CASE Below(m, p) # {} /\ menuGetScreen(a) = p.screen /\ s = p.screen
  <2>1. DownFrom(m, p) = [item |-> a, screen |-> p.screen]
    BY <1>1, <1>4, <1>7
  <2> QED
    BY <1>1, <1>3, <1>7, <2>1 DEF Stands, Positions
<1>8. CASE /\ ~(Below(m, p) # {} /\ menuGetScreen(a) = p.screen /\ s = p.screen)
           /\ Below(m, p) # {} /\ menuGetScreen(a) = p.screen + 1 /\ s <= p.screen
  <2>1. DownFrom(m, p) = [item |-> a, screen |-> p.screen + 1]
    BY <1>4, <1>8
  <2>2. p.screen + 1 \in 0 .. LastScreen(m)
    BY <1>1, <1>5, <1>8
  <2> QED
    BY <1>1, <1>3, <1>8, <2>1, <2>2 DEF Stands, Positions
<1>9. CASE /\ ~(Below(m, p) # {} /\ menuGetScreen(a) = p.screen /\ s = p.screen)
           /\ ~(Below(m, p) # {} /\ menuGetScreen(a) = p.screen + 1 /\ s <= p.screen)
           /\ p.screen < LastScreen(m)
  <2>1. DownFrom(m, p) = [item |-> p.item, screen |-> p.screen + 1]
    BY <1>1, <1>4, <1>9
  <2>2. DownFrom(m, p) \in Positions(m)
    BY <1>1, <1>9, <2>1 DEF Positions
  <2>3. CASE s > p.screen
    <3>1. \A i \in Enabled(m) : i < p.item => menuGetScreen(i) < p.screen
      BY <1>1, <2>3 DEF Stands, s
    <3>2. \A i \in Enabled(m) : i < p.item => menuGetScreen(i) < p.screen + 1
      BY <1>1, <3>1, ScreenType, MenuTypes
    <3> QED
      BY <1>1, <2>1, <2>2, <2>3, <3>2 DEF Stands, s
  <2>4. CASE s <= p.screen
    <3>1. ASSUME NEW i \in Enabled(m), i > p.item PROVE menuGetScreen(i) > p.screen + 1
      <4>1. /\ Below(m, p) # {} /\ i >= a /\ i \in Nat /\ menuGetScreen(i) \in Nat
            /\ menuGetScreen(a) \in Nat /\ menuGetScreen(a) >= s /\ a \in Enabled(m) /\ a > p.item
        BY <1>3, <1>5, <1>6, <3>1, ScreenType, MenuTypes
      <4>2. menuGetScreen(i) >= menuGetScreen(a)
        BY <1>3, <4>1, ScreensRise
      <4>3. menuGetScreen(a) # p.screen + 1
        BY <1>9, <2>4, <4>1
      <4>4. menuGetScreen(a) >= p.screen
        BY <1>1, <2>4, <4>1 DEF Stands, s
      <4>5. menuGetScreen(a) # p.screen
        BY <1>1, <1>9, <2>4, <4>1 DEF Stands, s
      <4> QED
        BY <1>1, <4>1, <4>2, <4>3, <4>4, <4>5
    <3> QED
      BY <1>1, <2>1, <2>2, <2>4, <3>1 DEF Stands, s
  <2> QED
    BY <1>1, <2>3, <2>4
<1>10. CASE /\ ~(Below(m, p) # {} /\ menuGetScreen(a) = p.screen /\ s = p.screen)
            /\ ~(Below(m, p) # {} /\ menuGetScreen(a) = p.screen + 1 /\ s <= p.screen)
            /\ ~(p.screen < LastScreen(m))
  <2>1. DownFrom(m, p) = p
    BY <1>4, <1>10
  <2> QED
    BY <2>1
<1> QED
  BY <1>7, <1>8, <1>9, <1>10

(* menuPositionTop: keys upwards until nothing changes.                          *)

(* The walk up from m's positions of a lower sum than n ends somewhere.          *)
Early(m, n) == {q \in Positions(m) : q.item + q.screen < n}
Walk(m, f, n) ==
  f = [q \in Early(m, n) |-> IF UpFrom(m, q) = q THEN q ELSE f[UpFrom(m, q)]]

LEMMA SumType == ASSUME NEW m \in Menus, NEW q \in Positions(m)
                 PROVE  q.item + q.screen \in Nat
<1>1. q.item \in Nat /\ q.screen \in 0 .. LastScreen(m) /\ LastScreen(m) \in Nat
  BY PositionType
<1> QED
  BY <1>1

LEMMA WalksEnd == ASSUME NEW m \in Menus, NEW n \in Nat PROVE \E f : Walk(m, f, n)
<1> DEFINE T == {k \in Nat : ~\E f : Walk(m, f, k)}
<1> SUFFICES ASSUME T # {} PROVE FALSE
  OBVIOUS
<1>1. PICK k \in T : \A j \in T : k <= j
  <2>1. T \in SUBSET Nat
    OBVIOUS
  <2> HIDE DEF T
  <2> QED
    BY <2>1, Least
<1>2. k \in Nat /\ ~\E f : Walk(m, f, k)
  OBVIOUS
<1>3. CASE k = 0
  <2>1. Early(m, 0) = {}
    BY SumType DEF Early
  <2> DEFINE f == [q \in {} |-> q]
  <2>2. Walk(m, f, 0)
    BY <2>1 DEF Walk
  <2> QED
    BY <1>2, <1>3, <2>2
<1>4. CASE k # 0
  <2>1. k - 1 \in Nat /\ k - 1 \notin T
    BY <1>1, <1>2, <1>4
  <2>2. PICK f : Walk(m, f, k - 1)
    BY <2>1
  <2> DEFINE D == Early(m, k - 1)
             U(q) == UpFrom(m, q)
             g == [q \in Early(m, k) |->
                     IF q \in D THEN f[q] ELSE IF U(q) = q THEN q ELSE f[U(q)]]
  <2>3. \A q \in Early(m, k) : U(q) = q \/ U(q) \in D
    <3> SUFFICES ASSUME NEW q \in Early(m, k), U(q) # q PROVE U(q) \in D
      OBVIOUS
    <3>1. q \in Positions(m) /\ q.item + q.screen < k /\ q.item + q.screen \in Nat
      BY SumType DEF Early
    <3>2. U(q) \in Positions(m) /\ U(q).item + U(q).screen < q.item + q.screen
      BY <3>1, UpKeeps
    <3>3. U(q).item + U(q).screen \in Nat
      BY <3>2, SumType
    <3>4. U(q).item + U(q).screen < k - 1
      BY <1>2, <3>1, <3>2, <3>3
    <3> QED
      BY <3>2, <3>4 DEF Early
  <2>4. \A q \in D : q \in Early(m, k)
    <3> SUFFICES ASSUME NEW q \in D PROVE q \in Early(m, k)
      OBVIOUS
    <3>1. q \in Positions(m) /\ q.item + q.screen < k - 1 /\ q.item + q.screen \in Nat
      BY SumType DEF Early
    <3>2. q.item + q.screen < k
      BY <1>2, <3>1
    <3> QED
      BY <3>1, <3>2 DEF Early
  <2>5. \A q \in D : f[q] = IF U(q) = q THEN q ELSE f[U(q)]
    BY <2>2 DEF Walk
  <2> HIDE DEF D, U
  <2>6. \A q \in Early(m, k) : g[q] = IF U(q) = q THEN q ELSE g[U(q)]
    <3> SUFFICES ASSUME NEW q \in Early(m, k)
                 PROVE  g[q] = IF U(q) = q THEN q ELSE g[U(q)]
      OBVIOUS
    <3>1. CASE U(q) = q
      BY <2>5, <3>1
    <3>2. CASE U(q) # q
      <4>1. U(q) \in D /\ U(q) \in Early(m, k)
        BY <2>3, <2>4, <3>2
      <4>2. g[U(q)] = f[U(q)]
        BY <4>1
      <4>3. g[q] = f[U(q)]
        BY <2>5, <3>2
      <4> QED
        BY <3>2, <4>2, <4>3
    <3> QED
      BY <3>1, <3>2
  <2>7. g = [q \in Early(m, k) |-> IF U(q) = q THEN q ELSE g[U(q)]]
    <3> DEFINE h == [q \in Early(m, k) |-> IF U(q) = q THEN q ELSE g[U(q)]]
    <3>1. \A q \in Early(m, k) : g[q] = h[q]
      BY <2>6
    <3>2. g = [q \in Early(m, k) |-> g[q]] /\ h = [q \in Early(m, k) |-> h[q]]
      OBVIOUS
    <3> HIDE DEF g, h
    <3>3. g = h
      BY <3>1, <3>2
    <3> QED
      BY <3>3 DEF h
  <2>8. Walk(m, g, k)
    <3> HIDE DEF g
    <3> QED
      BY <2>7 DEF Walk, U
  <2> QED
    BY <1>2, <2>8
<1> QED
  BY <1>3, <1>4

LEMMA TopKeeps ==
  ASSUME NEW m \in Menus, NEW p, Stands(m, p) PROVE Stands(m, menuPositionTop(m, p))
<1> DEFINE IsTop(f) == f = [q \in Positions(m) |-> IF UpFrom(m, q) = q THEN q ELSE f[UpFrom(m, q)]]
           top == CHOOSE f : IsTop(f)
<1>1. \A q : menuPositionTop(m, q) = top[q]
  BY DEF menuPositionTop
<1>2. \E f : IsTop(f)
  <2> DEFINE n == 127 + LastScreen(m) + 1
  <2>1. n \in Nat
    <3>1. PICK i : i \in Items(m)
      BY DEF Stands, Positions
    <3>2. LastScreen(m) \in Nat
      BY <3>1, LastIsLast
    <3> QED
      BY <3>2
  <2>2. Early(m, n) = Positions(m)
    <3> SUFFICES ASSUME NEW q \in Positions(m) PROVE q.item + q.screen < n
      BY DEF Early
    <3>1. /\ q.item \in Items(m) /\ q.item \in Nat
          /\ q.screen \in 0 .. LastScreen(m) /\ LastScreen(m) \in Nat
      BY PositionType
    <3>2. nMenuItems[m] \in 1 .. 127 /\ q.item \in 0 .. nMenuItems[m] - 1
      BY <3>1, MenuTypes
    <3> QED
      BY <3>1, <3>2
  <2> HIDE DEF n
  <2>3. PICK f : Walk(m, f, n)
    BY <2>1, WalksEnd
  <2>4. IsTop(f)
    BY <2>2, <2>3 DEF Walk
  <2> QED
    BY <2>4
<1>3. IsTop(top)
  BY <1>2
<1> HIDE DEF top
<1>4. \A q \in Positions(m) : top[q] = IF UpFrom(m, q) = q THEN q ELSE top[UpFrom(m, q)]
  BY <1>3
<1> HIDE DEF IsTop
<1>5. \A q \in Positions(m) : Stands(m, q) => Stands(m, top[q])
  <2> DEFINE Bad(k) == \E q \in Positions(m) : /\ Stands(m, q) /\ ~Stands(m, top[q])
                                               /\ q.item + q.screen = k
             T == {k \in Nat : Bad(k)}
  <2>1. T = {}
    <3> SUFFICES ASSUME T # {} PROVE FALSE
      OBVIOUS
    <3>1. PICK k \in T : \A j \in T : k <= j
      <4>1. T \in SUBSET Nat
        OBVIOUS
      <4> HIDE DEF T
      <4> QED
        BY <4>1, Least
    <3>2. PICK q \in Positions(m) : Stands(m, q) /\ ~Stands(m, top[q]) /\ q.item + q.screen = k
      OBVIOUS
    <3>3. UpFrom(m, q) # q
      BY <1>4, <3>2
    <3>4. /\ UpFrom(m, q) \in Positions(m) /\ Stands(m, UpFrom(m, q))
          /\ UpFrom(m, q).item + UpFrom(m, q).screen < k
      BY <3>2, <3>3, UpKeeps
    <3>5. ~Stands(m, top[UpFrom(m, q)])
      BY <1>4, <3>2, <3>3
    <3>6. UpFrom(m, q).item + UpFrom(m, q).screen \in Nat
      BY <3>4, SumType
    <3>7. UpFrom(m, q).item + UpFrom(m, q).screen \in T
      BY <3>4, <3>5, <3>6
    <3> QED
      BY <3>1, <3>4, <3>6, <3>7
  <2> QED
    <3> SUFFICES ASSUME NEW q \in Positions(m), Stands(m, q), ~Stands(m, top[q]) PROVE FALSE
      OBVIOUS
    <3>1. q.item + q.screen \in Nat
      BY SumType
    <3>2. q.item + q.screen \in T
      BY <3>1
    <3> QED
      BY <2>1, <3>2
<1> QED
  BY <1>1, <1>5 DEF Stands

------------------------------------------------------------------------------
(* The steps.                                                                    *)

LEMMA DepthType ==
  /\ Depth \in [Menus -> Nat]
  /\ \A m \in Menus : \A i \in Items(m) :
       pSubMenu[m][i] # NoMenu => Depth[pSubMenu[m][i]] > Depth[m]
<1> DEFINE Deep(d) == \A m \in Menus : \A i \in Items(m) :
                        pSubMenu[m][i] # NoMenu => d[pSubMenu[m][i]] > d[m]
<1>1. PICK d \in [Menus -> 1 .. Cardinality(Menus)] : Deep(d)
  BY NoCircle
<1>2. \A m \in Menus : d[m] \in Nat
  OBVIOUS
<1>3. d \in [Menus -> Nat]
  BY <1>2
<1>4. \E e \in [Menus -> Nat] : Deep(e)
  BY <1>1, <1>3
<1>5. Depth = CHOOSE e \in [Menus -> Nat] : Deep(e)
  BY DEF Depth
<1>6. Depth \in [Menus -> Nat] /\ Deep(Depth)
  BY <1>4, <1>5, Zenon
<1> QED
  BY <1>6

LEMMA MenuInit == Init => MInv
<1> SUFFICES ASSUME Init PROVE MInv
  OBVIOUS
<1>1. /\ Root \in Menus /\ NoMenu \notin Menus
      /\ \A m \in Menus : Startup[m] \in Enabled(m) /\ Kind[m] \in Enabled(m) \cup {-1, -2}
  BY MenuAssumption
<1>2. ASSUME NEW m \in Menus
      PROVE  at[m] \in Position /\ Stands(m, at[m])
  <2>1. at[m] = [item |-> Startup[m], screen |-> menuGetScreen(Startup[m])]
    BY DEF Init
  <2>2. Startup[m] \in Items(m) /\ Startup[m] \in Nat /\ menuGetScreen(Startup[m]) \in Nat
    BY <1>1, MenuTypes, ScreenType
  <2>3. menuGetScreen(Startup[m]) \in 0 .. LastScreen(m)
    BY <2>2, LastIsLast
  <2> QED
    BY <1>1, <2>1, <2>2, <2>3 DEF Stands, Positions, Position
<1>3. at \in [Menus -> Position]
  <2>1. at = [m \in Menus |-> at[m]]
    BY DEF Init
  <2> QED
    BY <1>2, <2>1
<1>4. MenuTypeOK
  <2>1. nSelectedItem \in [Menus -> Int]
    BY MenuAssumption DEF Init
  <2>2. pParentMenu \in [Menus -> Menus \cup {NoMenu}]
    BY DEF Init
  <2>3. path \in Seq(Menus) /\ Len(path) = 1
    BY <1>1 DEF Init
  <2> QED
    BY <1>1, <1>3, <2>1, <2>2, <2>3 DEF Init, MenuTypeOK
<1>5. ParentsArePath
  BY <1>1 DEF Init, ParentsArePath
<1>6. Upwards
  BY DEF Init, Upwards
<1>7. \A j, k \in 1 .. Len(path) : j < k => Depth[path[j]] < Depth[path[k]]
  BY DEF Init
<1>8. \A m \in Menus : nSelectedItem[m] \in Enabled(m) \cup {-1, -2}
  BY <1>1 DEF Init
<1> QED
  BY <1>2, <1>4, <1>5, <1>6, <1>7, <1>8 DEF MInv

LEMMA NotNull == \A m \in Menus : m # NoMenu
BY MenuAssumption

LEMMA StandsType ==
  ASSUME NEW m \in Menus, NEW p, Stands(m, p) PROVE p \in Position
<1>1. /\ p.item \in Nat /\ p.screen \in 0 .. LastScreen(m) /\ LastScreen(m) \in Nat
      /\ p = [item |-> p.item, screen |-> p.screen]
  BY PositionType DEF Stands
<1> QED
  BY <1>1 DEF Position

(* The user is at the root, or came from somewhere.                              *)
LEMMA HereHasParent == MInv => here = Root \/ pParentMenu[here] # NoMenu
<1> SUFFICES ASSUME MInv PROVE here = Root \/ pParentMenu[here] # NoMenu
  OBVIOUS
<1>1. /\ path \in Seq(Menus) /\ Len(path) \in Nat \ {0} /\ here = path[Len(path)]
      /\ path[1] = Root
      /\ \A k \in 2 .. Len(path) : pParentMenu[path[k]] = path[k - 1]
  BY DEF MInv, MenuTypeOK, ParentsArePath
<1>2. CASE Len(path) = 1
  BY <1>1, <1>2
<1>3. CASE Len(path) # 1
  <2>1. \A x \in Nat \ {0} : x # 1 => x \in 2 .. x /\ x - 1 \in 1 .. x
    OBVIOUS
  <2>2. Len(path) \in 2 .. Len(path) /\ Len(path) - 1 \in 1 .. Len(path)
    BY <1>1, <1>3, <2>1
  <2>3. pParentMenu[here] = path[Len(path) - 1] /\ path[Len(path) - 1] \in Menus
    BY <1>1, <2>2, ElementOfSeq
  <2> QED
    BY <2>3, NotNull
<1> QED
  BY <1>2, <1>3

(* The keys within a menu change its position and nothing else.                  *)
LEMMA KeyKeeps ==
  ASSUME MInv, NEW p, Stands(here, p), at' = [at EXCEPT ![here] = p],
         UNCHANGED <<here, nSelectedItem, pParentMenu, path>>
  PROVE  MInv'
<1>1. here \in Menus /\ at \in [Menus -> Position]
  BY DEF MInv, MenuTypeOK
<1>2. p \in Position
  BY <1>1, StandsType
<1>3. MenuTypeOK'
  BY <1>1, <1>2 DEF MInv, MenuTypeOK
<1>4. \A m \in Menus : Stands(m, at[m]')
  BY <1>1 DEF MInv
<1>5. (\A m \in Menus : Stands(m, at[m]))'
  BY <1>4 DEF Stands
<1>6. ParentsArePath' /\ Upwards'
  BY DEF MInv, ParentsArePath, Upwards
<1> QED
  BY <1>3, <1>5, <1>6 DEF MInv

LEMMA EnterKeeps == MInv /\ menuEnter => MInv'
<1> SUFFICES ASSUME MInv, menuEnter PROVE MInv'
  OBVIOUS
<1> DEFINE item == at[here].item  sub == pSubMenu[here][item]
<1>1. /\ here \in Menus /\ at' = at /\ item \in Enabled(here) /\ item \in Items(here)
      /\ nSelectedItem \in [Menus -> Int] /\ item \in Int
  <2>1. here \in Menus /\ Stands(here, at[here])
    BY DEF MInv, MenuTypeOK
  <2> QED
    BY <2>1, MenuTypes DEF MInv, MenuTypeOK, menuEnter, Stands
<1>2. /\ nSelectedItem' = [nSelectedItem EXCEPT ![here] = IF @ > -1 THEN item ELSE @]
      /\ \/ sub # NoMenu /\ Open(sub)
         \/ UNCHANGED <<here, pParentMenu, path>>
  BY DEF menuEnter
<1> HIDE DEF item
<1>3. nSelectedItem' \in [Menus -> Int]
  BY <1>1, <1>2
<1>4. (\A m \in Menus : nSelectedItem[m] \in Enabled(m) \cup {-1, -2})'
  <2> SUFFICES ASSUME NEW m \in Menus PROVE nSelectedItem'[m] \in Enabled(m) \cup {-1, -2}
    BY DEF Enabled, Items
  <2>1. nSelectedItem'[m] = nSelectedItem[m] \/ (m = here /\ nSelectedItem'[m] = item)
    BY <1>1, <1>2
  <2> QED
    BY <1>1, <2>1 DEF MInv
<1>5. (\A m \in Menus : Stands(m, at[m]))'
  BY <1>1 DEF MInv, Stands
<1>6. CASE UNCHANGED <<here, pParentMenu, path>>
  <2>1. MenuTypeOK'
    BY <1>1, <1>3, <1>6 DEF MInv, MenuTypeOK
  <2>2. ParentsArePath' /\ Upwards'
    BY <1>6 DEF MInv, ParentsArePath, Upwards
  <2> QED
    BY <1>4, <1>5, <1>6, <2>1, <2>2 DEF MInv
<1>7. CASE sub # NoMenu /\ Open(sub)
  <2>1. /\ sub \in Menus /\ Depth[sub] > Depth[here] /\ Depth \in [Menus -> Nat]
    BY <1>1, <1>7, MenuAssumption, DepthType
  <2> HIDE DEF sub
  <2>2. /\ here' = sub /\ pParentMenu' = [pParentMenu EXCEPT ![sub] = here]
        /\ path' = Append(path, sub)
    BY <1>7 DEF Open
  <2>3. /\ path \in Seq(Menus) /\ Len(path) \in Nat \ {0} /\ here = path[Len(path)]
        /\ path[1] = Root /\ pParentMenu[Root] = NoMenu
        /\ pParentMenu \in [Menus -> Menus \cup {NoMenu}]
        /\ \A k \in 2 .. Len(path) : pParentMenu[path[k]] = path[k - 1]
        /\ \A j, k \in 1 .. Len(path) : j < k => Depth[path[j]] < Depth[path[k]]
    BY DEF MInv, MenuTypeOK, ParentsArePath
  <2> DEFINE n == Len(path)
  <2>4. /\ path' \in Seq(Menus) /\ Len(path') = n + 1 /\ path'[n + 1] = sub
        /\ \A k \in 1 .. n : path'[k] = path[k] /\ path[k] \in Menus
    BY <2>1, <2>2, <2>3, AppendProperties, ElementOfSeq
  <2>5. MenuTypeOK'
    BY <1>1, <1>3, <2>1, <2>2, <2>3, <2>4 DEF MInv, MenuTypeOK
  <2>6. \A k \in 1 .. n : Depth[path[k]] <= Depth[here] /\ path[k] # sub
    <3> SUFFICES ASSUME NEW k \in 1 .. n PROVE Depth[path[k]] <= Depth[here] /\ path[k] # sub
      OBVIOUS
    <3>1. path[k] \in Menus /\ n \in 1 .. n /\ n \in Nat
      BY <2>3, <2>4
    <3>2. k < n => Depth[path[k]] < Depth[here]
      BY <2>3, <3>1
    <3>3. k = n => Depth[path[k]] = Depth[here]
      BY <2>3
    <3>4. k < n \/ k = n
      BY <3>1
    <3>5. Depth[path[k]] \in Nat /\ Depth[here] \in Nat /\ Depth[sub] \in Nat
      BY <1>1, <2>1, <3>1
    <3> QED
      BY <2>1, <3>2, <3>3, <3>4, <3>5
  <2>7. (\A j, k \in 1 .. Len(path) : j < k => Depth[path[j]] < Depth[path[k]])'
    <3> SUFFICES ASSUME NEW j \in 1 .. n + 1, NEW k \in 1 .. n + 1, j < k
                 PROVE  Depth[path'[j]] < Depth[path'[k]]
      BY <2>4 DEF Depth, Items
    <3>1. j \in 1 .. n
      BY <2>3
    <3>2. CASE k \in 1 .. n
      BY <2>3, <2>4, <3>1, <3>2
    <3>3. CASE k = n + 1
      <4>1. path[j] \in Menus /\ Depth[path[j]] <= Depth[here]
        BY <2>4, <2>6, <3>1
      <4>2. Depth[path[j]] \in Nat /\ Depth[here] \in Nat /\ Depth[sub] \in Nat
        BY <1>1, <2>1, <4>1
      <4> QED
        BY <2>1, <2>4, <3>1, <3>3, <4>1, <4>2
    <3> QED
      BY <2>3, <3>2, <3>3
  <2>8. ParentsArePath'
    <3>1. here' = path'[Len(path')] /\ path'[1] = Root
      <4>1. 1 \in 1 .. n
        BY <2>3
      <4> QED
        BY <2>2, <2>3, <2>4, <4>1
    <3>2. pParentMenu'[Root] = NoMenu
      <4>1. 1 \in 1 .. n
        BY <2>3
      <4>2. Root # sub
        BY <2>3, <2>6, <4>1
      <4> QED
        BY <2>2, <2>3, <4>2
    <3>3. \A k \in 2 .. n + 1 : pParentMenu'[path'[k]] = path'[k - 1]
      <4> SUFFICES ASSUME NEW k \in 2 .. n + 1 PROVE pParentMenu'[path'[k]] = path'[k - 1]
        OBVIOUS
      <4>1. k - 1 \in 1 .. n /\ n \in Nat
        BY <2>3
      <4>2. CASE k = n + 1
        <5>1. k - 1 = n
          BY <4>1, <4>2
        <5> QED
          BY <2>1, <2>2, <2>3, <2>4, <4>1, <4>2, <5>1
      <4>3. CASE k # n + 1
        <5>1. k \in 2 .. n /\ k \in 1 .. n
          BY <4>1, <4>3
        <5> QED
          BY <2>2, <2>3, <2>4, <2>6, <4>1, <5>1
      <4> QED
        BY <4>2, <4>3
    <3> QED
      BY <2>4, <3>1, <3>2, <3>3 DEF ParentsArePath
  <2>9. here = Root \/ pParentMenu[here] # NoMenu
    BY HereHasParent
  <2>10. Upwards'
    <3> SUFFICES ASSUME NEW m \in Menus, pParentMenu'[m] # NoMenu
                 PROVE  /\ Depth[pParentMenu'[m]] < Depth[m]
                        /\ pParentMenu'[m] = Root \/ pParentMenu'[pParentMenu'[m]] # NoMenu
      BY DEF Upwards, Depth, Items
    <3>1. CASE m = sub
      <4>1. pParentMenu'[m] = here
        BY <2>1, <2>2, <2>3, <3>1
      <4>2. pParentMenu'[here] = pParentMenu[here] \/ pParentMenu'[here] = here
        BY <1>1, <2>2, <2>3
      <4> QED
        BY <1>1, <2>1, <2>9, <3>1, <4>1, <4>2, NotNull
    <3>2. CASE m # sub
      <4>1. pParentMenu'[m] = pParentMenu[m]
        BY <2>2, <2>3, <3>2
      <4>2. /\ Depth[pParentMenu[m]] < Depth[m]
            /\ pParentMenu[m] = Root \/ pParentMenu[pParentMenu[m]] # NoMenu
        BY <4>1 DEF MInv, Upwards
      <4>3. pParentMenu[m] \in Menus
        BY <2>3, <4>1
      <4>4. pParentMenu[pParentMenu[m]] # NoMenu => pParentMenu'[pParentMenu[m]] # NoMenu
        BY <1>1, <2>2, <2>3, <4>3, NotNull
      <4> QED
        BY <4>1, <4>2, <4>4
    <3> QED
      BY <3>1, <3>2
  <2> QED
    BY <1>4, <1>5, <2>5, <2>7, <2>8, <2>10 DEF MInv
<1> QED
  BY <1>2, <1>6, <1>7

LEMMA BackKeeps == MInv /\ menuBack => MInv'
<1> SUFFICES ASSUME MInv, menuBack PROVE MInv'
  OBVIOUS
<1>1. /\ pParentMenu[here] # NoMenu /\ here' = pParentMenu[here]
      /\ at' = [at EXCEPT ![here] = Reset(here)]
      /\ path' = SubSeq(path, 1, Len(path) - 1)
      /\ UNCHANGED <<nSelectedItem, pParentMenu>>
  BY DEF menuBack
<1>2. /\ here \in Menus /\ at \in [Menus -> Position]
      /\ path \in Seq(Menus) /\ Len(path) \in Nat \ {0} /\ here = path[Len(path)]
      /\ path[1] = Root /\ pParentMenu[Root] = NoMenu
      /\ pParentMenu \in [Menus -> Menus \cup {NoMenu}]
      /\ \A k \in 2 .. Len(path) : pParentMenu[path[k]] = path[k - 1]
  BY DEF MInv, MenuTypeOK, ParentsArePath
<1> DEFINE n == Len(path)
<1>3. n \in Nat /\ n >= 2
  <2>1. n # 1
    BY <1>1, <1>2
  <2>2. \A x \in Nat \ {0} : x # 1 => x >= 2
    OBVIOUS
  <2> QED
    BY <1>2, <2>1, <2>2
<1>4. n - 1 \in Nat \ {0} /\ n \in 2 .. n /\ 1 \in 1 .. n - 1 /\ n - 1 \in 1 .. n - 1
  <2>1. \A x \in Nat :
          x >= 2 => x - 1 \in Nat \ {0} /\ x \in 2 .. x /\ 1 \in 1 .. x - 1 /\ x - 1 \in 1 .. x - 1
    OBVIOUS
  <2> HIDE DEF n
  <2>2. QED
    BY <1>3, <2>1
<1>5. /\ path' \in Seq(Menus) /\ Len(path') = n - 1
      /\ \A k \in 1 .. n - 1 : path'[k] = path[k]
  <2>1. n - 1 \in 0 .. Len(path)
    BY <1>3
  <2> QED
    BY <1>1, <1>2, <2>1, Front
<1>6. Stands(here, Reset(here)) /\ Reset(here) \in Position
  <2>1. Stands(here, at[here]) /\ nSelectedItem[here] \in Enabled(here) \cup {-1, -2}
    BY <1>2 DEF MInv
  <2>2. CASE nSelectedItem[here] = -1
    <3>1. Reset(here) = menuPositionTop(here, at[here])
      BY <2>2 DEF Reset
    <3> QED
      BY <1>2, <2>1, <3>1, TopKeeps, StandsType
  <2>3. CASE nSelectedItem[here] = -2
    <3>1. Reset(here) = at[here]
      BY <2>3 DEF Reset
    <3> QED
      BY <1>2, <2>1, <3>1
  <2>4. CASE nSelectedItem[here] \in Enabled(here)
    <3> DEFINE i == nSelectedItem[here]
    <3>1. i \in Nat /\ i \in Items(here) /\ i \in Enabled(here)
      BY <1>2, <2>4, MenuTypes
    <3> HIDE DEF i
    <3>2. i # -1 /\ i # -2
      BY <3>1
    <3>3. Reset(here) = [item |-> i, screen |-> menuGetScreen(i)]
      BY <3>2 DEF Reset, i
    <3>4. menuGetScreen(i) \in 0 .. LastScreen(here)
      BY <1>2, <3>1, LastIsLast
    <3>5. Stands(here, Reset(here))
      BY <3>1, <3>3, <3>4 DEF Stands, Positions
    <3> QED
      BY <1>2, <3>5, StandsType
  <2> QED
    BY <2>1, <2>2, <2>3, <2>4
<1>7. here' = path'[Len(path')] /\ here' \in Menus
  <2>1. pParentMenu[here] = path[n - 1] /\ path[n - 1] = path'[n - 1]
    BY <1>2, <1>4, <1>5
  <2> QED
    BY <1>1, <1>2, <1>5, <2>1
<1>8. MenuTypeOK'
  BY <1>1, <1>2, <1>4, <1>5, <1>6, <1>7 DEF MInv, MenuTypeOK
<1>9. (\A m \in Menus : Stands(m, at[m]))'
  <2>1. \A m \in Menus : Stands(m, at'[m])
    BY <1>1, <1>2, <1>6 DEF MInv
  <2> QED
    BY <2>1 DEF Stands
<1>10. ParentsArePath'
  <2>1. path'[1] = Root
    BY <1>2, <1>4, <1>5
  <2>2. \A k \in 2 .. n - 1 : pParentMenu'[path'[k]] = path'[k - 1]
    <3> SUFFICES ASSUME NEW k \in 2 .. n - 1 PROVE pParentMenu'[path'[k]] = path'[k - 1]
      OBVIOUS
    <3>1. k \in 1 .. n - 1 /\ k - 1 \in 1 .. n - 1 /\ k \in 2 .. n
      BY <1>3
    <3> QED
      BY <1>1, <1>2, <1>5, <3>1
  <2> QED
    BY <1>1, <1>2, <1>5, <1>7, <2>1, <2>2 DEF ParentsArePath
<1>11. Upwards'
  BY <1>1 DEF MInv, Upwards
<1>12. (\A j, k \in 1 .. Len(path) : j < k => Depth[path[j]] < Depth[path[k]])'
  <2> SUFFICES ASSUME NEW j \in 1 .. n - 1, NEW k \in 1 .. n - 1, j < k
               PROVE  Depth[path'[j]] < Depth[path'[k]]
    BY <1>5
  <2>1. j \in 1 .. n /\ k \in 1 .. n
    BY <1>3
  <2> QED
    BY <1>5, <2>1 DEF MInv
<1> QED
  BY <1>1, <1>8, <1>9, <1>10, <1>11, <1>12 DEF MInv

(* Following the parents leads to the root from every menu that has one.         *)
LEMMA TopKeys == MInv /\ menuTop => MInv'
<1> SUFFICES ASSUME MInv, menuTop PROVE MInv'
  OBVIOUS
<1> DEFINE E(f, m) == IF pParentMenu[m] = NoMenu THEN m ELSE f[pParentMenu[m]]
           IsTop(f) == f = [m \in Menus |-> E(f, m)]
           top == CHOOSE f : IsTop(f)
           g == [m \in Menus |-> IF pParentMenu[m] = NoMenu THEN m ELSE Root]
<1>1. /\ here' = top[here] /\ path' = <<Root>>
      /\ UNCHANGED <<at, nSelectedItem, pParentMenu>>
  BY DEF menuTop
<1>2. /\ here \in Menus /\ Root \in Menus /\ NoMenu \notin Menus
      /\ pParentMenu \in [Menus -> Menus \cup {NoMenu}]
      /\ pParentMenu[Root] = NoMenu
  BY MenuAssumption DEF MInv, MenuTypeOK, ParentsArePath
<1>3. IsTop(g)
  <2>1. ASSUME NEW m \in Menus PROVE g[m] = E(g, m)
    <3>1. CASE pParentMenu[m] = NoMenu
      BY <3>1
    <3>2. CASE pParentMenu[m] # NoMenu
      <4>1. pParentMenu[m] \in Menus
        BY <1>2, <3>2
      <4>2. pParentMenu[m] = Root \/ pParentMenu[pParentMenu[m]] # NoMenu
        BY <3>2 DEF MInv, Upwards
      <4>3. g[pParentMenu[m]] = Root
        BY <1>2, <4>1, <4>2
      <4> QED
        BY <3>2, <4>3
    <3> QED
      BY <3>1, <3>2
  <2> QED
    BY <2>1
<1>4. IsTop(top)
  BY <1>3
<1> HIDE DEF top
<1>5. \A m \in Menus : top[m] = E(top, m)
  BY <1>4
<1> HIDE DEF IsTop
<1>6. \A m \in Menus : top[m] = g[m]
  <2> DEFINE Bad(k) == \E m \in Menus : Depth[m] = k /\ top[m] # g[m]
             T == {k \in Nat : Bad(k)}
  <2>1. T = {}
    <3> SUFFICES ASSUME T # {} PROVE FALSE
      OBVIOUS
    <3>1. PICK k \in T : \A j \in T : k <= j
      <4>1. T \in SUBSET Nat
        OBVIOUS
      <4> HIDE DEF T
      <4> QED
        BY <4>1, Least
    <3>2. PICK m \in Menus : Depth[m] = k /\ top[m] # g[m]
      OBVIOUS
    <3>3. pParentMenu[m] # NoMenu
      BY <1>5, <3>2
    <3>4. pParentMenu[m] \in Menus /\ Depth[pParentMenu[m]] < k
      BY <1>2, <3>2, <3>3 DEF MInv, Upwards
    <3>5. top[m] = top[pParentMenu[m]] /\ g[m] = Root
      BY <1>5, <3>3
    <3>6. g[pParentMenu[m]] = Root
      BY <1>2, <3>3, <3>4 DEF MInv, Upwards
    <3>7. Depth[pParentMenu[m]] \in Nat
      BY <3>4, DepthType
    <3>8. Depth[pParentMenu[m]] \in T
      BY <3>2, <3>4, <3>5, <3>6, <3>7
    <3> QED
      BY <3>1, <3>4, <3>7, <3>8
  <2> QED
    <3> SUFFICES ASSUME NEW m \in Menus, top[m] # g[m] PROVE FALSE
      OBVIOUS
    <3>1. Depth[m] \in T
      BY DepthType
    <3> QED
      BY <2>1, <3>1
<1>7. here' = Root
  <2>1. here = Root \/ pParentMenu[here] # NoMenu
    BY HereHasParent
  <2> QED
    BY <1>1, <1>2, <1>6, <2>1
<1>8. path' \in Seq(Menus) /\ Len(path') = 1 /\ path'[1] = Root
  BY <1>1, <1>2
<1>9. MenuTypeOK'
  BY <1>1, <1>2, <1>7, <1>8 DEF MInv, MenuTypeOK
<1>10. ParentsArePath' /\ Upwards'
  BY <1>1, <1>2, <1>7, <1>8 DEF MInv, ParentsArePath, Upwards
<1>11. (\A j, k \in 1 .. Len(path) : j < k => Depth[path[j]] < Depth[path[k]])'
  BY <1>8
<1>12. (\A m \in Menus : Stands(m, at[m]))'
  BY <1>1 DEF MInv, Stands
<1> QED
  BY <1>1, <1>9, <1>10, <1>11, <1>12 DEF MInv

LEMMA MenuStep == MInv /\ [Next]_vars => MInv'
<1> SUFFICES ASSUME MInv, [Next]_vars PROVE MInv'
  OBVIOUS
<1>1. here \in Menus /\ Stands(here, at[here]) /\ at[here] \in Positions(here)
      /\ at \in [Menus -> Position]
  BY DEF MInv, MenuTypeOK, Stands
<1>2. CASE menuUp
  <2>1. at' = [at EXCEPT ![here] = UpFrom(here, at[here])]
    BY <1>1, <1>2 DEF menuUp
  <2>2. Stands(here, UpFrom(here, at[here]))
    BY <1>1, UpKeeps
  <2> QED
    BY <1>2, <2>1, <2>2, KeyKeeps DEF menuUp
<1>3. CASE menuDown
  <2>1. at' = [at EXCEPT ![here] = DownFrom(here, at[here])]
    BY <1>1, <1>3 DEF menuDown
  <2>2. Stands(here, DownFrom(here, at[here]))
    BY <1>1, DownKeeps
  <2> QED
    BY <1>3, <2>1, <2>2, KeyKeeps DEF menuDown
<1>4. CASE UNCHANGED vars
  BY <1>4 DEF vars, MInv, MenuTypeOK, Stands, ParentsArePath, Upwards
<1> QED
  BY <1>2, <1>3, <1>4, EnterKeeps, BackKeeps, TopKeys DEF Next

LEMMA MenusRight == MInv => StandsOnStop /\ ParentsArePath
<1> SUFFICES ASSUME MInv, NEW m \in Menus
             PROVE  at[m].item \in Enabled(m) /\ StopOf(at[m]) \in Stops(m)
  BY DEF MInv, StandsOnStop
<1> DEFINE p == at[m]
<1>1. Stands(m, p)
  BY DEF MInv
<1> HIDE DEF p
<1>2. /\ p.item \in Enabled(m) /\ p.item \in Nat
      /\ p.screen \in 0 .. LastScreen(m) /\ LastScreen(m) \in Nat
  BY <1>1, PositionType DEF Stands
<1>3. CASE menuGetScreen(p.item) = p.screen
  BY <1>2, <1>3 DEF StopOf, Stops, p
<1>4. CASE menuGetScreen(p.item) # p.screen
  <2>1. \A i \in Enabled(m) : menuGetScreen(i) # p.screen
    <3> SUFFICES ASSUME NEW i \in Enabled(m) PROVE menuGetScreen(i) # p.screen
      OBVIOUS
    <3>1. i \in Nat /\ menuGetScreen(i) \in Nat /\ menuGetScreen(p.item) \in Nat
      BY <1>2, MenuTypes, ScreenType
    <3>2. i <= p.item => menuGetScreen(i) <= menuGetScreen(p.item)
      BY <1>2, <3>1, ScreensRise
    <3>3. i >= p.item => menuGetScreen(i) >= menuGetScreen(p.item)
      BY <1>2, <3>1, ScreensRise
    <3> QED
      BY <1>1, <1>2, <1>4, <3>1, <3>2, <3>3 DEF Stands
  <2>2. StopOf(p) = [screen |-> p.screen, item |-> -1]
    BY <1>4 DEF StopOf
  <2>3. p.screen \in {t \in 0 .. LastScreen(m) : \A i \in Enabled(m) : menuGetScreen(i) # t}
    BY <1>2, <2>1
  <2> QED
    BY <1>2, <2>2, <2>3 DEF Stops, p
<1> QED
  BY <1>3, <1>4

(* Whatever keys are pressed, each menu stands where the display can show it,    *)
(* on an enabled item or on a screen that has none, and each menu's parent is    *)
(* the one it was entered from, for any menus in which no menu opens one it was  *)
(* opened from: util_menu_system.c.                                              *)
THEOREM MenusAlwaysLead == MCSpec => []MenusLead
<1>1. MCInit => MInv
  BY MenuInit DEF MCInit
<1>2. [MCNext]_<<which, drivers>> => [Next]_vars
  <2>1. UNCHANGED drivers => UNCHANGED vars
    BY DEF drivers
  <2> QED
    BY <2>1 DEF MCNext
<1>3. MInv /\ [MCNext]_<<which, drivers>> => MInv'
  BY <1>2, MenuStep
<1>4. MInv => MenusLead
  BY MenusRight DEF MenusLead
<1> QED
  BY <1>1, <1>3, <1>4, PTL DEF MCSpec
=============================================================================
