-------------------------------- MODULE Monitor -------------------------------
(* The Android monitor of the BLE temperature beacons (DeviceScanActivity.java,  *)
(* DataSender.java): the activity with its scan and its list of devices, the     *)
(* queue of the UI thread to which the Bluetooth thread posts each packet, and   *)
(* the thread of each activity that uploads measurements.  A packet is reduced   *)
(* to its device and its sequence number.  An activity that the system destroys  *)
(* (a rotation) leaves its thread, its posted packets and a scan behind.         *)
EXTENDS Integers, Sequences, SequencesExt

CONSTANTS Activities,   \* the instances the system may create, one after the other
          Sensors,      \* beacons of this project
          Strangers,    \* other devices, whose packets have no CAFE in them
          SeqLimit,     \* sequence numbers (256)
          MaxPosted,    \* bound: posted packets at which all devices wait
          MaxQueue      \* bound: what an upload queue may hold

ASSUME MonitorAssumption ==
    /\ SeqLimit \in Nat \ {0, 1} /\ MaxPosted \in Nat /\ MaxQueue \in Nat
    /\ Sensors \cap Strangers = {}

VARIABLES bluetooth,    \* the adapter is enabled
          seqn,         \* the sequence number each beacon sends
          posted,       \* Runnables posted to the UI thread
          act           \* the activities

vars == <<bluetooth, seqn, posted, act>>

Numbers == 0..SeqLimit - 1

(* scan: the adapter scans for this activity; last: what its thread has just     *)
(* tried to upload, "in hand" while it does.                                     *)
NotCreated == [life |-> "none", dialog |-> FALSE, mScanning |-> FALSE, scan |-> FALSE,
               list |-> << >>, mPacketSeq |-> SeqLimit - 1,
               mDataQueue |-> <<>>, thread |-> "none", last |-> <<>>]

Init == /\ bluetooth \in BOOLEAN
        /\ seqn = [s \in Sensors |-> 0]
        /\ posted = <<>>
        /\ act = [a \in Activities |-> NotCreated]

InFront(a) == act[a].life \in {"resumed", "paused"}

(* The constructor of DataSender starts its thread.                              *)
onCreate(a) ==
    /\ act[a].life = "none"
    /\ \A b \in Activities : ~InFront(b)
    /\ act' = [act EXCEPT ![a] = [NotCreated EXCEPT !.life = "paused", !.thread = "take"]]
    /\ UNCHANGED <<bluetooth, seqn, posted>>

(* onDestroy is not overridden: nothing is stopped.                              *)
onDestroy(a) ==
    /\ act[a].life = "paused" /\ ~act[a].dialog
    /\ act' = [act EXCEPT ![a].life = "gone"]
    /\ UNCHANGED <<bluetooth, seqn, posted>>

(* scanLeDevice(TRUE); the adapter refuses when it is not enabled.               *)
ScanOn(i) == [i EXCEPT !.list = << >>, !.mScanning = TRUE, !.scan = @ \/ bluetooth]

ScanOff(i) == [i EXCEPT !.mScanning = FALSE, !.scan = FALSE]

(* The dialog it asks for when Bluetooth is off pauses the activity.             *)
onResume(a) ==
    /\ act[a].life = "paused" /\ ~act[a].dialog
    /\ act' = [act EXCEPT ![a] = [ScanOn(@) EXCEPT !.life = "resumed",
                                                   !.dialog = ~bluetooth]]
    /\ UNCHANGED <<bluetooth, seqn, posted>>

onPause(a) ==
    /\ act[a].life = "resumed"
    /\ act' = [act EXCEPT ![a] = [ScanOff(@) EXCEPT !.life = "paused", !.list = << >>]]
    /\ UNCHANGED <<bluetooth, seqn, posted>>

onActivityResult(a) ==
    /\ act[a].life = "paused" /\ act[a].dialog
    /\ \/ bluetooth' = TRUE /\ act' = [act EXCEPT ![a].dialog = FALSE]
       \/ /\ act' = [act EXCEPT ![a].dialog = FALSE, ![a].life = "gone"]
          /\ UNCHANGED bluetooth
    /\ UNCHANGED <<seqn, posted>>

(* The menu offers the one that is not the case.                                 *)
onOptionsItemSelected(a) ==
    /\ act[a].life = "resumed" /\ ~act[a].dialog
    /\ act' = [act EXCEPT ![a] = IF @.mScanning THEN ScanOff(@) ELSE ScanOn(@)]
    /\ UNCHANGED <<bluetooth, seqn, posted>>

------------------------------------------------------------------------------
(* Packets.                                                                      *)

(* temp_sensor_task: ++seqn, one byte                                            *)
Measures(s) ==
    /\ Len(posted) < MaxPosted
    /\ seqn' = [seqn EXCEPT ![s] = (@ + 1) % SeqLimit]
    /\ UNCHANGED <<bluetooth, posted, act>>

(* The Bluetooth thread hears a packet and posts it.                             *)
onLeScan(a, d) ==
    /\ act[a].scan /\ bluetooth
    /\ Len(posted) < MaxPosted
    /\ posted' = Append(posted, [act |-> a, dev |-> d,
                                 seqn |-> IF d \in Sensors THEN seqn[d] ELSE 0])
    /\ UNCHANGED <<bluetooth, seqn, act>>

RestartScan_stop(i) == [i EXCEPT !.scan = FALSE]

(* Stops the scan and starts it, whether or not the user has stopped it since.   *)
RestartScan(i) == [i EXCEPT !.scan = bluetooth]

updateDevice(i, p) ==
    [i EXCEPT !.list = [d \in DOMAIN @ \cup {p.dev} |-> IF d = p.dev THEN p.seqn ELSE @[d]]]

sendDataToServer(i, p) == [i EXCEPT !.mDataQueue = Append(@, p.seqn)]

(* run() of the posted Runnable, of which the packet is one of a beacon: one     *)
(* mPacketSeq for all of them.                                                   *)
Process_always(i, p) ==
    [sendDataToServer(updateDevice(i, p), p) EXCEPT !.mPacketSeq = p.seqn]
Process_before(i, p) ==
    LET shown == [updateDevice(i, p) EXCEPT !.mPacketSeq = p.seqn]
    IN  IF p.seqn # shown.mPacketSeq THEN sendDataToServer(shown, p) ELSE shown
Process(i, p) ==
    LET shown == updateDevice(i, p)
        sent == IF p.seqn # i.mPacketSeq THEN sendDataToServer(shown, p) ELSE shown
    IN  [sent EXCEPT !.mPacketSeq = p.seqn]

IsTemperature(p) == p.dev \in Sensors   \* parsed, with the manufacturer's id

RunPosted ==
    /\ posted # <<>>
    /\ LET p == Head(posted)
           i == RestartScan(act[p.act])
       IN  /\ Len(i.mDataQueue) < MaxQueue
           /\ act' = [act EXCEPT ![p.act] = IF IsTemperature(p) THEN Process(i, p) ELSE i]
    /\ posted' = Tail(posted)
    /\ UNCHANGED <<bluetooth, seqn>>

------------------------------------------------------------------------------
(* The thread of an activity.                                                    *)

Take(a) ==
    /\ act[a].thread = "take"
    /\ act[a].mDataQueue # <<>>
    /\ act' = [act EXCEPT ![a].thread = "send", ![a].last = <<Head(act[a].mDataQueue)>>,
                          ![a].mDataQueue = Tail(@)]
    /\ UNCHANGED <<bluetooth, seqn, posted>>

(* An exception (no connection, a status other than OK) is waited out; the item  *)
(* is gone.                                                                      *)
AfterError == {"sleep"}

Uploaded(a) ==
    /\ act[a].thread = "send"
    /\ \E t \in {"take"} \cup AfterError : act' = [act EXCEPT ![a].thread = t]
    /\ UNCHANGED <<bluetooth, seqn, posted>>

Slept(a) ==
    /\ act[a].thread = "sleep"
    /\ act' = [act EXCEPT ![a].thread = "take"]
    /\ UNCHANGED <<bluetooth, seqn, posted>>

------------------------------------------------------------------------------
User(a) == \/ onCreate(a) \/ onDestroy(a) \/ onResume(a) \/ onPause(a)
           \/ onActivityResult(a) \/ onOptionsItemSelected(a)

Thread(a) == Take(a) \/ Uploaded(a) \/ Slept(a)

Next == \/ \E a \in Activities : User(a) \/ Thread(a)
        \/ \E s \in Sensors : Measures(s)
        \/ \E a \in Activities, d \in Sensors \cup Strangers : onLeScan(a, d)
        \/ RunPosted

(* A beacon whose number is new to the activity is heard again and again while   *)
(* the adapter scans.                                                            *)
News(a, s) == onLeScan(a, s) /\ seqn[s] # act[a].mPacketSeq

Fairness ==
    /\ WF_vars(RunPosted)
    /\ \A a \in Activities : WF_vars(Thread(a))
    /\ \A s \in Sensors : SF_vars(Measures(s))
    /\ \A a \in Activities, s \in Sensors : SF_vars(News(a, s))

Spec == Init /\ [][Next]_vars /\ Fairness

------------------------------------------------------------------------------
(* Every variable has its type; the list has no devices but beacons.             *)
TypeOK ==
    /\ bluetooth \in BOOLEAN
    /\ seqn \in [Sensors -> Numbers]
    /\ \A k \in DOMAIN posted : posted[k] \in [act : Activities,
                                    dev : Sensors \cup Strangers, seqn : Numbers]
    /\ Len(posted) <= MaxPosted
    /\ \A a \in Activities :
         /\ act[a].life \in {"none", "resumed", "paused", "gone"}
         /\ {act[a].dialog, act[a].mScanning, act[a].scan} \subseteq BOOLEAN
         /\ DOMAIN act[a].list \subseteq Sensors
         /\ \A s \in DOMAIN act[a].list : act[a].list[s] \in Numbers
         /\ act[a].mPacketSeq \in Numbers
         /\ Len(act[a].mDataQueue) <= MaxQueue
         /\ act[a].thread \in {"none", "take", "send", "sleep"}

(* What the thread of an activity has tried to upload last and what it still has *)
(* to try.                                                                       *)
Stream(a) == act[a].last \o act[a].mDataQueue

(* With one beacon: an activity never uploads a measurement twice, however often *)
(* the beacon repeats it and whatever pauses, rotations and failed uploads come  *)
(* between.                                                                      *)
NoRepeat ==
    \A a \in Activities : \A k \in 1..Len(Stream(a)) - 1 : Stream(a)[k] # Stream(a)[k + 1]

(* With one beacon: the measurement on the screen is the newest that was, or     *)
(* will be, uploaded; but for the number 255, with which the comparison starts.  *)
ShownIsSent ==
    \A a \in Activities : \A s \in DOMAIN act[a].list :
        \/ Stream(a) # <<>> /\ Last(Stream(a)) = act[a].list[s]
        \/ Stream(a) = <<>> /\ act[a].list[s] = SeqLimit - 1

ListIsRight == TypeOK /\ ShownIsSent

(* While an activity scans, measurements are uploaded for ever: neither failed   *)
(* uploads nor the restart of the scan by each packet, also by a stranger's and  *)
(* by an older activity's, end it.                                               *)
UploadsForEver ==
    \A a \in Activities :
        <>[](act[a].mScanning /\ bluetooth) => []<><<Take(a)>>_vars

==============================================================================
