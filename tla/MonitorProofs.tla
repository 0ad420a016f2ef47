---------------------------- MODULE MonitorProofs ----------------------------
(* Theorems about the two monitors: about Monitor, for any number of activities, *)
(* of posted packets and of measurements that wait; and about PowerMonitor, for  *)
(* any miners, any length of the wait and any number of polls under way.         *)
EXTENDS Monitor, PowerMonitor, SequenceTheorems, TLAPS

Packets == [act : Activities, dev : Sensors \cup Strangers, seqn : Numbers]

Lists == UNION {[shown -> Numbers] : shown \in SUBSET Sensors}

ActivityType ==
  [life : {"none", "resumed", "paused", "gone"},
   dialog : BOOLEAN, mScanning : BOOLEAN, scan : BOOLEAN,
   list : Lists, mPacketSeq : Numbers,
   mDataQueue : Seq(Numbers), thread : {"none", "take", "send", "sleep"},
   last : Seq(Numbers)]

Types ==
  /\ bluetooth \in BOOLEAN
  /\ seqn \in [Sensors -> Numbers]
  /\ posted \in Seq(Packets) /\ Len(posted) <= MaxPosted
  /\ act \in [Activities -> ActivityType]
  /\ \A a \in Activities : Len(act[a].mDataQueue) <= MaxQueue

StreamOf(i) == i.last \o i.mDataQueue

(* What an activity compares a packet with is what it has sent last, from the    *)
(* first packet on: each of its three updates of the two is one step.            *)
Compares(i) ==
  /\ StreamOf(i) # <<>> => StreamOf(i)[Len(StreamOf(i))] = i.mPacketSeq
  /\ StreamOf(i) = <<>> => i.mPacketSeq = SeqLimit - 1
  /\ \A k \in 1 .. Len(StreamOf(i)) - 1 : StreamOf(i)[k] # StreamOf(i)[k + 1]

(* With one beacon, the list has the number the activity compares with.          *)
ListAgrees(i) == \A s \in DOMAIN i.list : i.list[s] = i.mPacketSeq

MInv == Types /\ \A a \in Activities : Compares(act[a])
LInv == \A a \in Activities : ListAgrees(act[a])

USE MonitorAssumption

------------------------------------------------------------------------------
(* Activities.                                                                   *)

(* A change that touches neither what is sent nor what it is compared with, and  *)
(* the list only to empty it.                                                    *)
Keeps(i, j) ==
  /\ j.last = i.last /\ j.mDataQueue = i.mDataQueue /\ j.mPacketSeq = i.mPacketSeq
  /\ j.list = i.list \/ j.list = << >>

LEMMA NumberType == SeqLimit - 1 \in Numbers /\ 0 \in Numbers
  BY DEF Numbers

LEMMA NoList == << >> \in Lists /\ \A s : s \notin DOMAIN << >>
<1>1. << >> \in [{} -> Numbers]
  OBVIOUS
<1> QED
  BY <1>1 DEF Lists

LEMMA ScanOnType ==
  ASSUME NEW i \in ActivityType, bluetooth \in BOOLEAN
  PROVE  ScanOn(i) \in ActivityType /\ Keeps(i, ScanOn(i))
<1> DEFINE b == i.scan \/ bluetooth
<1>1. b \in BOOLEAN
  OBVIOUS
<1>2. ScanOn(i) = [i EXCEPT !.list = << >>, !.mScanning = TRUE, !.scan = b]
  BY DEF ScanOn
<1> HIDE DEF b
<1>3. i.scan \in BOOLEAN
  BY DEF ActivityType
<1> QED
  BY <1>1, <1>2, NoList DEF ActivityType, Keeps

LEMMA ScanOffType ==
  ASSUME NEW i \in ActivityType
  PROVE  ScanOff(i) \in ActivityType /\ Keeps(i, ScanOff(i))
  BY DEF ScanOff, ActivityType, Keeps

LEMMA RestartType ==
  ASSUME NEW i \in ActivityType, bluetooth \in BOOLEAN
  PROVE  RestartScan(i) \in ActivityType /\ Keeps(i, RestartScan(i))
  BY DEF RestartScan, ActivityType, Keeps

Created == [NotCreated EXCEPT !.life = "paused", !.thread = "take"]
Empty(i) == /\ i.list = << >> /\ i.mPacketSeq = SeqLimit - 1
            /\ i.mDataQueue = <<>> /\ i.last = <<>>

LEMMA NewType == /\ NotCreated \in ActivityType /\ Empty(NotCreated)
                 /\ Created \in ActivityType /\ Empty(Created)
<1>1. <<>> \in Seq(Numbers)
  BY EmptySeq
<1>2. NotCreated \in ActivityType /\ Empty(NotCreated)
  BY <1>1, NumberType, NoList DEF NotCreated, ActivityType, Empty
<1> DEFINE one == [NotCreated EXCEPT !.life = "paused"]
<1>3. Created = [one EXCEPT !.thread = "take"]
  BY DEF Created
<1>4. one \in ActivityType /\ Empty(one)
  BY <1>2 DEF ActivityType, Empty
<1> HIDE DEF one
<1>5. Created \in ActivityType /\ Empty(Created)
  BY <1>3, <1>4 DEF ActivityType, Empty
<1> QED
  BY <1>2, <1>5

LEMMA EmptyCompares ==
  ASSUME NEW i, Empty(i)
  PROVE  Compares(i) /\ ListAgrees(i) /\ Len(i.mDataQueue) = 0
<1>1. StreamOf(i) = <<>> /\ Len(StreamOf(i)) = 0 /\ Len(i.mDataQueue) = 0
  BY DEF StreamOf, Empty
<1> QED
  BY <1>1, NoList DEF Compares, ListAgrees, Empty

LEMMA KeepsCompares ==
  ASSUME NEW i, NEW j, Keeps(i, j)
  PROVE  Compares(i) => Compares(j)
  BY DEF Keeps, Compares, StreamOf

LEMMA KeepsLists ==
  ASSUME NEW i, NEW j, Keeps(i, j)
  PROVE  ListAgrees(i) => ListAgrees(j)
  BY NoList DEF Keeps, ListAgrees

(* One activity changes.                                                         *)
LEMMA OneActivity ==
  ASSUME Types, NEW a \in Activities, NEW i \in ActivityType,
         act' = [act EXCEPT ![a] = i]
  PROVE  /\ act' \in [Activities -> ActivityType]
         /\ Len(i.mDataQueue) <= MaxQueue => \A b \in Activities : Len(act'[b].mDataQueue) <= MaxQueue
         /\ MInv /\ Compares(i) => \A b \in Activities : Compares(act'[b])
         /\ LInv /\ ListAgrees(i) => LInv'
<1>1. act' \in [Activities -> ActivityType]
  BY DEF Types
<1>2. \A b \in Activities : act'[b] = IF b = a THEN i ELSE act[b]
  BY DEF Types
<1>3. Len(i.mDataQueue) <= MaxQueue => \A b \in Activities : Len(act'[b].mDataQueue) <= MaxQueue
  BY <1>2 DEF Types
<1>4. MInv /\ Compares(i) => \A b \in Activities : Compares(act'[b])
  BY <1>2 DEF MInv
<1>5. LInv /\ ListAgrees(i) => LInv'
  BY <1>2 DEF LInv
<1> QED
  BY <1>1, <1>3, <1>4, <1>5

(* A change of one activity alone that keeps what is sent.                       *)
LEMMA KeepingStep ==
  ASSUME MInv, NEW a \in Activities, NEW i \in ActivityType, Keeps(act[a], i),
         act' = [act EXCEPT ![a] = i], bluetooth' \in BOOLEAN, UNCHANGED <<seqn, posted>>
  PROVE  MInv' /\ (LInv => LInv')
<1>1. Types /\ Compares(act[a]) /\ Len(i.mDataQueue) <= MaxQueue
  BY DEF MInv, Types, Keeps
<1>2. Compares(i) /\ (LInv => ListAgrees(i))
  BY <1>1, KeepsCompares, KeepsLists DEF LInv
<1>3. Types'
  BY <1>1, OneActivity DEF Types
<1> QED
  BY <1>1, <1>2, <1>3, OneActivity DEF MInv

(* What the user and the system do to an activity.                               *)
LEMMA UserKeeps ==
  ASSUME MInv, NEW a \in Activities, User(a)
  PROVE  MInv' /\ (LInv => LInv')
<1>0. /\ act[a] \in ActivityType /\ bluetooth \in BOOLEAN /\ Types
      /\ act \in [Activities -> ActivityType]
  BY DEF MInv, Types
<1>1. CASE onCreate(a)
  <2>1. act' = [act EXCEPT ![a] = Created] /\ UNCHANGED <<bluetooth, seqn, posted>>
    BY <1>1 DEF onCreate, Created
  <2>2. /\ Created \in ActivityType /\ Compares(Created) /\ ListAgrees(Created)
        /\ Len(Created.mDataQueue) <= MaxQueue
    BY NewType, EmptyCompares
  <2>3. Types'
    BY <1>0, <2>1, <2>2, OneActivity DEF Types
  <2> QED
    BY <1>0, <2>1, <2>2, <2>3, OneActivity DEF MInv
<1>2. CASE onDestroy(a)
  <2> DEFINE i == [act[a] EXCEPT !.life = "gone"]
  <2>1. act' = [act EXCEPT ![a] = i] /\ UNCHANGED <<bluetooth, seqn, posted>>
    BY <1>0, <1>2 DEF onDestroy
  <2>2. i \in ActivityType /\ Keeps(act[a], i)
    BY <1>0 DEF ActivityType, Keeps
  <2> QED
    BY <1>0, <2>1, <2>2, KeepingStep
<1>3. CASE onResume(a)
  <2> DEFINE on == ScanOn(act[a])
             one == [on EXCEPT !.life = "resumed"]
             i == [on EXCEPT !.life = "resumed", !.dialog = ~bluetooth]
  <2>1. act' = [act EXCEPT ![a] = i] /\ UNCHANGED <<bluetooth, seqn, posted>>
    BY <1>3 DEF onResume
  <2>2. on \in ActivityType /\ Keeps(act[a], on)
    BY <1>0, ScanOnType
  <2>3. i = [one EXCEPT !.dialog = ~bluetooth]
    OBVIOUS
  <2> HIDE DEF on
  <2>4. one \in ActivityType /\ Keeps(act[a], one)
    BY <2>2 DEF ActivityType, Keeps
  <2> HIDE DEF one, i
  <2>5. i \in ActivityType /\ Keeps(act[a], i)
    BY <1>0, <2>3, <2>4 DEF ActivityType, Keeps
  <2> QED
    BY <1>0, <2>1, <2>5, KeepingStep
<1>4. CASE onPause(a)
  <2> DEFINE off == ScanOff(act[a])
             one == [off EXCEPT !.life = "paused"]
             i == [off EXCEPT !.life = "paused", !.list = << >>]
  <2>1. act' = [act EXCEPT ![a] = i] /\ UNCHANGED <<bluetooth, seqn, posted>>
    BY <1>4 DEF onPause
  <2>2. off \in ActivityType /\ Keeps(act[a], off)
    BY <1>0, ScanOffType
  <2>3. i = [one EXCEPT !.list = << >>]
    OBVIOUS
  <2> HIDE DEF off
  <2>4. one \in ActivityType /\ Keeps(act[a], one)
    BY <2>2 DEF ActivityType, Keeps
  <2> HIDE DEF one, i
  <2>5. i \in ActivityType /\ Keeps(act[a], i)
    BY <2>3, <2>4, NoList DEF ActivityType, Keeps
  <2> QED
    BY <1>0, <2>1, <2>5, KeepingStep
<1>5. CASE onActivityResult(a)
  <2> DEFINE one == [act[a] EXCEPT !.dialog = FALSE]
             two == [one EXCEPT !.life = "gone"]
  <2>1. one \in ActivityType /\ Keeps(act[a], one)
    BY <1>0 DEF ActivityType, Keeps
  <2>2. /\ act' = [act EXCEPT ![a] = one] \/ act' = [act EXCEPT ![a] = two]
        /\ bluetooth' \in BOOLEAN /\ UNCHANGED <<seqn, posted>>
    <3>1. [act EXCEPT ![a].dialog = FALSE, ![a].life = "gone"] = [act EXCEPT ![a] = two]
      <4>1. [act EXCEPT ![a].dialog = FALSE, ![a].life = "gone"]
              = [[act EXCEPT ![a] = one] EXCEPT ![a].life = "gone"]
        BY <1>0
      <4> HIDE DEF one
      <4>2. [[act EXCEPT ![a] = one] EXCEPT ![a].life = "gone"] = [act EXCEPT ![a] = two]
        BY <1>0, <2>1
      <4> QED
        BY <4>1, <4>2
    <3>2. [act EXCEPT ![a].dialog = FALSE] = [act EXCEPT ![a] = one]
      BY <1>0
    <3> HIDE DEF one, two
    <3> QED
      BY <1>0, <1>5, <3>1, <3>2 DEF onActivityResult
  <2> HIDE DEF one
  <2>3. two \in ActivityType /\ Keeps(act[a], two)
    BY <2>1 DEF ActivityType, Keeps
  <2> HIDE DEF two
  <2> QED
    BY <1>0, <2>1, <2>2, <2>3, KeepingStep
<1>6. CASE onOptionsItemSelected(a)
  <2> DEFINE i == IF act[a].mScanning THEN ScanOff(act[a]) ELSE ScanOn(act[a])
  <2>1. act' = [act EXCEPT ![a] = i] /\ UNCHANGED <<bluetooth, seqn, posted>>
    BY <1>6 DEF onOptionsItemSelected
  <2>2. i \in ActivityType /\ Keeps(act[a], i)
    BY <1>0, ScanOnType, ScanOffType
  <2> HIDE DEF i
  <2> QED
    BY <1>0, <2>1, <2>2, KeepingStep
<1> QED
  BY <1>1, <1>2, <1>3, <1>4, <1>5, <1>6 DEF User

------------------------------------------------------------------------------
(* Packets.                                                                      *)

LEMMA MeasuresKeeps ==
  ASSUME MInv, NEW s \in Sensors, Measures(s)
  PROVE  MInv' /\ (LInv => LInv')
<1>1. seqn' \in [Sensors -> Numbers]
  <2>1. seqn[s] \in Numbers
    BY DEF MInv, Types
  <2>2. (seqn[s] + 1) % SeqLimit \in Numbers
    BY <2>1 DEF Numbers
  <2> QED
    BY <2>2 DEF Measures, MInv, Types
<1> QED
  BY <1>1 DEF Measures, MInv, LInv, Types

LEMMA HearKeeps ==
  ASSUME MInv, NEW a \in Activities, NEW d \in Sensors \cup Strangers, onLeScan(a, d)
  PROVE  MInv' /\ (LInv => LInv')
<1> DEFINE p == [act |-> a, dev |-> d, seqn |-> IF d \in Sensors THEN seqn[d] ELSE 0]
<1>1. p \in Packets
  <2>1. (IF d \in Sensors THEN seqn[d] ELSE 0) \in Numbers
    BY NumberType DEF MInv, Types
  <2> QED
    BY <2>1 DEF Packets
<1>2. posted \in Seq(Packets) /\ Len(posted) < MaxPosted /\ posted' = Append(posted, p)
  BY DEF onLeScan, MInv, Types
<1> HIDE DEF p
<1>3. posted' \in Seq(Packets) /\ Len(posted') = Len(posted) + 1 /\ Len(posted) \in Nat
  BY <1>1, <1>2, AppendProperties, LenProperties
<1>4. Len(posted') <= MaxPosted
  BY <1>2, <1>3
<1> QED
  BY <1>3, <1>4 DEF onLeScan, MInv, LInv, Types

(* Sequences of numbers.                                                         *)
LEMMA AppendAfter ==
  ASSUME NEW l \in Seq(Numbers), NEW q \in Seq(Numbers), NEW x \in Numbers
  PROVE  l \o Append(q, x) = Append(l \o q, x)
<1>1. <<x>> \in Seq(Numbers)
  OBVIOUS
<1>2. (l \o q) \o <<x>> = l \o (q \o <<x>>)
  BY <1>1, ConcatAssociative
<1>3. Append(q, x) = q \o <<x>>
  BY AppendIsConcat
<1>4. l \o q \in Seq(Numbers)
  BY ConcatProperties
<1>5. Append(l \o q, x) = (l \o q) \o <<x>>
  BY <1>4, AppendIsConcat
<1> QED
  BY <1>2, <1>3, <1>5

LEMMA ConcatAt ==
  ASSUME NEW l \in Seq(Numbers), NEW q \in Seq(Numbers)
  PROVE  /\ Len(l \o q) = Len(l) + Len(q) /\ Len(l) \in Nat /\ Len(q) \in Nat
         /\ \A k \in 1 .. Len(l \o q) : (l \o q)[k] = IF k <= Len(l) THEN l[k] ELSE q[k - Len(l)]
  BY ConcatProperties, LenProperties

LEMMA HeadThenTail ==
  ASSUME NEW q \in Seq(Numbers), q # <<>>
  PROVE  <<Head(q)>> \o Tail(q) = q
<1>1. /\ Head(q) \in Numbers /\ Tail(q) \in Seq(Numbers) /\ Len(Tail(q)) = Len(q) - 1
      /\ \A k \in 1 .. Len(Tail(q)) : Tail(q)[k] = q[k + 1]
  BY HeadTailProperties
<1> DEFINE h == <<Head(q)>>
           t == Tail(q)
<1>2. h \in Seq(Numbers) /\ Len(h) = 1 /\ h[1] = q[1]
  BY <1>1
<1> HIDE DEF h, t
<1>3. /\ t \in Seq(Numbers) /\ Len(t) = Len(q) - 1 /\ Len(q) \in Nat
      /\ \A k \in 1 .. Len(t) : t[k] = q[k + 1]
  BY <1>1, LenProperties DEF t
<1>4. /\ Len(h \o t) = Len(q) /\ h \o t \in Seq(Numbers)
      /\ \A k \in 1 .. Len(q) : (h \o t)[k] = IF k <= 1 THEN h[k] ELSE t[k - 1]
  <2>1. h \o t \in Seq(Numbers)
    BY <1>2, <1>3, ConcatProperties
  <2>2. /\ Len(h \o t) = Len(h) + Len(t)
        /\ \A k \in 1 .. Len(h \o t) : (h \o t)[k] = IF k <= Len(h) THEN h[k] ELSE t[k - Len(h)]
    BY <1>2, <1>3, ConcatAt
  <2> DEFINE u == h \o t
  <2> HIDE DEF u
  <2>3. /\ Len(u) = Len(h) + Len(t)
        /\ \A k \in 1 .. Len(u) : u[k] = IF k <= Len(h) THEN h[k] ELSE t[k - Len(h)]
    BY <2>2 DEF u
  <2>4. /\ Len(u) = Len(q)
        /\ \A k \in 1 .. Len(q) : u[k] = IF k <= 1 THEN h[k] ELSE t[k - 1]
    BY <1>2, <1>3, <2>3
  <2> QED
    BY <2>1, <2>4 DEF u
<1>5. ASSUME NEW k \in 1 .. Len(q) PROVE (h \o t)[k] = q[k]
  <2>1. CASE k = 1
    BY <1>2, <1>4, <2>1
  <2>2. CASE k # 1
    BY <1>3, <1>4, <2>2
  <2> QED
    BY <2>1, <2>2
<1>6. h \o t = q
  BY <1>4, <1>5, SeqEqual
<1> QED
  BY <1>6 DEF h, t

(* Appending a number that differs from the last one.                            *)
LEMMA SentCompares ==
  ASSUME NEW i \in ActivityType, NEW j \in ActivityType, Compares(i),
         j.last = i.last, j.mPacketSeq # i.mPacketSeq,
         j.mDataQueue = Append(i.mDataQueue, j.mPacketSeq)
  PROVE  Compares(j)
<1> DEFINE x == j.mPacketSeq
           S == StreamOf(i)
           T == StreamOf(j)
<1>1. i.last \in Seq(Numbers) /\ i.mDataQueue \in Seq(Numbers) /\ x \in Numbers
  BY DEF ActivityType
<1>2. S \in Seq(Numbers)
  BY <1>1, ConcatProperties DEF StreamOf
<1>3. T = Append(S, x)
  <2>1. T = i.last \o Append(i.mDataQueue, x)
    BY DEF StreamOf
  <2>2. i.last \o Append(i.mDataQueue, x) = Append(i.last \o i.mDataQueue, x)
    BY <1>1, AppendAfter
  <2> QED
    BY <2>1, <2>2 DEF StreamOf
<1>4. /\ Len(S) \in Nat /\ Len(T) = Len(S) + 1 /\ T # <<>>
      /\ \A k \in 1 .. Len(S) : T[k] = S[k]
      /\ T[Len(S) + 1] = x
  BY <1>1, <1>2, <1>3, AppendProperties, LenProperties
<1>5. Len(S) > 0 => S[Len(S)] # x
  <2>1. Len(S) > 0 => S # <<>>
    BY EmptySeq
  <2> QED
    BY <2>1 DEF Compares
<1>6. \A k \in 1 .. Len(S) - 1 : S[k] # S[k + 1]
  BY DEF Compares
<1> HIDE DEF S, T, x
<1>7. ASSUME NEW k \in 1 .. Len(T) - 1 PROVE T[k] # T[k + 1]
  <2>1. CASE k = Len(S)
    BY <1>4, <1>5, <2>1
  <2>2. CASE k # Len(S)
    BY <1>4, <1>6, <2>2
  <2> QED
    BY <2>1, <2>2
<1>8. T[Len(T)] = x
  BY <1>4
<1> QED
  BY <1>4, <1>7, <1>8 DEF Compares, T, x

OneBeacon == \A s, t \in Sensors : s = t

LEMMA UpdateType ==
  ASSUME NEW i \in ActivityType, NEW p \in Packets, p.dev \in Sensors
  PROVE  LET u == updateDevice(i, p)
         IN  /\ u \in ActivityType /\ u.last = i.last /\ u.mDataQueue = i.mDataQueue
             /\ u.mPacketSeq = i.mPacketSeq
             /\ OneBeacon => \A s \in DOMAIN u.list : u.list[s] = p.seqn
<1> DEFINE l == [d \in DOMAIN i.list \cup {p.dev} |-> IF d = p.dev THEN p.seqn ELSE i.list[d]]
<1>1. PICK shown \in SUBSET Sensors : i.list \in [shown -> Numbers]
  BY DEF ActivityType, Lists
<1>2. p.seqn \in Numbers
  BY DEF Packets
<1>3. l \in [shown \cup {p.dev} -> Numbers] /\ shown \cup {p.dev} \in SUBSET Sensors
  BY <1>1, <1>2
<1>4. l \in Lists /\ DOMAIN l \subseteq Sensors
  BY <1>3 DEF Lists
<1>5. OneBeacon => \A s \in DOMAIN l : l[s] = p.seqn
  BY <1>4 DEF OneBeacon
<1>6. updateDevice(i, p) = [i EXCEPT !.list = l]
  BY DEF updateDevice
<1> HIDE DEF l
<1> QED
  BY <1>4, <1>5, <1>6 DEF ActivityType

LEMMA ProcessType ==
  ASSUME NEW i \in ActivityType, NEW p \in Packets, p.dev \in Sensors
  PROVE  LET j == Process(i, p)
         IN  /\ j \in ActivityType /\ j.last = i.last /\ j.mPacketSeq = p.seqn
             /\ j.mDataQueue = IF p.seqn # i.mPacketSeq THEN Append(i.mDataQueue, p.seqn)
                                                       ELSE i.mDataQueue
             /\ OneBeacon => ListAgrees(j)
<1> DEFINE u == updateDevice(i, p)
           q == Append(u.mDataQueue, p.seqn)
           sent == IF p.seqn # i.mPacketSeq THEN [u EXCEPT !.mDataQueue = q] ELSE u
           j == [sent EXCEPT !.mPacketSeq = p.seqn]
<1>1. /\ u \in ActivityType /\ u.last = i.last /\ u.mDataQueue = i.mDataQueue
      /\ OneBeacon => \A s \in DOMAIN u.list : u.list[s] = p.seqn
  BY UpdateType
<1>2. j = Process(i, p)
  BY DEF Process, sendDataToServer
<1>3. p.seqn \in Numbers
  BY DEF Packets
<1> HIDE DEF u
<1>4. q \in Seq(Numbers)
  BY <1>1, <1>3, AppendProperties DEF ActivityType
<1> HIDE DEF q
<1>5. /\ sent \in ActivityType /\ sent.last = i.last /\ sent.list = u.list
      /\ sent.mDataQueue = IF p.seqn # i.mPacketSeq THEN q ELSE i.mDataQueue
  BY <1>1, <1>4 DEF ActivityType
<1> HIDE DEF sent
<1>6. /\ j \in ActivityType /\ j.last = sent.last /\ j.list = sent.list
      /\ j.mDataQueue = sent.mDataQueue /\ j.mPacketSeq = p.seqn
  BY <1>3, <1>5 DEF ActivityType
<1> HIDE DEF j
<1>7. OneBeacon => ListAgrees(j)
  BY <1>1, <1>5, <1>6 DEF ListAgrees
<1> QED
  BY <1>1, <1>2, <1>5, <1>6, <1>7 DEF q

(* A packet on the UI thread, of a beacon or of a stranger.                      *)
LEMMA RunKeeps ==
  ASSUME MInv, RunPosted
  PROVE  MInv' /\ (OneBeacon /\ LInv => LInv')
<1> DEFINE p == Head(posted)
           a == p.act
           i == RestartScan(act[a])
           j == IF IsTemperature(p) THEN Process(i, p) ELSE i
<1>1. /\ posted \in Seq(Packets) /\ posted # <<>> /\ posted' = Tail(posted)
      /\ act' = [act EXCEPT ![a] = j] /\ Len(i.mDataQueue) < MaxQueue
      /\ UNCHANGED <<bluetooth, seqn>>
  BY DEF RunPosted, MInv, Types
<1>2. /\ p \in Packets /\ posted' \in Seq(Packets) /\ Len(posted') = Len(posted) - 1
      /\ Len(posted) \in Nat
  BY <1>1, HeadTailProperties, LenProperties
<1>3. a \in Activities
  BY <1>2 DEF Packets
<1>4. act[a] \in ActivityType /\ bluetooth \in BOOLEAN /\ Types /\ Compares(act[a])
  BY <1>3 DEF MInv, Types
<1>5. i \in ActivityType /\ Keeps(act[a], i)
  BY <1>4, RestartType
<1>6. Compares(i) /\ (LInv => ListAgrees(i))
  BY <1>3, <1>4, <1>5, KeepsCompares, KeepsLists DEF LInv
<1>7. /\ j \in ActivityType /\ Compares(j) /\ (OneBeacon /\ LInv => ListAgrees(j))
      /\ Len(j.mDataQueue) <= MaxQueue
  <2>0. Len(i.mDataQueue) \in Nat /\ i.mDataQueue \in Seq(Numbers) /\ i.mPacketSeq \in Numbers
    BY <1>5, LenProperties DEF ActivityType
  <2>1. CASE ~IsTemperature(p)
    BY <1>1, <1>5, <1>6, <2>0, <2>1
  <2>2. CASE IsTemperature(p) /\ p.seqn = i.mPacketSeq
    <3>1. /\ j \in ActivityType /\ j.last = i.last /\ j.mPacketSeq = i.mPacketSeq
          /\ j.mDataQueue = i.mDataQueue /\ (OneBeacon => ListAgrees(j))
      BY <1>2, <1>5, <2>2, ProcessType DEF IsTemperature
    <3>2. Compares(j)
      BY <1>6, <3>1 DEF Compares, StreamOf
    <3> QED
      BY <1>1, <2>0, <3>1, <3>2
  <2>3. CASE IsTemperature(p) /\ p.seqn # i.mPacketSeq
    <3>1. /\ j \in ActivityType /\ j.last = i.last /\ j.mPacketSeq = p.seqn
          /\ j.mDataQueue = Append(i.mDataQueue, p.seqn) /\ (OneBeacon => ListAgrees(j))
      BY <1>2, <1>5, <2>3, ProcessType DEF IsTemperature
    <3> HIDE DEF i, j
    <3>2. Compares(j)
      BY <1>5, <1>6, <2>3, <3>1, SentCompares
    <3>3. Len(j.mDataQueue) = Len(i.mDataQueue) + 1
      BY <1>2, <2>0, <3>1, AppendProperties DEF Packets
    <3>4. Len(j.mDataQueue) <= MaxQueue
      BY <1>1, <2>0, <3>3
    <3> QED
      BY <3>1, <3>2, <3>4
  <2> QED
    BY <2>1, <2>2, <2>3
<1> HIDE DEF i, j, a, p
<1>8. Types'
  <2>1. Len(posted') <= MaxPosted
    BY <1>2, <1>4 DEF Types
  <2> QED
    BY <1>1, <1>2, <1>3, <1>4, <1>7, <2>1, OneActivity DEF Types
<1> QED
  BY <1>1, <1>3, <1>4, <1>7, <1>8, OneActivity DEF MInv

------------------------------------------------------------------------------
(* The thread: what it takes from the queue is still of the stream.              *)
LEMMA TakeCompares ==
  ASSUME NEW i \in ActivityType, NEW j, i.mDataQueue # <<>>, Compares(i),
         j.mPacketSeq = i.mPacketSeq,
         j.last = <<Head(i.mDataQueue)>>, j.mDataQueue = Tail(i.mDataQueue)
  PROVE  Compares(j)
<1> DEFINE l == i.last
           q == i.mDataQueue
           S == l \o q
           T == j.last \o j.mDataQueue
<1>1. l \in Seq(Numbers) /\ q \in Seq(Numbers) /\ q # <<>>
  BY DEF ActivityType
<1>2. /\ Len(S) = Len(l) + Len(q) /\ Len(l) \in Nat /\ Len(q) \in Nat \ {0}
      /\ \A k \in 1 .. Len(S) : S[k] = IF k <= Len(l) THEN l[k] ELSE q[k - Len(l)]
  BY <1>1, ConcatAt, EmptySeq
<1>3. T = q
  BY <1>1, HeadThenTail
<1>4. /\ S # <<>> => S[Len(S)] = i.mPacketSeq
      /\ \A k \in 1 .. Len(S) - 1 : S[k] # S[k + 1]
  BY DEF Compares, StreamOf
<1>5. S # <<>>
  BY <1>1, ConcatEqualIffEmpty
<1> HIDE DEF S, q, l
<1>6. q[Len(q)] = i.mPacketSeq
  BY <1>2, <1>4, <1>5
<1>7. ASSUME NEW k \in 1 .. Len(q) - 1 PROVE q[k] # q[k + 1]
  <2>1. S[Len(l) + k] = q[k] /\ S[Len(l) + k + 1] = q[k + 1]
    BY <1>2
  <2>2. Len(l) + k \in 1 .. Len(S) - 1
    BY <1>2
  <2> QED
    BY <1>4, <2>1, <2>2
<1> HIDE DEF T
<1>8. StreamOf(j) = T
  BY DEF StreamOf, T
<1> QED
  BY <1>1, <1>3, <1>6, <1>7, <1>8 DEF Compares

LEMMA ThreadKeeps ==
  ASSUME MInv, NEW a \in Activities, Thread(a)
  PROVE  MInv' /\ (LInv => LInv')
<1>0. /\ act[a] \in ActivityType /\ bluetooth \in BOOLEAN /\ Types /\ Compares(act[a])
      /\ act \in [Activities -> ActivityType]
  BY DEF MInv, Types
<1>1. CASE Take(a)
  <2> DEFINE q == act[a].mDataQueue
             one == [act[a] EXCEPT !.thread = "send"]
             two == [one EXCEPT !.last = <<Head(q)>>]
             i == [two EXCEPT !.mDataQueue = Tail(q)]
  <2>0. /\ q \in Seq(Numbers) /\ q # <<>> /\ UNCHANGED <<bluetooth, seqn, posted>>
        /\ act' = [act EXCEPT ![a].thread = "send", ![a].last = <<Head(q)>>,
                              ![a].mDataQueue = Tail(@)]
    BY <1>0, <1>1 DEF Take, ActivityType
  <2>1. act' = [act EXCEPT ![a] = i]
    <3> DEFINE f == [act EXCEPT ![a] = one]
               g == [f EXCEPT ![a] = two]
    <3>1. [act EXCEPT ![a].thread = "send"] = f
      BY <1>0
    <3>2. one \in ActivityType /\ one.mDataQueue = q
      BY <1>0 DEF ActivityType
    <3> HIDE DEF one, f
    <3>3. f \in [Activities -> ActivityType] /\ f[a] = one
      BY <1>0, <3>2 DEF f
    <3>4. [f EXCEPT ![a].last = <<Head(q)>>] = g
      BY <3>3
    <3>5. two.mDataQueue = q
      BY <3>2 DEF ActivityType
    <3> HIDE DEF two, g
    <3>6. g[a] = two /\ a \in DOMAIN g
      BY <3>3 DEF g
    <3>7. act' = [g EXCEPT ![a].mDataQueue = Tail(@)]
      BY <2>0, <3>1, <3>4, Zenon
    <3>8. act' = [g EXCEPT ![a] = i]
      BY <3>5, <3>6, <3>7
    <3>9. [g EXCEPT ![a] = i] = [act EXCEPT ![a] = i]
      BY <1>0, <3>3 DEF f, g
    <3> QED
      BY <3>8, <3>9
  <2>2. /\ Head(q) \in Numbers /\ Tail(q) \in Seq(Numbers) /\ Len(Tail(q)) = Len(q) - 1
        /\ Len(q) \in Nat
    BY <2>0, HeadTailProperties, LenProperties
  <2>3. <<Head(q)>> \in Seq(Numbers)
    BY <2>2
  <2>4. one \in ActivityType /\ one.list = act[a].list /\ one.mPacketSeq = act[a].mPacketSeq
    BY <1>0 DEF ActivityType
  <2> HIDE DEF one
  <2>5. /\ two \in ActivityType /\ two.list = one.list /\ two.mPacketSeq = one.mPacketSeq
        /\ two.last = <<Head(q)>>
    BY <2>3, <2>4 DEF ActivityType
  <2> HIDE DEF two
  <2>6. /\ i \in ActivityType /\ i.list = two.list /\ i.mPacketSeq = two.mPacketSeq
        /\ i.last = two.last /\ i.mDataQueue = Tail(q)
    BY <2>2, <2>5 DEF ActivityType
  <2> HIDE DEF i
  <2>7. Compares(i)
    BY <1>0, <2>0, <2>4, <2>5, <2>6, TakeCompares
  <2>8. LInv => ListAgrees(i)
    BY <2>4, <2>5, <2>6 DEF LInv, ListAgrees
  <2>9. Len(i.mDataQueue) <= MaxQueue
    BY <1>0, <2>2, <2>6 DEF Types
  <2>10. Types'
    BY <1>0, <2>0, <2>1, <2>6, <2>9, OneActivity DEF Types
  <2> QED
    BY <1>0, <2>1, <2>6, <2>7, <2>8, <2>10, OneActivity DEF MInv
<1>2. CASE Uploaded(a) \/ Slept(a)
  <2>1. PICK t \in {"take", "sleep"} : act' = [act EXCEPT ![a].thread = t]
    BY <1>2 DEF Uploaded, Slept, AfterError
  <2> DEFINE i == [act[a] EXCEPT !.thread = t]
  <2>2. act' = [act EXCEPT ![a] = i] /\ UNCHANGED <<bluetooth, seqn, posted>>
    BY <1>0, <1>2, <2>1 DEF Uploaded, Slept
  <2>3. i \in ActivityType /\ Keeps(act[a], i)
    BY <1>0 DEF ActivityType, Keeps
  <2> QED
    BY <1>0, <2>2, <2>3, KeepingStep
<1> QED
  BY <1>1, <1>2 DEF Thread

------------------------------------------------------------------------------
LEMMA MInit == Init => MInv /\ LInv
<1> SUFFICES ASSUME Init PROVE MInv /\ LInv
  OBVIOUS
<1>1. act = [a \in Activities |-> NotCreated]
  BY DEF Init
<1>2. \A a \in Activities : /\ act[a] \in ActivityType /\ Compares(act[a]) /\ ListAgrees(act[a])
                           /\ Len(act[a].mDataQueue) <= MaxQueue
  BY <1>1, NewType, EmptyCompares
<1>3. <<>> \in Seq(Packets) /\ Len(<<>>) = 0
  BY EmptySeq
<1>4. seqn \in [Sensors -> Numbers] /\ posted = <<>> /\ bluetooth \in BOOLEAN
  BY NumberType DEF Init
<1>5. act \in [Activities -> ActivityType]
  BY <1>1, <1>2
<1> QED
  BY <1>2, <1>3, <1>4, <1>5 DEF MInv, LInv, Types

LEMMA MStep == MInv /\ [Next]_vars => MInv' /\ (OneBeacon /\ LInv => LInv')
<1> SUFFICES ASSUME MInv, [Next]_vars PROVE MInv' /\ (OneBeacon /\ LInv => LInv')
  OBVIOUS
<1>1. CASE UNCHANGED vars
  BY <1>1 DEF vars, MInv, LInv, Types
<1>2. CASE Next
  BY <1>2, UserKeeps, ThreadKeeps, MeasuresKeeps, HearKeeps, RunKeeps DEF Next
<1> QED
  BY <1>1, <1>2

(* For any beacons, activities and lengths of the two queues: an activity never  *)
(* uploads two equal numbers in a row, however often a beacon repeats one and    *)
(* whatever pauses, rotations and failed uploads come between.                   *)
THEOREM NeverRepeats == Spec => []NoRepeat
<1>1. MInv => NoRepeat
  BY DEF MInv, Compares, NoRepeat, Stream, StreamOf
<1> QED
  BY <1>1, MInit, MStep, PTL DEF Spec

(* With one beacon, the number in the list is the newest that was, or will be,   *)
(* uploaded, but for the number with which the comparison starts; every variable *)
(* has its type and the list holds beacons only.                                 *)
THEOREM ListStaysRight == OneBeacon => (Spec => []ListIsRight)
<1> SUFFICES ASSUME OneBeacon PROVE Spec => []ListIsRight
  OBVIOUS
<1>1. Types => TypeOK
  <2> SUFFICES ASSUME Types PROVE TypeOK
    OBVIOUS
  <2>1. \A k \in DOMAIN posted : posted[k] \in [act : Activities, dev : Sensors \cup Strangers,
                                               seqn : Numbers]
    <3>1. posted \in Seq(Packets) /\ DOMAIN posted = 1 .. Len(posted)
      BY LenProperties DEF Types
    <3>2. \A k \in 1 .. Len(posted) : posted[k] \in Packets
      BY <3>1, ElementOfSeq
    <3> QED
      BY <3>1, <3>2 DEF Packets
  <2>2. ASSUME NEW a \in Activities
        PROVE  /\ DOMAIN act[a].list \subseteq Sensors
               /\ \A s \in DOMAIN act[a].list : act[a].list[s] \in Numbers
    <3>1. act[a].list \in Lists
      BY DEF Types, ActivityType
    <3> QED
      BY <3>1 DEF Lists
  <2>3. \A a \in Activities :
          /\ act[a].life \in {"none", "resumed", "paused", "gone"}
          /\ {act[a].dialog, act[a].mScanning, act[a].scan} \subseteq BOOLEAN
          /\ act[a].mPacketSeq \in Numbers
          /\ act[a].thread \in {"none", "take", "send", "sleep"}
    BY DEF Types, ActivityType
  <2> QED
    BY <2>1, <2>2, <2>3 DEF Types, TypeOK
<1>2. MInv /\ LInv => ShownIsSent
  <2> SUFFICES ASSUME MInv, LInv, NEW a \in Activities, NEW s \in DOMAIN act[a].list
               PROVE  \/ Stream(a) # <<>> /\ Last(Stream(a)) = act[a].list[s]
                      \/ Stream(a) = <<>> /\ act[a].list[s] = SeqLimit - 1
    BY DEF ShownIsSent
  <2> QED
    BY DEF MInv, LInv, ListAgrees, Compares, Stream, StreamOf, Last
<1>3. MInv /\ LInv => ListIsRight
  BY <1>1, <1>2 DEF MInv, ListIsRight
<1>4. MInv /\ LInv /\ [Next]_vars => (MInv /\ LInv)'
  BY MStep
<1> QED
  BY <1>3, <1>4, MInit, PTL DEF Spec

-----------------------------------------------------------------------------
(* PowerMonitor *)

(* What the timing of the wait depends on. *)
Poll == /\ load \in Loads /\ asked \in Nat /\ answers \in [Loads -> Nat]
        /\ lpstate \in 0..2 /\ delay_cycles \in 0..DelayCycles
        /\ lpstate = 2 <=> delay_cycles > 0
        /\ ticks \in 0..DelayCycles /\ before \in Nat

(* A poll that ends is one less under way, whether its answer is processed  *)
(* or not, and a poll that changes where it is remains one.                 *)
LEMMA OneLess ==
  ASSUME Poll, NEW v \in Loads, answers[v] > 0,
         answers' = [answers EXCEPT ![v] = @ - 1]
  PROVE  /\ answers' \in [Loads -> Nat]
         /\ asked' = asked => Outstanding' = Outstanding - 1
         /\ asked' = asked + 1 => Outstanding' = Outstanding
<1> USE DEF Poll, Outstanding, Loads
<1>1. \A u \in Loads : answers'[u] = IF u = v THEN answers[u] - 1 ELSE answers[u]
  OBVIOUS
<1>2. /\ answers["low"] \in Nat /\ answers["mid"] \in Nat /\ answers["high"] \in Nat
  OBVIOUS
<1>3. CASE v = "low"
  BY <1>1, <1>2, <1>3
<1>4. CASE v = "mid"
  BY <1>1, <1>2, <1>4
<1>5. CASE v = "high"
  BY <1>1, <1>2, <1>5
<1> QED
  BY <1>3, <1>4, <1>5

LEMMA OneAnswerMore ==
  ASSUME Poll, NEW v \in Loads, asked > 0, asked' = asked - 1,
         answers' = [answers EXCEPT ![v] = @ + 1]
  PROVE  answers' \in [Loads -> Nat] /\ asked' \in Nat /\ Outstanding' = Outstanding
<1> USE DEF Poll, Outstanding, Loads
<1>1. \A u \in Loads : answers'[u] = IF u = v THEN answers[u] + 1 ELSE answers[u]
  OBVIOUS
<1>2. /\ answers["low"] \in Nat /\ answers["mid"] \in Nat /\ answers["high"] \in Nat
  OBVIOUS
<1>3. CASE v = "low"
  BY <1>1, <1>2, <1>3
<1>4. CASE v = "mid"
  BY <1>1, <1>2, <1>4
<1>5. CASE v = "high"
  BY <1>1, <1>2, <1>5
<1> QED
  BY <1>3, <1>4, <1>5

LEMMA OutstandingType == Poll => Outstanding \in Nat
  BY DEF Poll, Outstanding, Loads

(* The case of processLoadPower that an answer is processed by. *)
LEMMA AnsweredLess ==
  ASSUME Poll, NEW v \in Loads, Answered(v)
  PROVE  /\ answers' \in [Loads -> Nat] /\ asked' = asked /\ load' = load
         /\ Outstanding' = Outstanding - 1
  BY OneLess DEF Answered

(* The steps that leave the wait and its histories alone keep the count as  *)
(* long as they start no poll.                                              *)
LEMMA CountKept ==
  ASSUME Poll, CountedPolls,
         Outstanding' = Outstanding \/ Outstanding' = Outstanding - 1,
         UNCHANGED <<lpstate, delay_cycles, ticks, before>>
  PROVE  CountedPolls'
<1>1. Outstanding \in Nat
  BY OutstandingType
<1>2. DelayCycles \in Nat /\ delay_cycles \in Nat /\ before \in Nat /\ ticks \in Nat
  BY DelayAssumption DEF Poll
<1>3. \A o \in Nat : (DelayCycles - delay_cycles) + o <= before + ticks
                    => (DelayCycles - delay_cycles) + (o - 1) <= before + ticks
  BY <1>2
<1>4. (DelayCycles - delay_cycles) + Outstanding <= before + ticks
      => (DelayCycles - delay_cycles) + Outstanding' <= before + ticks
  BY <1>1, <1>3
<1> QED
  BY <1>4 DEF CountedPolls

(* Every step keeps the types and the count. *)
LEMMA CountStep == Poll /\ CountedPolls /\ [PowerNext]_powerVars => Poll' /\ CountedPolls'
<1> SUFFICES ASSUME Poll, CountedPolls, [PowerNext]_powerVars PROVE Poll' /\ CountedPolls'
  OBVIOUS
<1> USE DelayAssumption, OutstandingType
<1>1. CASE Tick
  <2>1. /\ asked' = asked + 1
        /\ UNCHANGED <<load, answers, lpstate, delay_cycles, before>>
        /\ ticks' = IF lpstate = 2 /\ ticks < DelayCycles THEN ticks + 1 ELSE ticks
    BY <1>1 DEF Tick
  <2>2. Outstanding' = Outstanding + 1
    BY <2>1 DEF Outstanding, Poll, Loads
  <2> QED
    BY <2>1, <2>2 DEF Poll, CountedPolls
<1>2. CASE Sample
  <2>1. /\ asked > 0 /\ asked' = asked - 1
        /\ answers' = [answers EXCEPT ![load] = @ + 1]
        /\ UNCHANGED <<load, lpstate, delay_cycles, ticks, before>>
    BY <1>2 DEF Sample, history
  <2>2. load \in Loads
    BY DEF Poll
  <2>3. answers' \in [Loads -> Nat] /\ asked' \in Nat /\ Outstanding' = Outstanding
    BY <2>1, <2>2, OneAnswerMore
  <2>4. Poll'
    BY <2>1, <2>3 DEF Poll
  <2> QED
    BY <2>1, <2>3, <2>4, CountKept
<1>3. CASE PollFails
  <2>1. UNCHANGED <<load, lpstate, delay_cycles, ticks, before>>
    BY <1>3 DEF PollFails, history
  <2>2. CASE asked > 0 /\ asked' = asked - 1 /\ UNCHANGED answers
    <3>1. Outstanding' = Outstanding - 1 /\ asked' \in Nat
      BY <2>2 DEF Outstanding, Poll, Loads
    <3>2. Poll'
      BY <2>1, <2>2, <3>1 DEF Poll
    <3> QED
      BY <2>1, <3>1, <3>2, CountKept
  <2>3. ASSUME NEW v \in Loads, answers[v] > 0, UNCHANGED asked,
               answers' = [answers EXCEPT ![v] = @ - 1]
        PROVE  Poll' /\ CountedPolls'
    <3>1. answers' \in [Loads -> Nat] /\ Outstanding' = Outstanding - 1
      BY <2>3, OneLess
    <3>2. Poll'
      BY <2>1, <2>3, <3>1 DEF Poll
    <3> QED
      BY <2>1, <3>1, <3>2, CountKept
  <2> QED
    BY <1>3, <2>2, <2>3 DEF PollFails
<1>4. CASE LoadChanges \/ UNCHANGED powerVars \/ \E m \in Miners : CommandEnds(m)
  <2>1. /\ UNCHANGED <<asked, answers, lpstate, delay_cycles, ticks, before>>
        /\ load' \in Loads
    BY <1>4 DEF LoadChanges, CommandEnds, powerVars, polls, history, Poll
  <2>2. Poll' /\ Outstanding' = Outstanding
    BY <2>1 DEF Poll, Outstanding
  <2> QED
    BY <2>1, <2>2, CountKept
<1>5. ASSUME NEW v \in Loads, Retry(v) PROVE Poll' /\ CountedPolls'
  <2>1. answers' \in [Loads -> Nat] /\ Outstanding' = Outstanding
    BY <1>5, OneLess DEF Retry
  <2>2. UNCHANGED <<load, lpstate, delay_cycles, ticks, before>> /\ asked' = asked + 1
    BY <1>5 DEF Retry, history
  <2>3. Poll'
    BY <2>1, <2>2 DEF Poll
  <2> QED
    BY <2>1, <2>2, <2>3, CountKept
<1>6. ASSUME NEW v \in Loads, ProcessLoadPower(v) PROVE Poll' /\ CountedPolls'
  <2>1. /\ Answered(v) /\ answers' \in [Loads -> Nat] /\ asked' = asked /\ load' = load
        /\ Outstanding' = Outstanding - 1
    BY <1>6, AnsweredLess
       DEF ProcessLoadPower, Keep, Disable, StartDelay, Wait, Enable, Abandon
  <2>2. CASE Keep(v)
    <3>1. Poll'
      BY <2>1, <2>2 DEF Keep, Poll, history
    <3> QED
      BY <2>1, <2>2, <3>1, CountKept DEF Keep, history
  <2>3. CASE Disable(v)
    BY <2>1, <2>3 DEF Disable, Poll, CountedPolls, history
  <2>4. CASE StartDelay(v)
    <3>1. before' = Outstanding - 1 /\ ticks' = 0 /\ delay_cycles' = DelayCycles /\ lpstate' = 2
      BY <2>4 DEF StartDelay
    <3>2. Outstanding' \in Nat /\ before' = Outstanding'
      BY <2>1, <3>1 DEF Poll, Outstanding, Loads
    <3> QED
      BY <2>1, <3>1, <3>2 DEF Poll, CountedPolls
  <2>5. CASE Wait(v)
    BY <2>1, <2>5 DEF Wait, Poll, CountedPolls, history
  <2>6. CASE Enable(v) \/ Abandon(v)
    <3>1. /\ lpstate' \in {0, 1} /\ delay_cycles' = 0
          /\ ticks' = ticks /\ before' = before
      BY <2>6 DEF Enable, Abandon, history
    <3> QED
      BY <2>1, <3>1 DEF Poll, CountedPolls
  <2> QED
    BY <1>6, <2>2, <2>3, <2>4, <2>5, <2>6 DEF ProcessLoadPower
<1> QED
  BY <1>1, <1>2, <1>3, <1>4, <1>5, <1>6 DEF PowerNext

(* The wait counts what TLC checks that it counts, for any number of polls  *)
(* under way.                                                               *)
THEOREM WaitCounts == PowerSpec => [](Poll /\ CountedPolls)
<1>1. PowerInit => Poll /\ CountedPolls
  BY DelayAssumption DEF PowerInit, Poll, CountedPolls
<1> QED
  BY <1>1, CountStep, PTL DEF PowerSpec

(* The miners come back after DelayCycles ticks at least, less the polls    *)
(* that were under way when the wait began.                                 *)
THEOREM WaitsLongEnough == PowerSpec => EnableWaits
<1>1. Poll /\ CountedPolls /\ [PowerNext]_powerVars
      => [lpstate = 2 /\ lpstate' = 0 => ticks + before >= DelayCycles]_powerVars
  <2> SUFFICES ASSUME Poll, CountedPolls, PowerNext, lpstate = 2, lpstate' = 0
               PROVE  ticks + before >= DelayCycles
    OBVIOUS
  <2>1. PICK v \in Loads : Enable(v)
    BY DEF PowerNext, Tick, Sample, PollFails, LoadChanges, Retry, ProcessLoadPower, Keep,
           Disable, StartDelay, Wait, Abandon, CommandEnds
  <2>2. delay_cycles = 1 /\ Outstanding > 0
    BY <2>1 DEF Enable, Answered, Outstanding, Poll, Loads
  <2> QED
    BY <2>2, OutstandingType, DelayAssumption DEF Poll, CountedPolls
<1> QED
  BY <1>1, WaitCounts, PTL DEF EnableWaits, PowerSpec
(* Behind LatestCommandRules: while a command is under way to a miner that  *)
(* missed nothing, the last of them is what the monitor believes.           *)
Believed == lpstate = 0

Orders ==
  /\ commands \in [Miners -> Seq(BOOLEAN)]
  /\ miner \in [Miners -> BOOLEAN] /\ missed \in [Miners -> BOOLEAN]
  /\ \A m \in Miners : ~missed[m] =>
       IF commands[m] = <<>> THEN miner[m] <=> Believed
                             ELSE commands[m][Len(commands[m])] <=> Believed

(* A command that ends leaves the others in their order.                    *)
LEMMA RemoveKeepsLast ==
  ASSUME NEW s \in Seq(BOOLEAN), NEW i \in 1 .. Len(s)
  PROVE  /\ RemoveAt(s, i) \in Seq(BOOLEAN)
         /\ Len(RemoveAt(s, i)) = Len(s) - 1
         /\ i < Len(s) => RemoveAt(s, i)[Len(s) - 1] = s[Len(s)]
<1> DEFINE a == SubSeq(s, 1, i - 1)
           b == SubSeq(s, i + 1, Len(s))
<1>1. /\ a \in Seq(BOOLEAN) /\ Len(a) = i - 1
      /\ b \in Seq(BOOLEAN) /\ Len(b) = Len(s) - i
      /\ i < Len(s) => b[Len(s) - i] = s[Len(s)]
  <2>1. a \in Seq(BOOLEAN) /\ Len(a) = i - 1
    BY SMT
  <2>2. b \in Seq(BOOLEAN) /\ Len(b) = Len(s) - i
    BY SMT
  <2>3. i < Len(s) => b[Len(s) - i] = s[Len(s)]
    BY SMT
  <2> QED
    BY <2>1, <2>2, <2>3
<1>2. RemoveAt(s, i) = a \o b
  BY DEF RemoveAt
<1> HIDE DEF a, b
<1>3. /\ a \o b \in Seq(BOOLEAN) /\ Len(a \o b) = Len(a) + Len(b)
      /\ \A n \in 1 .. Len(a) + Len(b) :
           (a \o b)[n] = IF n <= Len(a) THEN a[n] ELSE b[n - Len(a)]
  BY <1>1, ConcatProperties, Zenon
<1> DEFINE u == a \o b
<1> HIDE DEF u
<1>4. /\ u \in Seq(BOOLEAN) /\ Len(u) = Len(s) - 1
      /\ i < Len(s) => u[Len(s) - 1] = s[Len(s)]
  BY <1>1, <1>3 DEF u
<1> QED
  BY <1>2, <1>4 DEF u
(* A command to all miners is the latest of each, and says what is believed. *)
LEMMA EnableKeeps ==
  ASSUME Orders, NEW enable \in BOOLEAN, AllMinersEnable(enable), enable <=> Believed'
  PROVE  Orders'
<1>1. /\ commands' = [m \in Miners |-> Append(commands[m], enable)]
      /\ missed' = [m \in Miners |-> FALSE] /\ miner' = miner
  BY DEF AllMinersEnable
<1>2. \A m \in Miners :
        /\ Append(commands[m], enable) \in Seq(BOOLEAN)
        /\ Append(commands[m], enable) # <<>>
        /\ Append(commands[m], enable)[Len(Append(commands[m], enable))] = enable
  BY DEF Orders
<1>3. \A m \in Miners :
        /\ commands'[m] \in Seq(BOOLEAN) /\ commands'[m] # <<>>
        /\ commands'[m][Len(commands'[m])] = enable
  BY <1>1, <1>2
<1>4. /\ commands' \in [Miners -> Seq(BOOLEAN)]
      /\ miner' \in [Miners -> BOOLEAN] /\ missed' \in [Miners -> BOOLEAN]
  BY <1>1, <1>2 DEF Orders
<1> QED
  BY <1>3, <1>4, Zenon DEF Orders

(* A command that ends, obeyed or not, leaves what the later ones say.      *)
LEMMA CommandKeeps ==
  ASSUME Orders, NEW m \in Miners, CommandEnds(m)
  PROVE  Orders'
<1>1. PICK i \in DOMAIN commands[m] :
        /\ commands' = [commands EXCEPT ![m] = RemoveAt(@, i)]
        /\ Deliver(m, i) \/ Fail(m, i)
  BY DEF CommandEnds
<1>2. Believed' <=> Believed
  BY DEF CommandEnds, Believed
<1> DEFINE s == commands[m]
           r == RemoveAt(s, i)
<1>3. /\ s \in Seq(BOOLEAN) /\ i \in 1 .. Len(s) /\ Len(s) \in Nat
      /\ s[i] \in BOOLEAN
  BY <1>1 DEF Orders
<1>4. /\ r \in Seq(BOOLEAN) /\ Len(r) = Len(s) - 1
      /\ i < Len(s) => r[Len(s) - 1] = s[Len(s)]
  BY <1>3, RemoveKeepsLast
<1>5. commands'[m] = r /\ \A w \in Miners \ {m} : commands'[w] = commands[w]
  BY <1>1 DEF Orders
<1>6. /\ \A w \in Miners \ {m} : miner'[w] = miner[w] /\ missed'[w] = missed[w]
      /\ miner' \in [Miners -> BOOLEAN] /\ missed' \in [Miners -> BOOLEAN]
  <2>1. CASE Deliver(m, i)
    BY <1>3, <2>1, Zenon DEF Deliver, Orders
  <2>2. CASE Fail(m, i)
    BY <1>3, <2>2, Zenon DEF Fail, Orders
  <2> QED
    BY <1>1, <2>1, <2>2
<1>7. commands' \in [Miners -> Seq(BOOLEAN)]
  BY <1>1, <1>4 DEF Orders
<1>8. ~missed'[m] => /\ ~missed[m]
                     /\ i = Len(s) => i = 1 /\ miner'[m] = s[1]
  <2>1. CASE Deliver(m, i)
    <3>1. missed'[m] = (missed[m] \/ (i = Len(s) /\ i > 1))
      BY <2>1, Zenon DEF Deliver, Orders
    <3>2. miner'[m] = s[i]
      BY <2>1, Zenon DEF Deliver, Orders
    <3>3. i > 1 \/ i = 1
      BY <1>3
    <3> QED
      BY <3>1, <3>2, <3>3, Zenon
  <2>2. CASE Fail(m, i)
    <3>1. missed'[m] = (missed[m] \/ i = Len(s))
      BY <2>2, Zenon DEF Fail, Orders
    <3> QED
      BY <3>1, Zenon
  <2> QED
    BY <1>1, <2>1, <2>2
<1>9. s # <<>> /\ (i = Len(s) /\ i = 1 => r = <<>> /\ s[Len(s)] = s[1])
  BY <1>3, <1>4
<1>10. i # Len(s) => r # <<>> /\ r[Len(r)] = s[Len(s)]
  BY <1>3, <1>4
<1>11. ~missed'[m] => IF commands'[m] = <<>>
                      THEN miner'[m] <=> Believed'
                      ELSE commands'[m][Len(commands'[m])] <=> Believed'
  <2> SUFFICES ASSUME ~missed'[m]
               PROVE  IF r = <<>> THEN miner'[m] <=> Believed ELSE r[Len(r)] <=> Believed
    BY <1>2, <1>5, Zenon
  <2>1. s[Len(s)] <=> Believed
    BY <1>8, <1>9, Zenon DEF Orders
  <2> HIDE DEF s, r
  <2>2. CASE i = Len(s)
    BY <1>8, <1>9, <2>1, <2>2, Zenon
  <2>3. CASE i # Len(s)
    BY <1>10, <2>1, <2>3, Zenon
  <2> QED
    BY <2>2, <2>3
<1>12. \A w \in Miners \ {m} :
         ~missed'[w] => IF commands'[w] = <<>>
                        THEN miner'[w] <=> Believed'
                        ELSE commands'[w][Len(commands'[w])] <=> Believed'
  BY <1>2, <1>5, <1>6, Zenon DEF Orders
<1>13. \A w \in Miners :
         ~missed'[w] => IF commands'[w] = <<>>
                        THEN miner'[w] <=> Believed'
                        ELSE commands'[w][Len(commands'[w])] <=> Believed'
  BY <1>11, <1>12, Zenon
<1> QED
  BY <1>6, <1>7, <1>13, Zenon DEF Orders

LEMMA OrdersStep == Orders /\ [PowerNext]_powerVars => Orders'
<1> SUFFICES ASSUME Orders, [PowerNext]_powerVars PROVE Orders'
  OBVIOUS
<1>1. ASSUME UNCHANGED <<commands, miner, missed>>, Believed' <=> Believed PROVE Orders'
  BY <1>1, Zenon DEF Orders
<1>2. CASE Tick \/ Sample \/ PollFails \/ LoadChanges \/ UNCHANGED powerVars
  <2>1. UNCHANGED <<commands, miner, missed>> /\ (Believed' <=> Believed)
    BY <1>2 DEF Tick, Sample, PollFails, LoadChanges, powerVars, orders, Believed
  <2> QED
    BY <1>1, <2>1
<1>3. ASSUME NEW v \in Loads, Retry(v) \/ Keep(v) \/ StartDelay(v) \/ Wait(v) \/ Abandon(v)
      PROVE  Orders'
  <2>1. UNCHANGED <<commands, miner, missed>> /\ (Believed' <=> Believed)
    BY <1>3 DEF Retry, Keep, StartDelay, Wait, Abandon, orders, Believed
  <2> QED
    BY <1>1, <2>1
<1>4. ASSUME NEW v \in Loads, Disable(v) PROVE Orders'
  <2>1. AllMinersEnable(FALSE) /\ lpstate' = 1
    BY <1>4 DEF Disable
  <2>2. ~Believed'
    BY <2>1 DEF Believed
  <2>3. FALSE <=> Believed'
    BY <2>2, Zenon
  <2> QED
    BY <2>1, <2>3, EnableKeeps
<1>5. ASSUME NEW v \in Loads, Enable(v) PROVE Orders'
  <2>1. AllMinersEnable(TRUE) /\ (TRUE <=> Believed')
    BY <1>5 DEF Enable, Believed
  <2> QED
    BY <2>1, EnableKeeps
<1>6. ASSUME NEW m \in Miners, CommandEnds(m) PROVE Orders'
  BY <1>6, CommandKeeps
<1> QED
  BY <1>2, <1>3, <1>4, <1>5, <1>6 DEF PowerNext, ProcessLoadPower

(* However many miners there are and however many commands are under way, a *)
(* miner that missed nothing does in the end what the monitor believes.     *)
THEOREM LatestRules == PowerSpec => []LatestCommandRules
<1>1. PowerInit => Orders
  <2> SUFFICES ASSUME PowerInit PROVE Orders
    OBVIOUS
  <2>1. /\ <<TRUE>> \in Seq(BOOLEAN) /\ <<TRUE>> # <<>> /\ Len(<<TRUE>>) = 1
        /\ <<TRUE>>[1] = TRUE
    OBVIOUS
  <2>2. lpstate = 0 /\ commands = [m \in Miners |-> <<TRUE>>]
    BY DEF PowerInit
  <2>3. /\ commands \in [Miners -> Seq(BOOLEAN)] /\ miner \in [Miners -> BOOLEAN]
        /\ missed \in [Miners -> BOOLEAN]
    BY <2>1 DEF PowerInit
  <2>4. \A m \in Miners : commands[m] # <<>> /\ commands[m][Len(commands[m])] = TRUE
    BY <2>1, <2>2
  <2> QED
    BY <2>2, <2>3, <2>4, Zenon DEF Orders, Believed
<1>2. Orders => LatestCommandRules
  BY Zenon DEF Orders, LatestCommandRules, Believed
<1> QED
  BY <1>1, <1>2, OrdersStep, PTL DEF PowerSpec
=============================================================================
