------------------------------ MODULE EspProofs ------------------------------
(* Theorems about HttpClient and EspSensor, for any number of requests, sizes of *)
(* packets and of the buffer, and times of the conversion and of the timer; and  *)
(* about ChunkedBody, for any bodies in chunks, cut anywhere.                    *)
EXTENDS MCEspSensor, Integers, SequenceTheorems, WellFoundedInduction, TLAPS

USE BufferAssumption, TimeAssumption

Phases == {"idle", "dns", "connecting", "open", "closing", "over", "crashed"}
Statuses == {"none", "error", "answer", "part", "wild"}
Reaches == {"nothing", "name", "server", "body"}

RequestType ==
  [phase : Phases, ptr : [Blocks -> {"null", "live", "freed"}],
   size : 0..MaxBuffer, head : {"empty", "odd", "partial", "complete", "whole"},
   packets : 0..MaxPackets, cut : BOOLEAN, unsent : 0..1,
   calls : Nat, status : Statuses, bad : BOOLEAN,
   copied : SUBSET Strings, reached : Reaches]

Live(q, B) == \A b \in B : q.ptr[b] = "live"
Null(q, B) == \A b \in B : q.ptr[b] = "null"

(* A string is there when it was copied.                                         *)
Copies(q, B) == \A b \in B : q.ptr[b] = IF b \in q.copied THEN "live" ELSE "null"

(* The blocks that a request owns, by its phase.  Before a request is over       *)
(* nothing of it is freed that it still knows; the header is forgotten when it   *)
(* is sent, the data to post when they are.                                      *)
Owns(q) ==
  /\ q.phase = "idle" => Null(q, Blocks)
  /\ q.phase = "dns" => /\ Live(q, {"req", "buffer"}) /\ Null(q, {"conn", "tcp"})
                        /\ Copies(q, Strings) /\ q.reached = "nothing"
  /\ q.phase = "connecting" => /\ Live(q, {"req", "buffer", "conn", "tcp"})
                               /\ Copies(q, Strings) /\ q.reached = "name"
  /\ q.phase \in {"open", "closing"} =>
       /\ Live(q, {"req", "buffer", "conn", "tcp"})
       /\ Copies(q, {"hostname", "path"}) /\ Null(q, {"headers"})
       /\ \/ q.reached = "server" /\ Copies(q, {"post"})
          \/ q.reached = "body" /\ Null(q, {"post"})
  /\ q.phase = "over" =>
       \A b \in Blocks : q.ptr[b] = "live" <=>
                           b \in LeftOf(q.reached) \cap (q.copied \cup {"buffer"})
  /\ q.phase = "crashed" => \/ ~({"hostname", "path", "headers"} \subseteq q.copied)
                            \/ q.head \in {"partial", "complete"}

(* The user is called when the request is over; a request of which a packet was  *)
(* dropped has nothing in its buffer that looks like the start of an answer.     *)
Tells(q) ==
  /\ q.phase # "over" => q.calls = 0 /\ q.status = "none"
  /\ q.phase = "over" => q.calls = 1
  /\ q.cut => q.head \in {"empty", "odd"} /\ q.status \in {"none", "error"}
  /\ q.phase \in {"idle", "dns"} => ~q.cut

Right(q) == q \in RequestType /\ ~q.bad /\ Owns(q) /\ Tells(q)

EInv == /\ req \in [Requests -> RequestType]
        /\ \A r \in Requests : Right(req[r])

(* The conversion is over before the timer.                                      *)
CInv == /\ timer \in 0..Delay /\ conv \in 0..Conversion
        /\ timer > 0 => conv < timer
        /\ reading # "converting"

------------------------------------------------------------------------------
(* Memory.                                                                       *)

(* All of a request but its blocks.                                              *)
Same(q, u) ==
  /\ u.phase = q.phase /\ u.size = q.size /\ u.head = q.head /\ u.packets = q.packets
  /\ u.cut = q.cut /\ u.unsent = q.unsent /\ u.calls = q.calls /\ u.status = q.status
  /\ u.bad = q.bad /\ u.copied = q.copied /\ u.reached = q.reached

LEMMA UseRight ==
  ASSUME NEW q \in RequestType, NEW B, Live(q, B), ~q.bad
  PROVE  /\ Use(q, B) \in RequestType /\ Same(q, Use(q, B))
         /\ Use(q, B).ptr = q.ptr
<1> DEFINE b == q.bad \/ \E x \in B : q.ptr[x] # "live"
<1>1. b = FALSE
  BY DEF Live, RequestType
<1>2. Use(q, B) = [q EXCEPT !.bad = b]
  BY DEF Use
<1>3. q.bad = FALSE
  BY DEF RequestType
<1> HIDE DEF b
<1> QED
  BY <1>1, <1>2, <1>3 DEF RequestType, Same

LEMMA AllocRight ==
  ASSUME NEW q \in RequestType, NEW B
  PROVE  /\ Alloc(q, B) \in RequestType /\ Same(q, Alloc(q, B))
         /\ \A b \in Blocks : Alloc(q, B).ptr[b] = IF b \in B THEN "live" ELSE q.ptr[b]
<1> DEFINE f == [b \in Blocks |-> IF b \in B THEN "live" ELSE q.ptr[b]]
<1>1. Alloc(q, B) = [q EXCEPT !.ptr = f]
  BY DEF Alloc
<1>2. f \in [Blocks -> {"null", "live", "freed"}]
  BY DEF RequestType
<1>3. \A b \in Blocks : f[b] = IF b \in B THEN "live" ELSE q.ptr[b]
  OBVIOUS
<1> HIDE DEF f
<1> QED
  BY <1>1, <1>2, <1>3 DEF RequestType, Same

LEMMA FreeRight ==
  ASSUME NEW q \in RequestType, NEW B, \A b \in B : q.ptr[b] # "freed", ~q.bad
  PROVE  /\ Free(q, B) \in RequestType /\ Same(q, Free(q, B))
         /\ \A b \in Blocks : Free(q, B).ptr[b] = IF b \in B /\ q.ptr[b] = "live" THEN "freed"
                                                ELSE q.ptr[b]
<1> DEFINE f == [b \in Blocks |-> IF b \in B /\ q.ptr[b] = "live" THEN "freed" ELSE q.ptr[b]]
           bad == q.bad \/ \E b \in B : q.ptr[b] = "freed"
           one == [q EXCEPT !.bad = bad]
<1>1. Free(q, B) = [one EXCEPT !.ptr = f]
  BY DEF Free
<1>2. f \in [Blocks -> {"null", "live", "freed"}]
  BY DEF RequestType
<1>3. \A b \in Blocks : f[b] = IF b \in B /\ q.ptr[b] = "live" THEN "freed" ELSE q.ptr[b]
  OBVIOUS
<1>4. bad = FALSE /\ q.bad = FALSE
  BY DEF RequestType
<1> HIDE DEF f, bad
<1>5. one \in RequestType /\ Same(q, one) /\ one.ptr = q.ptr
  BY <1>4 DEF RequestType, Same
<1> HIDE DEF one
<1> QED
  BY <1>1, <1>2, <1>3, <1>5 DEF RequestType, Same

LEMMA ForgetRight ==
  ASSUME NEW q \in RequestType, NEW b \in Blocks, q.ptr[b] # "freed", ~q.bad
  PROVE  /\ FreeAndForget(q, b) \in RequestType /\ Same(q, FreeAndForget(q, b))
         /\ \A c \in Blocks : FreeAndForget(q, b).ptr[c] = IF c = b THEN "null" ELSE q.ptr[c]
<1> DEFINE f == Free(q, {b})
           u == [f EXCEPT !.ptr[b] = "null"]
           p == [f.ptr EXCEPT ![b] = "null"]
<1>1. /\ f \in RequestType /\ Same(q, f)
      /\ \A c \in Blocks : f.ptr[c] = IF c = b /\ q.ptr[c] = "live" THEN "freed" ELSE q.ptr[c]
  BY FreeRight
<1>2. FreeAndForget(q, b) = u
  BY DEF FreeAndForget
<1> HIDE DEF f
<1>3. u = [f EXCEPT !.ptr = p]
  OBVIOUS
<1>4. /\ p \in [Blocks -> {"null", "live", "freed"}]
      /\ \A c \in Blocks : p[c] = IF c = b THEN "null" ELSE f.ptr[c]
  BY <1>1 DEF RequestType
<1> HIDE DEF p, u
<1>5. u \in RequestType /\ Same(f, u) /\ u.ptr = p
  BY <1>1, <1>3, <1>4 DEF RequestType, Same
<1>6. Same(q, u)
  BY <1>1, <1>5 DEF Same
<1> QED
  BY <1>1, <1>2, <1>4, <1>5, <1>6

LEMMA CallRight ==
  ASSUME NEW q \in RequestType, NEW s \in Statuses
  PROVE  LET u == CallUser(q, s)
         IN  /\ u \in RequestType /\ u.calls = q.calls + 1 /\ u.status = s
             /\ u.ptr = q.ptr /\ u.phase = q.phase /\ u.cut = q.cut /\ u.head = q.head
             /\ u.bad = q.bad /\ u.copied = q.copied /\ u.reached = q.reached
<1> DEFINE n == q.calls + 1
           one == [q EXCEPT !.calls = n]
           u == [one EXCEPT !.status = s]
<1>1. CallUser(q, s) = u
  BY DEF CallUser
<1>2. n \in Nat
  BY DEF RequestType
<1> HIDE DEF n
<1>3. /\ one \in RequestType /\ one.calls = n /\ one.ptr = q.ptr /\ one.phase = q.phase
      /\ one.cut = q.cut /\ one.head = q.head /\ one.bad = q.bad
      /\ one.copied = q.copied /\ one.reached = q.reached
  BY <1>2 DEF RequestType
<1> HIDE DEF one
<1>4. /\ u \in RequestType /\ u.calls = n /\ u.status = s /\ u.ptr = one.ptr
      /\ u.phase = one.phase /\ u.cut = one.cut /\ u.head = one.head /\ u.bad = one.bad
      /\ u.copied = one.copied /\ u.reached = one.reached
  BY <1>3 DEF RequestType
<1> QED
  BY <1>1, <1>3, <1>4 DEF n

(* What a request says of itself, but its phase and how far it came.             *)
Kept(q, u) ==
  /\ u.ptr = q.ptr /\ u.calls = q.calls /\ u.status = q.status /\ u.cut = q.cut
  /\ u.head = q.head /\ u.bad = q.bad /\ u.copied = q.copied

LEMMA PhaseRight ==
  ASSUME NEW q \in RequestType, NEW p \in Phases
  PROVE  LET u == [q EXCEPT !.phase = p]
         IN  u \in RequestType /\ u.phase = p /\ Kept(q, u) /\ u.reached = q.reached
BY DEF RequestType, Kept

LEMMA ReachedRight ==
  ASSUME NEW q \in RequestType, NEW x \in Reaches
  PROVE  LET u == [q EXCEPT !.reached = x]
         IN  u \in RequestType /\ u.phase = q.phase /\ Kept(q, u) /\ u.reached = x
BY DEF RequestType, Kept

LEMMA OneBit == 0 \in 0 .. 1 /\ 1 \in 0 .. 1
OBVIOUS

LEMMA UnsentRight ==
  ASSUME NEW q \in RequestType, NEW n \in 0 .. 1
  PROVE  LET u == [q EXCEPT !.unsent = n]
         IN  u \in RequestType /\ u.phase = q.phase /\ Kept(q, u) /\ u.reached = q.reached
BY DEF RequestType, Kept

(* A request that keeps what it says of itself stays right.                      *)
LEMMA KeptRight ==
  ASSUME NEW q, NEW u \in RequestType, Right(q), Kept(q, u), u.phase = q.phase,
         u.reached = q.reached
  PROVE  Right(u)
BY DEF Right, Owns, Tells, Kept, Live, Null, Copies

------------------------------------------------------------------------------
(* The callbacks.                                                                *)

LEMMA IdleRight == Right(Idle)
BY DEF Right, Idle, RequestType, Owns, Tells, Null, Blocks, Phases, Statuses, Reaches

LEMMA BlocksAre == /\ Strings \subseteq Blocks
                   /\ \A b \in {"req", "buffer", "conn", "tcp"} : b \in Blocks /\ b \notin Strings
                   /\ Strings = {"hostname", "path", "headers", "post"}
                   /\ Blocks = {"hostname", "path", "headers", "post", "req", "buffer", "conn", "tcp"}
BY DEF Strings, Blocks

LEMMA NewRight ==
  ASSUME NEW copied \in SUBSET Strings
  PROVE  Right(NewRequest(copied)) /\ NewRequest(copied).phase = "dns"
<1> DEFINE owned == {"req", "buffer"} \cup copied
           a == Alloc(Idle, owned)
           one == [a EXCEPT !.phase = "dns"]
           two == [one EXCEPT !.size = 1]
           new == [two EXCEPT !.copied = copied]
<1>1. Idle \in RequestType /\ Idle.ptr = [b \in Blocks |-> "null"]
  BY IdleRight DEF Idle, Right
<1>2. /\ a \in RequestType /\ Same(Idle, a)
      /\ \A b \in Blocks : a.ptr[b] = IF b \in owned THEN "live" ELSE Idle.ptr[b]
  BY <1>1, AllocRight
<1>3. /\ Live(a, {"req", "buffer"}) /\ Null(a, {"conn", "tcp"})
      /\ \A b \in Strings : a.ptr[b] = IF b \in copied THEN "live" ELSE "null"
  BY <1>1, <1>2, BlocksAre DEF Live, Null
<1>4. /\ a.calls = 0 /\ a.status = "none" /\ a.cut = FALSE /\ a.bad = FALSE
      /\ a.reached = "nothing"
  BY <1>2 DEF Same, Idle
<1> HIDE DEF a, owned
<1>5. 1 \in 0 .. MaxBuffer /\ "dns" \in Phases
  BY BufferAssumption DEF Phases
<1>6. /\ one \in RequestType /\ one.phase = "dns" /\ Kept(a, one) /\ one.reached = a.reached
  BY <1>2, <1>5, PhaseRight
<1> HIDE DEF one
<1>7. /\ two \in RequestType /\ two.phase = "dns" /\ Kept(a, two) /\ two.reached = a.reached
  BY <1>5, <1>6 DEF RequestType, Kept
<1> HIDE DEF two
<1>8. /\ new \in RequestType /\ new.phase = "dns" /\ new.ptr = a.ptr /\ new.calls = 0
      /\ new.status = "none" /\ new.cut = FALSE /\ new.bad = FALSE
      /\ new.copied = copied /\ new.reached = "nothing"
  BY <1>4, <1>7 DEF RequestType, Kept
<1> HIDE DEF new
<1>9. Right(new)
  BY <1>3, <1>8 DEF Right, Owns, Tells, Live, Null, Copies
<1> QED
  BY <1>8, <1>9 DEF new, two, one, a, owned, NewRequest

LEMMA DnsFoundRight ==
  ASSUME NEW q, Right(q), q.phase = "dns"
  PROVE  Right(DnsFound(q)) /\ DnsFound(q).phase = "connecting"
<1> DEFINE a == Alloc(q, {"conn", "tcp"})
           u == Use(a, {"req"})
           o == [u EXCEPT !.phase = "connecting"]
           v == [o EXCEPT !.reached = "name"]
<1>1. /\ a \in RequestType /\ Same(q, a)
      /\ \A b \in Blocks : a.ptr[b] = IF b \in {"conn", "tcp"} THEN "live" ELSE q.ptr[b]
  BY AllocRight DEF Right
<1>2. Live(a, {"req", "buffer", "conn", "tcp"}) /\ Copies(a, Strings)
  <2>1. Live(q, {"req", "buffer"}) /\ Copies(q, Strings) /\ a.copied = q.copied
    BY <1>1 DEF Right, Owns, Same
  <2> QED
    BY <1>1, <2>1, BlocksAre DEF Live, Copies
<1>3. a.calls = 0 /\ a.status = "none" /\ ~a.cut /\ ~a.bad
  BY <1>1 DEF Same, Right, Tells
<1> HIDE DEF a
<1>4. u \in RequestType /\ Same(a, u) /\ u.ptr = a.ptr
  BY <1>1, <1>2, <1>3, UseRight DEF Live
<1> HIDE DEF u
<1>5. "connecting" \in Phases /\ "name" \in Reaches
  BY DEF Phases, Reaches
<1>6. o \in RequestType /\ o.phase = "connecting" /\ Kept(u, o)
  BY <1>4, <1>5, PhaseRight
<1> HIDE DEF o
<1>7. v \in RequestType /\ v.phase = "connecting" /\ Kept(o, v) /\ v.reached = "name"
  BY <1>5, <1>6, ReachedRight
<1> HIDE DEF v
<1>8. Right(v)
  BY <1>2, <1>3, <1>4, <1>6, <1>7 DEF Right, Owns, Tells, Same, Kept, Live, Copies
<1> QED
  BY <1>7, <1>8 DEF v, o, u, a, DnsFound

LEMMA DnsFailedRight ==
  ASSUME NEW q, Right(q), q.phase = "dns"
  PROVE  Right(DnsFailed(q)) /\ DnsFailed(q).phase = "over"
<1> DEFINE u == Use(q, {"req"})
           c == CallUser(u, "error")
           f == Free(c, {"req"})
           o == [f EXCEPT !.phase = "over"]
<1>0. "error" \in Statuses /\ "over" \in Phases
  BY DEF Statuses, Phases
<1>1. u \in RequestType /\ Same(q, u) /\ u.ptr = q.ptr
  BY UseRight DEF Right, Owns, Live
<1> HIDE DEF u
<1>2. /\ c \in RequestType /\ c.calls = u.calls + 1 /\ c.status = "error"
      /\ c.ptr = u.ptr /\ c.phase = u.phase /\ c.cut = u.cut /\ c.head = u.head
      /\ c.bad = u.bad /\ c.copied = u.copied /\ c.reached = u.reached
  BY <1>0, <1>1, CallRight
<1> HIDE DEF c
<1>3. c.calls = 1 /\ ~c.cut /\ ~c.bad
  BY <1>1, <1>2 DEF Right, Same, Tells
<1>4. /\ f \in RequestType /\ Same(c, f)
      /\ \A b \in Blocks : f.ptr[b] = IF b \in {"req"} /\ c.ptr[b] = "live" THEN "freed"
                                      ELSE c.ptr[b]
  BY <1>1, <1>2, <1>3, FreeRight DEF Right, Owns, Live
<1> HIDE DEF f
<1>5. f.copied = q.copied /\ f.reached = "nothing"
  BY <1>1, <1>2, <1>4 DEF Same, Right, Owns
<1>6. \A b \in Blocks : f.ptr[b] = "live" <=>
                          b \in LeftOf("nothing") \cap (f.copied \cup {"buffer"})
  <2>1. /\ Live(q, {"req", "buffer"}) /\ Null(q, {"conn", "tcp"}) /\ Copies(q, Strings)
        /\ \A b \in Blocks : f.ptr[b] = IF b = "req" /\ q.ptr[b] = "live" THEN "freed" ELSE q.ptr[b]
    BY <1>1, <1>2, <1>4 DEF Right, Owns
  <2>2. f.copied \subseteq Strings /\ LeftOf("nothing") = Strings \cup {"buffer"}
    BY <1>4 DEF RequestType, LeftOf
  <2>3. ASSUME NEW b \in Strings PROVE f.ptr[b] = "live" <=> b \in f.copied
    BY <1>5, <2>1, BlocksAre DEF Copies
  <2> QED
    BY <2>1, <2>2, <2>3, BlocksAre DEF Live, Null
<1>7. o \in RequestType /\ o.phase = "over" /\ Kept(f, o) /\ o.reached = f.reached
  BY <1>0, <1>4, PhaseRight
<1> HIDE DEF o
<1>8. Owns(o)
  BY <1>5, <1>6, <1>7 DEF Owns, Kept
<1>9. ~o.bad /\ Tells(o)
  BY <1>2, <1>3, <1>4, <1>7 DEF Tells, Same, Kept
<1> QED
  BY <1>7, <1>8, <1>9 DEF o, f, c, u, DnsFailed, Right

LEMMA ConnectRight ==
  ASSUME NEW q, Right(q), q.phase = "connecting", NEW v \in connect_callback(q)
  PROVE  Right(v)
<1> DEFINE null == {b \in Strings : q.ptr[b] = "null"}
           used == {"conn", "req"} \cup (Strings \ null)
           u == Use(q, used)
           f == FreeAndForget(u, "headers")
           o == [f EXCEPT !.phase = "open"]
           n == [o EXCEPT !.unsent = 1]
           w == [n EXCEPT !.reached = "server"]
<1>0. /\ q \in RequestType /\ ~q.bad /\ Live(q, {"req", "buffer", "conn", "tcp"})
      /\ Copies(q, Strings)
  BY DEF Right, Owns
<1>1. CASE v = w
  <2>1. Live(q, used)
    BY <1>0 DEF Live, Copies
  <2> HIDE DEF used
  <2>2. u \in RequestType /\ Same(q, u) /\ u.ptr = q.ptr
    BY <1>0, <2>1, UseRight
  <2> HIDE DEF u
  <2>3. u.ptr["headers"] # "freed" /\ ~u.bad
    BY <1>0, <2>2, BlocksAre DEF Copies, Same
  <2>4. /\ f \in RequestType /\ Same(u, f)
        /\ \A c \in Blocks : f.ptr[c] = IF c = "headers" THEN "null" ELSE u.ptr[c]
    BY <2>2, <2>3, ForgetRight, BlocksAre
  <2> HIDE DEF f
  <2>5. f.copied = q.copied
    BY <2>2, <2>4 DEF Same
  <2>6. /\ Live(f, {"req", "buffer", "conn", "tcp"}) /\ Copies(f, {"hostname", "path", "post"})
        /\ Null(f, {"headers"})
    BY <1>0, <2>2, <2>4, <2>5, BlocksAre DEF Live, Copies, Null
  <2>7. "open" \in Phases /\ "server" \in Reaches
    BY DEF Phases, Reaches
  <2>8. o \in RequestType /\ o.phase = "open" /\ Kept(f, o)
    BY <2>4, <2>7, PhaseRight
  <2> HIDE DEF o
  <2>9. n \in RequestType /\ n.phase = "open" /\ Kept(o, n)
    BY <2>8, OneBit, UnsentRight
  <2> HIDE DEF n
  <2>10. w \in RequestType /\ w.phase = "open" /\ Kept(n, w) /\ w.reached = "server"
    BY <2>7, <2>9, ReachedRight
  <2> HIDE DEF w
  <2>11. Owns(w)
    BY <2>6, <2>8, <2>9, <2>10 DEF Owns, Kept, Live, Null, Copies
  <2>12. Tells(w) /\ ~w.bad
    BY <2>2, <2>4, <2>8, <2>9, <2>10 DEF Right, Tells, Same, Kept
  <2> QED
    BY <1>1, <2>10, <2>11, <2>12 DEF Right
<1>2. CASE v = Crash(q) /\ ~(null \subseteq {"post"})
  <2>1. "crashed" \in Phases
    BY DEF Phases
  <2>2. v \in RequestType /\ v.phase = "crashed" /\ Kept(q, v)
    BY <1>0, <1>2, <2>1, PhaseRight DEF Crash
  <2>3. ~({"hostname", "path", "headers"} \subseteq v.copied)
    BY <1>0, <1>2, <2>2, BlocksAre DEF Copies, Kept
  <2>4. Owns(v)
    BY <2>2, <2>3 DEF Owns
  <2>5. Tells(v) /\ ~v.bad
    BY <2>2 DEF Right, Tells, Kept
  <2> QED
    BY <2>2, <2>4, <2>5 DEF Right
<1>3. w = [f EXCEPT !.phase = "open", !.unsent = 1, !.reached = "server"]
  OBVIOUS
<1>4. v \in {w} \cup IF null \subseteq {"post"} THEN {} ELSE {Crash(q)}
  BY <1>3, Zenon DEF connect_callback
<1> HIDE DEF w, null
<1> QED
  BY <1>1, <1>2, <1>4

Open(q) == q.phase \in {"open", "closing"}

LEMMA OpenOwns ==
  ASSUME NEW q, Right(q), Open(q)
  PROVE  /\ q \in RequestType /\ ~q.bad
         /\ Live(q, {"req", "buffer", "conn", "tcp"})
         /\ Copies(q, {"hostname", "path"}) /\ Null(q, {"headers"})
         /\ \/ q.reached = "server" /\ Copies(q, {"post"})
            \/ q.reached = "body" /\ Null(q, {"post"})
BY DEF Right, Owns, Open

LEMMA SentRight ==
  ASSUME NEW q, Right(q), Open(q)
  PROVE  Right(sent_callback(q)) /\ Open(sent_callback(q))
<1>0. "body" \in Reaches
  BY DEF Reaches
<1>1. CASE q.ptr["post"] = "null"
  <2> DEFINE u == Use(q, {"conn", "req"})
             n == [u EXCEPT !.unsent = 0]
             v == [n EXCEPT !.reached = "body"]
  <2>1. u \in RequestType /\ Same(q, u) /\ u.ptr = q.ptr
    BY OpenOwns, UseRight DEF Live
  <2> HIDE DEF u
  <2>2. n \in RequestType /\ n.phase = u.phase /\ Kept(u, n)
    BY <2>1, OneBit, UnsentRight
  <2> HIDE DEF n
  <2>3. v \in RequestType /\ v.phase = n.phase /\ Kept(n, v) /\ v.reached = "body"
    BY <1>0, <2>2, ReachedRight
  <2> HIDE DEF v
  <2>4. Open(v)
    BY <2>1, <2>2, <2>3 DEF Open, Same
  <2>5. Owns(v)
    BY <1>1, <2>1, <2>2, <2>3, <2>4, OpenOwns DEF Owns, Same, Kept, Live, Null, Copies, Open
  <2>6. Tells(v) /\ ~v.bad
    BY <2>1, <2>2, <2>3, <2>4 DEF Right, Tells, Same, Kept, Open
  <2> QED
    BY <1>1, <2>3, <2>4, <2>5, <2>6 DEF v, n, u, sent_callback, Right
<1>2. CASE q.ptr["post"] # "null"
  <2> DEFINE u == Use(q, {"conn", "req", "post"})
             f == FreeAndForget(u, "post")
             v == [f EXCEPT !.reached = "body"]
  <2>0. q.ptr["post"] = "live"
    BY <1>2, OpenOwns DEF Copies, Null
  <2>1. u \in RequestType /\ Same(q, u) /\ u.ptr = q.ptr
    BY <2>0, OpenOwns, UseRight DEF Live
  <2> HIDE DEF u
  <2>2. u.ptr["post"] = "live" /\ ~u.bad
    BY <2>0, <2>1, OpenOwns DEF Same
  <2>3. /\ f \in RequestType /\ Same(u, f)
        /\ \A c \in Blocks : f.ptr[c] = IF c = "post" THEN "null" ELSE u.ptr[c]
    BY <2>1, <2>2, ForgetRight, BlocksAre
  <2> HIDE DEF f
  <2>4. v \in RequestType /\ v.phase = f.phase /\ Kept(f, v) /\ v.reached = "body"
    BY <1>0, <2>3, ReachedRight
  <2> HIDE DEF v
  <2>5. Open(v) /\ v.copied = q.copied
    BY <2>1, <2>3, <2>4 DEF Open, Same, Kept
  <2>6. /\ \A c \in Blocks : v.ptr[c] = IF c = "post" THEN "null" ELSE q.ptr[c]
    BY <2>1, <2>3, <2>4 DEF Kept
  <2>7. /\ Live(v, {"req", "buffer", "conn", "tcp"}) /\ Null(v, {"headers"}) /\ Null(v, {"post"})
        /\ Copies(v, {"hostname", "path"})
    BY <2>5, <2>6, OpenOwns, BlocksAre DEF Live, Null, Copies
  <2>8. Owns(v)
    BY <2>4, <2>5, <2>7 DEF Owns, Open
  <2>9. Tells(v) /\ ~v.bad
    BY <2>1, <2>2, <2>3, <2>4, <2>5 DEF Right, Tells, Same, Kept, Open
  <2> QED
    BY <1>2, <2>4, <2>5, <2>8, <2>9 DEF v, f, u, sent_callback, Right
<1> QED
  BY <1>1, <1>2

(* A buffer that was emptied by the loss of a packet never again looks like the  *)
(* start of an answer.                                                           *)
LEMMA ReceiveRight ==
  ASSUME NEW q, Right(q), Open(q), q.packets < MaxPackets, NEW n \in 1 .. MaxPacket,
         NEW v \in receive_callback(q, n)
  PROVE  Right(v) /\ Open(v)
<1> DEFINE k == q.packets + 1
           u == Use(q, {"conn", "req", "buffer"})
           p == [u EXCEPT !.packets = k]
<1>1. u \in RequestType /\ Same(q, u) /\ u.ptr = q.ptr
  BY OpenOwns, UseRight DEF Live
<1>2. k \in 0 .. MaxPackets
  BY BufferAssumption DEF Right, RequestType
<1>3. u.packets = q.packets
  BY <1>1 DEF Same
<1> HIDE DEF u
<1>4. p = [u EXCEPT !.packets = @ + 1]
  BY <1>3
<1> HIDE DEF k
<1>5. /\ p \in RequestType /\ Kept(u, p) /\ p.phase = u.phase /\ p.size = u.size
      /\ p.reached = u.reached
  BY <1>1, <1>2 DEF RequestType, Kept
<1>6. /\ Kept(q, p) /\ p.phase = q.phase /\ p.size = q.size /\ p.reached = q.reached
  BY <1>1, <1>5 DEF Same, Kept
<1> HIDE DEF p
<1> DEFINE sum == q.size + n
           c == [p EXCEPT !.head = "empty"]
           d == [c EXCEPT !.cut = TRUE]
           drop == [d EXCEPT !.phase = "closing"]
           s == [p EXCEPT !.size = sum]
<1>7. \/ v = drop
      \/ sum <= MaxBuffer /\ \E h \in Appended(q) : v = [s EXCEPT !.head = h]
  <2>1. v \in IF q.size + n > MaxBuffer THEN {drop}
              ELSE {[p EXCEPT !.size = @ + n, !.head = h] : h \in Appended(q)} \cup {drop}
    BY <1>4 DEF receive_callback, u
  <2> HIDE DEF drop
  <2>2. \/ v = drop
        \/ /\ ~(q.size + n > MaxBuffer)
           /\ \E h \in Appended(q) : v = [p EXCEPT !.size = @ + n, !.head = h]
    BY <2>1
  <2>3. \A h : [p EXCEPT !.size = @ + n, !.head = h] = [s EXCEPT !.head = h]
    BY <1>6
  <2>4. ~(q.size + n > MaxBuffer) => sum <= MaxBuffer
    BY BufferAssumption DEF Right, RequestType
  <2> HIDE DEF s, sum
  <2> QED
    BY <2>2, <2>3, <2>4
<1>8. CASE v = drop
  <2>0. "closing" \in Phases
    BY DEF Phases
  <2>1. c \in RequestType /\ c.head = "empty" /\ c.ptr = p.ptr /\ c.calls = p.calls
        /\ c.status = p.status /\ c.bad = p.bad /\ c.copied = p.copied /\ c.reached = p.reached
    BY <1>5 DEF RequestType
  <2> HIDE DEF c
  <2>2. d \in RequestType /\ d.head = "empty" /\ d.ptr = p.ptr /\ d.calls = p.calls
        /\ d.status = p.status /\ d.bad = p.bad /\ d.copied = p.copied /\ d.reached = p.reached
    BY <2>1 DEF RequestType
  <2> HIDE DEF d
  <2>3. drop \in RequestType /\ drop.phase = "closing" /\ Kept(d, drop)
        /\ drop.reached = d.reached
    BY <2>0, <2>2, PhaseRight
  <2> HIDE DEF drop
  <2>4. drop.ptr = q.ptr /\ drop.copied = q.copied /\ drop.reached = q.reached
    BY <1>6, <2>2, <2>3 DEF Kept
  <2>5. Owns(drop)
    BY <2>3, <2>4, OpenOwns DEF Owns, Live, Null, Copies
  <2>6. Tells(drop) /\ ~drop.bad
    BY <1>6, <2>2, <2>3 DEF Right, Tells, Kept, Open
  <2> QED
    BY <1>8, <2>3, <2>5, <2>6 DEF Right, Open
<1>9. ASSUME sum <= MaxBuffer, NEW h \in Appended(q), v = [s EXCEPT !.head = h]
      PROVE  Right(v) /\ Open(v)
  <2>1. sum \in 0 .. MaxBuffer
    BY <1>9, BufferAssumption DEF Right, RequestType
  <2> HIDE DEF sum
  <2>2. s \in RequestType /\ s.phase = p.phase /\ Kept(p, s) /\ s.reached = p.reached
    BY <1>5, <2>1 DEF RequestType, Kept
  <2> HIDE DEF s
  <2>3. h \in {"empty", "odd", "partial", "complete", "whole"}
    BY <1>9 DEF Appended, Right, RequestType
  <2>4. q.cut => h \in {"empty", "odd"}
    BY <1>9 DEF Appended, Right, Tells
  <2>5. /\ v \in RequestType /\ v.phase = s.phase /\ v.ptr = s.ptr /\ v.calls = s.calls
        /\ v.status = s.status /\ v.cut = s.cut /\ v.bad = s.bad /\ v.head = h
        /\ v.copied = s.copied /\ v.reached = s.reached
    BY <1>9, <2>2, <2>3 DEF RequestType
  <2>6. v.ptr = q.ptr /\ v.copied = q.copied /\ v.reached = q.reached /\ Open(v)
    BY <1>6, <2>2, <2>5 DEF Kept, Open
  <2>7. Owns(v)
    BY <2>6, OpenOwns DEF Owns, Live, Null, Copies, Open
  <2>8. Tells(v) /\ ~v.bad
    BY <1>6, <2>2, <2>4, <2>5 DEF Right, Tells, Kept, Open
  <2> QED
    BY <2>5, <2>6, <2>7, <2>8 DEF Right
<1> QED
  BY <1>7, <1>8, <1>9

LEMMA DisconnectRight ==
  ASSUME NEW q, Right(q), q.phase \in {"connecting", "open", "closing"},
         NEW v \in disconnect_callback(q)
  PROVE  Right(v)
<1> DEFINE u == Use(q, {"conn"})
           t == Free(u, {"tcp"})
           w == Use(t, {"req", "buffer"})
           told == CallUser(w, StatusOf(q))
           gone == {"buffer", "hostname", "path", "req", "conn"}
           f == Free(told, gone)
           o == [f EXCEPT !.phase = "over"]
           x == [o EXCEPT !.unsent = 0]
<1>0. /\ q \in RequestType /\ ~q.bad /\ Live(q, {"req", "buffer", "conn", "tcp"})
      /\ Copies(q, {"hostname", "path"})
  BY DEF Right, Owns, Copies, Strings
<1>1. StatusOf(q) \in Statuses /\ (q.cut => StatusOf(q) = "error")
      /\ (StatusOf(q) \in {"wild", "part"} => q.head \in {"partial", "complete"})
  BY <1>0 DEF StatusOf, Right, Tells, RequestType, Statuses
<1>2. CASE v = x
  <2>1. u \in RequestType /\ Same(q, u) /\ u.ptr = q.ptr
    BY <1>0, UseRight DEF Live
  <2> HIDE DEF u
  <2>2. /\ t \in RequestType /\ Same(u, t)
        /\ \A b \in Blocks : t.ptr[b] = IF b \in {"tcp"} /\ u.ptr[b] = "live" THEN "freed"
                                        ELSE u.ptr[b]
    <3>1. (\A b \in {"tcp"} : u.ptr[b] # "freed") /\ ~u.bad
      BY <1>0, <2>1 DEF Live, Same
    <3> QED
      BY <2>1, <3>1, FreeRight
  <2> HIDE DEF t
  <2>3. /\ \A b \in Blocks : t.ptr[b] = IF b = "tcp" THEN "freed" ELSE q.ptr[b]
        /\ ~t.bad /\ Live(t, {"req", "buffer"})
    BY <1>0, <2>1, <2>2, BlocksAre DEF Live, Same
  <2>4. w \in RequestType /\ Same(t, w) /\ w.ptr = t.ptr
    BY <2>2, <2>3, UseRight
  <2> HIDE DEF w
  <2>5. /\ told \in RequestType /\ told.calls = w.calls + 1 /\ told.status = StatusOf(q)
        /\ told.ptr = w.ptr /\ told.cut = w.cut /\ told.head = w.head /\ told.bad = w.bad
        /\ told.copied = w.copied /\ told.reached = w.reached
    BY <1>1, <2>4, CallRight
  <2> HIDE DEF told
  <2>6. told.calls = 1 /\ ~told.bad /\ told.cut = q.cut /\ told.head = q.head
        /\ told.copied = q.copied /\ told.reached = q.reached
    BY <2>1, <2>2, <2>3, <2>4, <2>5 DEF Right, Tells, Same
  <2>7. /\ f \in RequestType /\ Same(told, f)
        /\ \A b \in Blocks : f.ptr[b] = IF b \in gone /\ told.ptr[b] = "live" THEN "freed"
                                        ELSE told.ptr[b]
    <3>1. \A b \in gone : told.ptr[b] # "freed"
      BY <1>0, <2>3, <2>4, <2>5, BlocksAre DEF Live, Copies
    <3> HIDE DEF gone
    <3> QED
      BY <2>5, <2>6, <3>1, FreeRight
  <2> HIDE DEF f
  <2>8. /\ \A b \in Blocks : f.ptr[b] = "live" <=>
              q.ptr[b] = "live" /\ b \notin gone \cup {"tcp"}
        /\ f.copied = q.copied /\ f.reached = q.reached
    BY <2>3, <2>4, <2>5, <2>6, <2>7 DEF Same
  <2>9. \A b \in Blocks : f.ptr[b] = "live" <=>
                            b \in LeftOf(q.reached) \cap (q.copied \cup {"buffer"})
    <3>0. \A b \in Blocks : f.ptr[b] = "live" <=> b \in {"headers", "post"} /\ q.ptr[b] = "live"
      BY <2>8, BlocksAre
    <3>1. CASE q.phase = "connecting"
      <4>1. q.reached = "name" /\ Copies(q, Strings) /\ LeftOf(q.reached) = {"headers", "post"}
        BY <3>1 DEF Right, Owns, LeftOf
      <4> QED
        BY <3>0, <4>1, BlocksAre DEF Copies
    <3>2. CASE Open(q)
      <4>1. /\ q.ptr["headers"] = "null"
            /\ \/ /\ q.reached = "server" /\ LeftOf(q.reached) = {"post"}
                  /\ q.ptr["post"] = "live" <=> "post" \in q.copied
               \/ /\ q.reached = "body" /\ LeftOf(q.reached) = {}
                  /\ q.ptr["post"] = "null"
        BY <3>2, OpenOwns DEF Copies, Null, LeftOf
      <4> QED
        BY <3>0, <4>1, BlocksAre
    <3> QED
      BY <3>1, <3>2 DEF Open
  <2>10. "over" \in Phases
    BY DEF Phases
  <2>11. o \in RequestType /\ o.phase = "over" /\ Kept(f, o) /\ o.reached = f.reached
    BY <2>7, <2>10, PhaseRight
  <2> HIDE DEF o
  <2>12. x \in RequestType /\ x.phase = "over" /\ Kept(o, x) /\ x.reached = o.reached
    BY <2>11, OneBit, UnsentRight
  <2> HIDE DEF x
  <2>13. Owns(x)
    BY <2>8, <2>9, <2>11, <2>12 DEF Owns, Kept
  <2>14. Tells(x) /\ ~x.bad
    BY <1>1, <2>5, <2>6, <2>7, <2>11, <2>12 DEF Tells, Same, Kept, Right
  <2> QED
    BY <1>2, <2>12, <2>13, <2>14 DEF Right
<1>3. CASE v = Crash(q) /\ StatusOf(q) \in {"wild", "part"}
  <2>1. "crashed" \in Phases
    BY DEF Phases
  <2>2. v \in RequestType /\ v.phase = "crashed" /\ Kept(q, v)
    BY <1>0, <1>3, <2>1, PhaseRight DEF Crash
  <2>3. Owns(v)
    BY <1>1, <1>3, <2>2 DEF Owns, Kept
  <2>4. Tells(v) /\ ~v.bad
    BY <2>2 DEF Right, Tells, Kept
  <2> QED
    BY <2>2, <2>3, <2>4 DEF Right
<1>4. x = [f EXCEPT !.phase = "over", !.unsent = 0]
  OBVIOUS
<1>5. v \in {x} \cup IF StatusOf(q) \in {"wild", "part"} THEN {Crash(q)} ELSE {}
  BY <1>4, Zenon DEF disconnect_callback
<1> HIDE DEF x
<1> QED
  BY <1>2, <1>3, <1>5

------------------------------------------------------------------------------
(* The steps of the client.                                                      *)

LEMMA OneRequest ==
  ASSUME EInv, NEW r \in Requests, NEW q, Right(q), req' = [req EXCEPT ![r] = q]
  PROVE  EInv'
BY DEF EInv, Right

LEMMA RawRequestRight ==
  ASSUME EInv, NEW r \in Requests, NEW post \in BOOLEAN, http_raw_request(r, post)
  PROVE  EInv'
<1>1. PICK copied \in SUBSET (IF post THEN Strings ELSE Strings \ {"post"}) :
         \E q \in {NewRequest(copied), DnsFound(NewRequest(copied)),
                   DnsFailed(NewRequest(copied))} : req' = [req EXCEPT ![r] = q]
  BY DEF http_raw_request
<1>2. PICK q \in {NewRequest(copied), DnsFound(NewRequest(copied)),
                  DnsFailed(NewRequest(copied))} : req' = [req EXCEPT ![r] = q]
  BY <1>1
<1>3. Right(NewRequest(copied)) /\ NewRequest(copied).phase = "dns"
  BY NewRight
<1>4. Right(q)
  BY <1>2, <1>3, DnsFoundRight, DnsFailedRight
<1> QED
  BY <1>2, <1>4, OneRequest

LEMMA HttpRight ==
  ASSUME EInv, NEW r \in Requests, NEW url, NEW post \in BOOLEAN, http_post(r, url, post)
  PROVE  EInv'
<1>1. CASE http_raw_request(r, post)
  BY <1>1, RawRequestRight
<1>2. CASE UNCHANGED req
  BY <1>2 DEF EInv
<1> QED
  BY <1>1, <1>2 DEF http_post

LEMMA NetworkRight ==
  ASSUME EInv, NEW r \in Requests,
         \/ NameIsFound(r) \/ NameIsNotFound(r) \/ Connects(r) \/ Sent(r)
         \/ Receives(r) \/ Closes(r) \/ Breaks(r)
  PROVE  EInv'
<1> DEFINE q == req[r]
<1>1. Right(q)
  BY DEF EInv
<1>2. CASE NameIsFound(r)
  BY <1>1, <1>2, DnsFoundRight, OneRequest DEF NameIsFound
<1>3. CASE NameIsNotFound(r)
  BY <1>1, <1>3, DnsFailedRight, OneRequest DEF NameIsNotFound
<1>4. CASE Connects(r)
  <2>1. PICK v \in connect_callback(req[r]) : req' = [req EXCEPT ![r] = v]
    BY <1>4 DEF Connects
  <2>2. Right(v)
    BY <1>1, <1>4, <2>1, ConnectRight DEF Connects
  <2> QED
    BY <2>1, <2>2, OneRequest
<1>5. CASE Sent(r)
  BY <1>1, <1>5, SentRight, OneRequest DEF Sent, Open
<1>6. CASE Receives(r)
  <2>1. PICK n \in 1 .. MaxPacket : \E v \in receive_callback(req[r], n) :
                                      req' = [req EXCEPT ![r] = v]
    BY <1>6 DEF Receives
  <2>2. PICK v \in receive_callback(req[r], n) : req' = [req EXCEPT ![r] = v]
    BY <2>1
  <2>3. Open(q) /\ q.packets < MaxPackets
    BY <1>6 DEF Receives, Open
  <2>4. Right(v)
    BY <1>1, <2>2, <2>3, ReceiveRight
  <2> QED
    BY <2>2, <2>4, OneRequest
<1>7. ASSUME q.phase \in {"connecting", "open", "closing"},
             NEW v \in disconnect_callback(req[r]), req' = [req EXCEPT ![r] = v]
      PROVE  EInv'
  BY <1>1, <1>7, DisconnectRight, OneRequest
<1>8. CASE Closes(r)
  BY <1>7, <1>8 DEF Closes
<1>9. CASE Breaks(r)
  BY <1>7, <1>9 DEF Breaks, error_callback
<1> QED
  BY <1>2, <1>3, <1>4, <1>5, <1>6, <1>8, <1>9

LEMMA IdleAgainRight == req' = [r \in Requests |-> Idle] => EInv'
BY IdleRight DEF EInv, Right

LEMMA HttpStep == EInv /\ (HttpNext \/ UNCHANGED req) => EInv'
<1> SUFFICES ASSUME EInv, HttpNext \/ UNCHANGED req PROVE EInv'
  OBVIOUS
<1>1. CASE Restarts
  BY <1>1, IdleAgainRight DEF Restarts
<1>2. CASE UNCHANGED req
  BY <1>2 DEF EInv
<1>3. ASSUME NEW r \in Requests,
             \/ \E url \in {"http", "ftp"} : http_get(r, url) \/ http_post(r, url, TRUE)
             \/ NameIsFound(r) \/ NameIsNotFound(r) \/ Connects(r) \/ Sent(r)
             \/ Receives(r) \/ Closes(r) \/ Breaks(r)
      PROVE  EInv'
  <2>1. CASE \E url \in {"http", "ftp"} : http_get(r, url) \/ http_post(r, url, TRUE)
    BY <2>1, HttpRight DEF http_get
  <2> QED
    BY <1>3, <2>1, NetworkRight
<1> QED
  BY <1>1, <1>2, <1>3 DEF HttpNext

LEMMA HttpInitRight == HttpInit => EInv
BY IdleRight DEF HttpInit, EInv, Right

(* What the sensor does is done by its client.                                   *)
LEMMA SensorStep == EInv /\ Next => EInv'
<1> SUFFICES ASSUME EInv, Next PROVE EInv'
  OBVIOUS
<1>1. CASE Volatile
  BY <1>1, IdleAgainRight DEF Volatile
<1>2. ASSUME NEW r \in Requests, NetworkCallback(r) PROVE EInv'
  BY <1>2, NetworkRight DEF NetworkCallback
<1>3. CASE \E r \in Requests : http_get(r, "http")
  BY <1>3, HttpRight DEF http_get
<1>4. CASE UNCHANGED req
  BY <1>4, HttpStep
<1> QED
  BY <1>1, <1>2, <1>3, <1>4
  DEF Next, PowerOn, Wakes, WatchdogResets, user_init, TurnsOff, Joined, Disconnected,
      GotIp, Linked, LinkOver, Tick, timer_callback, NoRequest, Network

LEMMA MCStep == EInv /\ [MCNext]_<<which, vars, bodyVars>> => EInv'
BY SensorStep, HttpStep DEF MCNext, vars

LEMMA InvMemory == EInv => MemoryIsRight
<1> SUFFICES ASSUME EInv PROVE MemoryIsRight
  OBVIOUS
<1>1. HttpTypeOK
  BY DEF EInv, HttpTypeOK, RequestType, Phases, Statuses, Reaches
<1>2. NoUseAfterFree
  BY DEF EInv, NoUseAfterFree, Right
<1>3. LeavesBehind
  <2> SUFFICES ASSUME NEW r \in Requests, req[r].phase = "over"
               PROVE  {b \in Blocks : req[r].ptr[b] = "live"}
                        = LeftOf(req[r].reached) \cap (req[r].copied \cup {"buffer"})
    BY DEF LeavesBehind
  <2>1. \A b \in Blocks : req[r].ptr[b] = "live" <=>
           b \in LeftOf(req[r].reached) \cap (req[r].copied \cup {"buffer"})
    BY DEF EInv, Right, Owns
  <2>2. req[r].reached \in Reaches /\ req[r].copied \subseteq Strings
    BY DEF EInv, RequestType
  <2>3. req[r].copied \cup {"buffer"} \subseteq Blocks
    BY <2>2, BlocksAre
  <2> QED
    BY <2>1, <2>3
<1>4. CrashHasCause
  BY DEF EInv, CrashHasCause, Right, Owns
<1> QED
  BY <1>1, <1>2, <1>3, <1>4 DEF MemoryIsRight

(* Whatever callbacks of the network come in whatever order, and whichever       *)
(* strings there was no memory to copy: no callback of the HTTP client touches   *)
(* what is freed or frees it twice; the chip goes down only for a string that was*)
(* not copied or an answer that was cut; and what the end of a request leaves in *)
(* memory follows from how far it came.  For any number of requests and any      *)
(* sizes.                                                                        *)
THEOREM MemoryStaysRight == MCSpec => []MemoryIsRight
<1>1. MCInit => EInv
  BY HttpInitRight DEF MCInit, Init, NoSensor
<1> QED
  BY <1>1, MCStep, InvMemory, PTL DEF MCSpec

LEMMA InvUncut == EInv => AnswerIsUncut
<1> SUFFICES ASSUME EInv, NEW r \in Requests
             PROVE  /\ req[r].calls <= 1
                    /\ (req[r].calls = 1) <=> (req[r].phase = "over")
                    /\ req[r].cut => req[r].status \in {"none", "error"}
  BY DEF AnswerIsUncut, OneCallback, CutIsError
<1>1. Tells(req[r])
  BY DEF EInv, Right
<1> QED
  BY <1>1 DEF Tells

------------------------------------------------------------------------------
(* The steps of the sensor.                                                      *)

LEMMA CStep == CInv /\ [Next]_vars => CInv'
<1> SUFFICES ASSUME CInv, [Next]_vars PROVE CInv'
  OBVIOUS
<1>1. CASE Volatile
  BY <1>1, TimeAssumption DEF Volatile, CInv
<1>2. CASE timer' = timer /\ conv' = conv /\ reading' = reading
  BY <1>2 DEF CInv
<1>3. CASE GotIp
  <2>1. reading' = reading
    BY <1>3 DEF GotIp
  <2>2. \/ timer' = Delay /\ conv' = Conversion
        \/ timer' = timer /\ conv' = conv
    BY <1>3 DEF GotIp, StartMeasurement, ds_start
  <2> QED
    BY <2>1, <2>2, TimeAssumption DEF CInv
<1>4. CASE Tick
  <2>1. /\ reading' = reading
        /\ timer' = IF timer > 1 THEN timer - 1 ELSE timer
        /\ conv' = IF conv > 0 THEN conv - 1 ELSE 0
    BY <1>4 DEF Tick
  <2> QED
    BY <2>1, TimeAssumption DEF CInv
<1>5. CASE timer_callback
  <2>1. /\ timer = 1 /\ timer' = 0 /\ conv' = conv
        /\ \/ reading' = IF conv = 0 THEN "done" ELSE "converting"
           \/ reading' = reading
    BY <1>5 DEF timer_callback, ds_read_temp
  <2>2. conv = 0
    BY <2>1, TimeAssumption DEF CInv
  <2> QED
    BY <2>1, <2>2, TimeAssumption DEF CInv
<1> QED
  BY <1>1, <1>2, <1>3, <1>4, <1>5
  DEF Next, vars, PowerOn, Wakes, WatchdogResets, user_init, TurnsOff, Joined, Disconnected,
      Linked, LinkOver, Network

LEMMA CInit == Init => CInv
BY TimeAssumption DEF Init, CInv

(* However often the network comes and goes while the sensor converts, the       *)
(* temperature that is read is that of a conversion that is over.                *)
THEOREM ReadsInTime == Spec => []ReadsDoneConversion
<1>1. CInv => ReadsDoneConversion
  BY DEF CInv, ReadsDoneConversion
<1> QED
  BY <1>1, CInit, CStep, PTL DEF Spec

------------------------------------------------------------------------------
(* Sequences.                                                                    *)

(* Every set of numbers has a least one, which is what an induction needs.       *)
LEMMA Least ==
  ASSUME NEW T \in SUBSET Nat, T # {}
  PROVE  \E x \in T : \A y \in T : x <= y
<1> DEFINE R == {ss \in Nat \X Nat : ss[1] < ss[2]}
<1>1. IsWellFoundedOn(R, Nat)
  BY NatLessThanWellFounded DEF OpToRel
<1>2. \A x, y \in Nat : <<y, x>> \in R <=> y < x
  OBVIOUS
<1> HIDE DEF R
<1>3. PICK x \in T : \A y \in T : ~(<<y, x>> \in R)
  BY <1>1, WFMin
<1>4. \A y \in T : x \in Nat /\ y \in Nat /\ ~(y < x)
  BY <1>2, <1>3
<1> QED
  BY <1>4

(* What holds for 1, and from each number to the next, holds for every number.   *)
LEMMA Ascent ==
  ASSUME NEW T \in SUBSET Nat, 1 \in T, \A k \in T : k + 1 \in T
  PROVE  Nat \ {0} \subseteq T
<1> DEFINE U == {k \in Nat : k # 0 /\ k \notin T}
<1> SUFFICES ASSUME U # {} PROVE FALSE
  OBVIOUS
<1>1. PICK k \in U : \A i \in U : k <= i
  <2>1. U \in SUBSET Nat
    OBVIOUS
  <2> HIDE DEF U
  <2> QED
    BY <2>1, Least
<1>2. k \in Nat /\ k # 0 /\ k \notin T /\ k # 1
  OBVIOUS
<1>3. k - 1 \in Nat /\ k - 1 # 0 /\ ~(k <= k - 1) /\ (k - 1) + 1 = k
  BY <1>2
<1>4. k - 1 \notin U
  BY <1>1, <1>3
<1>5. k - 1 \in T
  BY <1>3, <1>4
<1> QED
  BY <1>2, <1>3, <1>5

LEMMA JoinIs ==
  ASSUME NEW S, NEW s \in Seq(S), NEW t \in Seq(S), NEW u, u = s \o t
  PROVE  /\ u \in Seq(S) /\ Len(s) \in Nat /\ Len(t) \in Nat /\ Len(u) = Len(s) + Len(t)
         /\ \A x \in 1..Len(s) : u[x] = s[x]
         /\ \A x \in 1..Len(t) : u[Len(s) + x] = t[x]
<1>1. Len(s) \in Nat /\ Len(t) \in Nat
  OBVIOUS
<1>2. /\ u \in Seq(S) /\ Len(u) = Len(s) + Len(t)
      /\ \A x \in 1..Len(s) + Len(t) : u[x] = IF x <= Len(s) THEN s[x] ELSE t[x - Len(s)]
  BY ConcatProperties
<1>3. ASSUME NEW x \in 1..Len(s) PROVE u[x] = s[x]
  <2>1. x \in 1..Len(s) + Len(t) /\ x <= Len(s)
    BY <1>1
  <2> QED
    BY <1>2, <2>1
<1>4. ASSUME NEW x \in 1..Len(t) PROVE u[Len(s) + x] = t[x]
  <2> DEFINE y == Len(s) + x
  <2>1. y \in 1..Len(s) + Len(t) /\ ~(y <= Len(s)) /\ y - Len(s) = x
    BY <1>1
  <2> HIDE DEF y
  <2>2. u[y] = t[x]
    BY <1>2, <2>1
  <2> QED
    BY <2>2 DEF y
<1> QED
  BY <1>1, <1>2, <1>3, <1>4

Joins(s, t, u) ==
  /\ Len(s) \in Nat /\ Len(t) \in Nat /\ Len(u) = Len(s) + Len(t)
  /\ \A x \in 1..Len(s) : u[x] = s[x]
  /\ \A x \in 1..Len(t) : u[Len(s) + x] = t[x]

LEMMA JoinedAll ==
  ASSUME NEW S PROVE \A s, t \in Seq(S) : s \o t \in Seq(S) /\ Joins(s, t, s \o t)
BY JoinIs DEF Joins

------------------------------------------------------------------------------
(* FlattenSeq: one sequence after the other.                                     *)
IsFlat(f, seqs, n) == f = [i \in 1..n |-> IF i = 1 THEN seqs[i] ELSE f[i - 1] \o seqs[i]]

LEMMA FlatExists ==
  ASSUME NEW seqs, NEW n \in Nat \ {0} PROVE \E f : IsFlat(f, seqs, n)
<1> DEFINE T == {k \in Nat : \E f : IsFlat(f, seqs, k)}
<1>1. 1 \in T
  <2> DEFINE f == [i \in 1..1 |-> seqs[i]]
  <2>1. f = [i \in 1..1 |-> IF i = 1 THEN seqs[i] ELSE f[i - 1] \o seqs[i]]
    OBVIOUS
  <2> HIDE DEF f
  <2> QED
    BY <2>1 DEF IsFlat
<1>2. ASSUME NEW k \in T PROVE k + 1 \in T
  <2>1. CASE k = 0
    BY <1>1, <2>1
  <2>2. CASE k # 0
    <3>1. k \in Nat /\ k >= 1
      BY <2>2
    <3>2. PICK f : IsFlat(f, seqs, k)
      OBVIOUS
    <3> DEFINE g == [i \in 1..k + 1 |-> IF i \in 1..k THEN f[i] ELSE f[k] \o seqs[i]]
    <3>3. \A i \in 1..k : f[i] = IF i = 1 THEN seqs[i] ELSE f[i - 1] \o seqs[i]
      BY <3>2 DEF IsFlat
    <3>4. \A i \in 1..k + 1 : g[i] = IF i = 1 THEN seqs[i] ELSE g[i - 1] \o seqs[i]
      <4> SUFFICES ASSUME NEW i \in 1..k + 1
                   PROVE  g[i] = IF i = 1 THEN seqs[i] ELSE g[i - 1] \o seqs[i]
        OBVIOUS
      <4>1. CASE i \in 1..k
        <5>1. i = 1 \/ (i - 1 \in 1..k /\ i - 1 \in 1..k + 1)
          BY <3>1, <4>1
        <5> QED
          BY <3>3, <4>1, <5>1
      <4>2. CASE i \notin 1..k
        <5>1. i = k + 1 /\ i # 1 /\ i - 1 = k /\ k \in 1..k /\ k \in 1..k + 1
          BY <3>1, <4>2
        <5> QED
          BY <4>2, <5>1
      <4> QED
        BY <4>1, <4>2
    <3>5. g = [i \in 1..k + 1 |-> IF i = 1 THEN seqs[i] ELSE g[i - 1] \o seqs[i]]
      <4> DEFINE h == [i \in 1..k + 1 |-> IF i = 1 THEN seqs[i] ELSE g[i - 1] \o seqs[i]]
      <4>1. \A i \in 1..k + 1 : g[i] = h[i]
        BY <3>4
      <4>2. g = [i \in 1..k + 1 |-> g[i]] /\ h = [i \in 1..k + 1 |-> h[i]]
        OBVIOUS
      <4> HIDE DEF g, h
      <4>3. g = h
        BY <4>1, <4>2
      <4> QED
        BY <4>3 DEF h
    <3>6. IsFlat(g, seqs, k + 1)
      <4> HIDE DEF g
      <4> QED
        BY <3>5 DEF IsFlat
    <3> QED
      BY <3>1, <3>6
  <2> QED
    BY <2>1, <2>2
<1>3. Nat \ {0} \subseteq T
  <2>1. T \in SUBSET Nat
    OBVIOUS
  <2> HIDE DEF T
  <2> QED
    BY <1>1, <1>2, <2>1, Ascent
<1> QED
  BY <1>3

LEMMA Flattened ==
  ASSUME NEW S, NEW seqs \in Seq(S), seqs # <<>>
  PROVE  \E f : IsFlat(f, seqs, Len(seqs)) /\ Body!FlattenSeq(seqs) = f[Len(seqs)]
<1> DEFINE flatten == CHOOSE f : IsFlat(f, seqs, Len(seqs))
<1>1. Len(seqs) \in Nat \ {0}
  BY EmptySeq
<1>2. Body!FlattenSeq(seqs) = flatten[Len(seqs)]
  BY <1>1 DEF Body!FlattenSeq, IsFlat
<1>3. IsFlat(flatten, seqs, Len(seqs))
  BY <1>1, FlatExists
<1> QED
  BY <1>2, <1>3

LEMMA FlatAt ==
  ASSUME NEW F, NEW n, NEW f, IsFlat(f, F, n)
  PROVE  \A i \in 1 .. n : f[i] = IF i = 1 THEN F[i] ELSE f[i - 1] \o F[i]
BY DEF IsFlat

LEMMA FlatSame ==
  ASSUME NEW F, NEW m \in Nat, NEW n \in Nat, m <= n, NEW f, IsFlat(f, F, n), NEW G,
         NEW g, IsFlat(g, G, m), \A i \in 1 .. m : F[i] = G[i]
  PROVE  \A i \in 1 .. m : f[i] = g[i]
<1> DEFINE T == {i \in Nat : i \in 1 .. m => f[i] = g[i]}
<1>1. /\ \A i \in 1 .. n : f[i] = IF i = 1 THEN F[i] ELSE f[i - 1] \o F[i]
      /\ \A i \in 1 .. m : g[i] = IF i = 1 THEN G[i] ELSE g[i - 1] \o G[i]
      /\ \A i \in 1 .. m : i \in 1 .. n
  <2>1. \A i \in 1 .. m : i \in 1 .. n
    OBVIOUS
  <2> QED
    BY <2>1, FlatAt
<1>2. 1 \in T
  BY <1>1
<1>3. ASSUME NEW i \in T PROVE i + 1 \in T
  <2> SUFFICES ASSUME i + 1 \in 1 .. m, i # 0 PROVE f[i + 1] = g[i + 1]
    BY <1>2
  <2>1. i \in 1 .. m /\ i + 1 # 1 /\ (i + 1) - 1 = i
    OBVIOUS
  <2>2. f[i] = g[i]
    BY <2>1
  <2> QED
    BY <1>1, <2>1, <2>2
<1>4. T \in SUBSET Nat
  OBVIOUS
<1>5. Nat \ {0} \subseteq T
  <2> HIDE DEF T
  <2> QED
    BY <1>2, <1>3, <1>4, Ascent
<1> QED
  BY <1>5

(* The first n of some sequences, one after the other.                           *)
Flat(F, n) == Body!FlattenSeq([k \in 1 .. n |-> F[k]])

LEMMA FlatNone == ASSUME NEW F PROVE Flat(F, 0) = <<>>
<1> DEFINE q == [k \in 1 .. 0 |-> F[k]]
<1>1. q = <<>>
  OBVIOUS
<1> QED
  BY <1>1 DEF Flat, Body!FlattenSeq

LEMMA FlatIs ==
  ASSUME NEW S, NEW F, NEW n \in Nat \ {0}, \A k \in 1 .. n : F[k] \in Seq(S)
  PROVE  \E f : IsFlat(f, F, n) /\ Flat(F, n) = f[n]
<1> DEFINE q == [k \in 1 .. n |-> F[k]]
<1>1. q \in Seq(Seq(S)) /\ Len(q) = n /\ \A k \in 1 .. n : q[k] = F[k]
  OBVIOUS
<1>2. Flat(F, n) = Body!FlattenSeq(q)
  BY DEF Flat
<1> HIDE DEF q
<1>3. q \in Seq(Seq(S)) /\ q # <<>>
  BY <1>1
<1>4. PICK f : IsFlat(f, q, n) /\ Body!FlattenSeq(q) = f[n]
  BY <1>1, <1>3, Flattened
<1>5. IsFlat(f, F, n)
  BY <1>1, <1>4 DEF IsFlat
<1> QED
  BY <1>2, <1>4, <1>5

LEMMA FlatGrows ==
  ASSUME NEW S, NEW F, NEW n \in Nat, \A k \in 1 .. n + 1 : F[k] \in Seq(S)
  PROVE  Flat(F, n + 1) = Flat(F, n) \o F[n + 1]
<1>1. PICK f : IsFlat(f, F, n + 1) /\ Flat(F, n + 1) = f[n + 1]
  BY FlatIs
<1>2. f[n + 1] = IF n + 1 = 1 THEN F[n + 1] ELSE f[(n + 1) - 1] \o F[n + 1]
  <2>1. n + 1 \in 1 .. n + 1
    OBVIOUS
  <2> HIDE DEF Flat
  <2> QED
    BY <1>1, <2>1, FlatAt
<1>3. CASE n = 0
  <2>1. Flat(F, n) = <<>>
    BY <1>3, FlatNone
  <2>2. F[n + 1] \in Seq(S)
    OBVIOUS
  <2>3. <<>> \o F[n + 1] = F[n + 1]
    BY <2>2, ConcatEmptySeq
  <2>4. Flat(F, n + 1) = F[n + 1]
    BY <1>1, <1>2, <1>3
  <2> QED
    BY <2>1, <2>3, <2>4
<1>4. CASE n # 0
  <2>1. n \in Nat \ {0} /\ n <= n + 1 /\ (n + 1) - 1 = n /\ n + 1 # 1 /\ n \in 1 .. n
        /\ n + 1 \in Nat
    BY <1>4
  <2>2. PICK g : IsFlat(g, F, n) /\ Flat(F, n) = g[n]
    <3>1. \A k \in 1 .. n : F[k] \in Seq(S)
      OBVIOUS
    <3> QED
      BY <2>1, <3>1, FlatIs
  <2>3. f[n] = g[n]
    BY <1>1, <2>1, <2>2, FlatSame
  <2> QED
    BY <1>1, <1>2, <2>1, <2>2, <2>3
<1> QED
  BY <1>3, <1>4

LEMMA FlatType ==
  ASSUME NEW S, NEW F, NEW n \in Nat, \A k \in 1 .. n : F[k] \in Seq(S)
  PROVE  \A i \in 0 .. n : Flat(F, i) \in Seq(S) /\ Len(Flat(F, i)) \in Nat
<1> DEFINE T == {i \in Nat : i \in 0 .. n => Flat(F, i) \in Seq(S)}
<1>1. 0 \in T
  <2>1. <<>> \in Seq(S)
    BY EmptySeq
  <2> QED
    BY <2>1, FlatNone
<1>2. ASSUME NEW i \in T PROVE i + 1 \in T
  <2> SUFFICES ASSUME i + 1 \in 0 .. n PROVE Flat(F, i + 1) \in Seq(S)
    OBVIOUS
  <2>1. i \in Nat /\ Flat(F, i) \in Seq(S) /\ F[i + 1] \in Seq(S)
        /\ \A k \in 1 .. i + 1 : F[k] \in Seq(S)
    OBVIOUS
  <2>2. Flat(F, i + 1) = Flat(F, i) \o F[i + 1]
    BY <2>1, FlatGrows
  <2> QED
    BY <2>1, <2>2, JoinedAll, Zenon
<1>3. T \in SUBSET Nat
  OBVIOUS
<1>4. Nat \ {0} \subseteq T
  <2>1. 1 \in T
    <3>1. 0 + 1 \in T
      BY <1>1, <1>2, Zenon
    <3> QED
      BY <3>1
  <2> HIDE DEF T
  <2> QED
    BY <1>2, <1>3, <2>1, Ascent
<1>5. \A i \in 0 .. n : Flat(F, i) \in Seq(S)
  BY <1>1, <1>4
<1>6. \A s \in Seq(S) : Len(s) \in Nat
  OBVIOUS
<1> QED
  BY <1>5, <1>6, Zenon

StartsWith(u, s) == Len(s) <= Len(u) /\ \A x \in 1 .. Len(s) : u[x] = s[x]

LEMMA FlatStarts ==
  ASSUME NEW S, NEW F, NEW n \in Nat, \A k \in 1 .. n : F[k] \in Seq(S), NEW k \in 0 .. n
  PROVE  StartsWith(Flat(F, n), Flat(F, k))
<1> DEFINE T == {i \in Nat : k <= i /\ i <= n => StartsWith(Flat(F, i), Flat(F, k))}
<1>0. \A i \in 0 .. n : Flat(F, i) \in Seq(S) /\ Len(Flat(F, i)) \in Nat
  BY FlatType
<1>1. ASSUME NEW i \in T PROVE i + 1 \in T
  <2> SUFFICES ASSUME k <= i + 1, i + 1 <= n PROVE StartsWith(Flat(F, i + 1), Flat(F, k))
    OBVIOUS
  <2>1. CASE k = i + 1
    BY <1>0, <2>1 DEF StartsWith
  <2>2. CASE k # i + 1
    <3>1. i \in 0 .. n /\ i \in Nat /\ StartsWith(Flat(F, i), Flat(F, k))
      BY <2>2
    <3>2. Flat(F, i) \in Seq(S) /\ F[i + 1] \in Seq(S) /\ \A y \in 1 .. i + 1 : F[y] \in Seq(S)
      BY <1>0, <3>1
    <3>3. Flat(F, i + 1) = Flat(F, i) \o F[i + 1]
      BY <3>1, <3>2, FlatGrows
    <3>4. Joins(Flat(F, i), F[i + 1], Flat(F, i + 1))
      BY <3>2, <3>3, JoinedAll, Zenon
    <3>5. Len(Flat(F, k)) \in Nat
      BY <1>0
    <3> QED
      BY <3>1, <3>4, <3>5 DEF StartsWith, Joins
  <2> QED
    BY <2>1, <2>2
<1>2. 0 \in T
  BY <1>0 DEF StartsWith
<1>3. T \in SUBSET Nat
  OBVIOUS
<1>4. 1 \in T
  <2>1. 0 + 1 \in T
    BY <1>1, <1>2, Zenon
  <2> QED
    BY <2>1
<1>5. Nat \ {0} \subseteq T
  <2> HIDE DEF T
  <2> QED
    BY <1>1, <1>3, <1>4, Ascent
<1>6. n \in T
  BY <1>2, <1>5
<1> QED
  BY <1>6

(* Each of them stands behind the ones before it.                                *)
Stands(F, n, k, p, z) ==
  /\ p = Len(Flat(F, k)) /\ z = F[k + 1]
  /\ p \in Nat /\ Len(z) \in Nat
  /\ Flat(F, k + 1) = Flat(F, k) \o z /\ Len(Flat(F, k + 1)) = p + Len(z)
  /\ p + Len(z) <= Len(Flat(F, n))
  /\ \A x \in 1 .. Len(z) : Flat(F, n)[p + x] = z[x]

LEMMA FlatHolds ==
  ASSUME NEW S, NEW F, NEW n \in Nat, \A k \in 1 .. n : F[k] \in Seq(S), NEW k \in 0 .. n - 1
  PROVE  Stands(F, n, k, Len(Flat(F, k)), F[k + 1])
<1>1. /\ k \in Nat /\ k \in 0 .. n /\ k + 1 \in 0 .. n /\ F[k + 1] \in Seq(S)
      /\ \A y \in 1 .. k + 1 : F[y] \in Seq(S)
  OBVIOUS
<1>2. Flat(F, k) \in Seq(S) /\ Len(Flat(F, k)) \in Nat
  BY <1>1, FlatType
<1>3. Flat(F, k + 1) = Flat(F, k) \o F[k + 1]
  BY <1>1, FlatGrows
<1>4. Joins(Flat(F, k), F[k + 1], Flat(F, k + 1))
  BY <1>1, <1>2, <1>3, JoinedAll, Zenon
<1>5. StartsWith(Flat(F, n), Flat(F, k + 1))
  BY <1>1, FlatStarts
<1> QED
  BY <1>1, <1>2, <1>3, <1>4, <1>5 DEF Joins, StartsWith, Stands

------------------------------------------------------------------------------
(* esp_strtol, of one or two hexadecimal digits.                                 *)

HexCodes == 48 .. 57 \cup 65 .. 70 \cup 97 .. 102

LEMMA CodesAreDigits ==
  \A c \in HexCodes : /\ Body!Digit(c) \in 0 .. 15
                      /\ c \notin Body!Spaces /\ c \notin {43, 45}
BY DEF HexCodes, Body!Digit, Body!Spaces

LEMMA DigitIsNatural == ASSUME NEW c \in Nat PROVE Body!Digit(c) \in Nat
<1>1. CASE c \in 48 .. 57
  BY <1>1 DEF Body!Digit
<1>2. CASE c \in 65 .. 90
  BY <1>2 DEF Body!Digit
<1>3. CASE c \in 97 .. 122
  BY <1>3 DEF Body!Digit
<1>4. CASE c \notin 48 .. 57 /\ c \notin 65 .. 90 /\ c \notin 97 .. 122
  BY <1>4 DEF Body!Digit
<1> QED
  BY <1>1, <1>2, <1>3, <1>4

Plus(b, limit, acc, c) == IF acc = -1 \/ acc * b + c > limit THEN -1 ELSE acc * b + c
Folded(b, limit, ds) == LET Add(acc, c) == Plus(b, limit, acc, c) IN Body!FoldLeft(Add, 0, ds)

IsFold(f, b, limit, ds, S) ==
  f = [s \in SUBSET S |-> IF s = {} THEN 0
                          ELSE Plus(b, limit, f[s \ {Body!Max(s)}], ds[Body!Max(s)])]

LEMMA FoldIs ==
  ASSUME NEW b, NEW limit, NEW ds, NEW S, DOMAIN ds = S
  PROVE  Folded(b, limit, ds) = (CHOOSE f : IsFold(f, b, limit, ds, S))[S]
BY DEF Folded, Body!FoldLeft, Body!MapThenFoldSet, IsFold

LEMMA GreatestIs == Body!Max({1}) = 1 /\ Body!Max({1, 2}) = 2
<1>1. Body!Max({1}) = 1
  BY DEF Body!Max
<1>2. Body!Max({1, 2}) = 2
  BY DEF Body!Max
<1> QED
  BY <1>1, <1>2

LEMMA FoldNone == ASSUME NEW b, NEW limit PROVE Folded(b, limit, <<>>) = 0
<1> DEFINE ds == <<>>  it == CHOOSE f : IsFold(f, b, limit, ds, {})
           g == [s \in SUBSET {} |-> 0]
<1>1. DOMAIN ds = {} /\ {} \in SUBSET {} /\ \A s \in SUBSET {} : s = {}
  OBVIOUS
<1>2. Folded(b, limit, ds) = it[{}]
  BY <1>1, FoldIs
<1> HIDE DEF ds
<1>3. IsFold(g, b, limit, ds, {})
  <2> DEFINE h == [s \in SUBSET {} |-> IF s = {} THEN 0
                     ELSE Plus(b, limit, g[s \ {Body!Max(s)}], ds[Body!Max(s)])]
  <2>1. \A s \in SUBSET {} : g[s] = h[s]
    BY <1>1
  <2>2. g = [s \in SUBSET {} |-> g[s]] /\ h = [s \in SUBSET {} |-> h[s]]
    OBVIOUS
  <2> HIDE DEF g, h
  <2>3. g = h
    BY <2>1, <2>2
  <2> QED
    BY <2>3 DEF h, IsFold
<1>4. IsFold(it, b, limit, ds, {})
  <2> HIDE DEF g
  <2> QED
    BY <1>3
<1> HIDE DEF it
<1>5. it[{}] = 0
  BY <1>1, <1>4 DEF IsFold
<1> QED
  BY <1>2, <1>5 DEF ds

LEMMA FoldOne ==
  ASSUME NEW b, b = 16, NEW limit \in Nat, limit >= 255, NEW c \in 0 .. 15
  PROVE  Folded(b, limit, <<c>>) = c
<1> DEFINE ds == <<c>>  it == CHOOSE f : IsFold(f, b, limit, ds, {1})
           g == [s \in SUBSET {1} |-> IF s = {} THEN 0 ELSE Plus(b, limit, 0, c)]
<1>1. DOMAIN ds = {1} /\ ds[1] = c
  OBVIOUS
<1>2. Folded(b, limit, ds) = it[{1}]
  BY <1>1, FoldIs
<1>3. \A s \in SUBSET {1} : s = {} \/ s = {1}
  OBVIOUS
<1>4. {1} \ {1} = {} /\ {} \in SUBSET {1} /\ {1} \in SUBSET {1} /\ {1} # {}
  OBVIOUS
<1> HIDE DEF ds
<1>5. \A s \in SUBSET {1} :
        g[s] = IF s = {} THEN 0 ELSE Plus(b, limit, g[s \ {Body!Max(s)}], ds[Body!Max(s)])
  BY <1>1, <1>3, <1>4, GreatestIs
<1>6. IsFold(g, b, limit, ds, {1})
  <2> DEFINE h == [s \in SUBSET {1} |-> IF s = {} THEN 0
                     ELSE Plus(b, limit, g[s \ {Body!Max(s)}], ds[Body!Max(s)])]
  <2>1. \A s \in SUBSET {1} : g[s] = h[s]
    BY <1>5
  <2>2. g = [s \in SUBSET {1} |-> g[s]] /\ h = [s \in SUBSET {1} |-> h[s]]
    OBVIOUS
  <2> HIDE DEF g, h
  <2>3. g = h
    BY <2>1, <2>2
  <2> QED
    BY <2>3 DEF h, IsFold
<1>7. IsFold(it, b, limit, ds, {1})
  <2> HIDE DEF g
  <2> QED
    BY <1>6
<1> HIDE DEF it
<1>8. \A s \in SUBSET {1} :
        it[s] = IF s = {} THEN 0 ELSE Plus(b, limit, it[s \ {Body!Max(s)}], ds[Body!Max(s)])
  BY <1>7 DEF IsFold
<1>9. it[{}] = 0 /\ it[{1}] = Plus(b, limit, it[{}], c)
  BY <1>1, <1>4, <1>8, GreatestIs
<1>10. Plus(b, limit, 0, c) = c
  BY DEF Plus
<1> QED
  BY <1>2, <1>9, <1>10 DEF ds

LEMMA FoldTwo ==
  ASSUME NEW b, b = 16, NEW limit \in Nat, limit >= 255, NEW c \in 0 .. 15, NEW d \in 0 .. 15
  PROVE  Folded(b, limit, <<c, d>>) = c * 16 + d
<1> DEFINE ds == <<c, d>>  it == CHOOSE f : IsFold(f, b, limit, ds, {1, 2})
           D == Plus(b, limit, 0, d)
           C == Plus(b, limit, 0, c)
           g == [s \in SUBSET {1, 2} |->
                   IF s = {} THEN 0 ELSE IF s = {1} THEN C ELSE IF s = {2} THEN D
                   ELSE Plus(b, limit, C, d)]
<1>1. DOMAIN ds = {1, 2} /\ ds[1] = c /\ ds[2] = d
  OBVIOUS
<1>2. Folded(b, limit, ds) = it[{1, 2}]
  BY <1>1, FoldIs
<1>3. \A s \in SUBSET {1, 2} : s = {} \/ s = {1} \/ s = {2} \/ s = {1, 2}
  OBVIOUS
<1>4. /\ {1} \ {1} = {} /\ {2} \ {2} = {} /\ {1, 2} \ {2} = {1}
      /\ {} \in SUBSET {1, 2} /\ {1} \in SUBSET {1, 2} /\ {2} \in SUBSET {1, 2}
      /\ {1, 2} \in SUBSET {1, 2}
      /\ {1} # {} /\ {2} # {} /\ {1, 2} # {} /\ {2} # {1} /\ {1, 2} # {1} /\ {1, 2} # {2}
  OBVIOUS
<1>5. Body!Max({2}) = 2
  BY DEF Body!Max
<1> HIDE DEF ds, C, D
<1>6. g[{}] = 0 /\ g[{1}] = C /\ g[{2}] = D /\ g[{1, 2}] = Plus(b, limit, C, d)
  BY <1>4
<1>7. \A s \in SUBSET {1, 2} :
        g[s] = IF s = {} THEN 0 ELSE Plus(b, limit, g[s \ {Body!Max(s)}], ds[Body!Max(s)])
  <2> HIDE DEF g
  <2> SUFFICES ASSUME NEW s \in SUBSET {1, 2}
               PROVE  g[s] = IF s = {} THEN 0 ELSE Plus(b, limit, g[s \ {Body!Max(s)}], ds[Body!Max(s)])
    OBVIOUS
  <2>1. CASE s = {}
    BY <1>6, <2>1
  <2>2. CASE s = {1}
    BY <1>1, <1>4, <1>6, <2>2, GreatestIs DEF C
  <2>3. CASE s = {2}
    BY <1>1, <1>4, <1>5, <1>6, <2>3 DEF D
  <2>4. CASE s = {1, 2}
    BY <1>1, <1>4, <1>6, <2>4, GreatestIs
  <2> QED
    BY <1>3, <2>1, <2>2, <2>3, <2>4
<1>8. IsFold(g, b, limit, ds, {1, 2})
  <2> DEFINE h == [s \in SUBSET {1, 2} |-> IF s = {} THEN 0
                     ELSE Plus(b, limit, g[s \ {Body!Max(s)}], ds[Body!Max(s)])]
  <2>1. \A s \in SUBSET {1, 2} : g[s] = h[s]
    BY <1>7
  <2>2. g = [s \in SUBSET {1, 2} |-> g[s]] /\ h = [s \in SUBSET {1, 2} |-> h[s]]
    OBVIOUS
  <2> HIDE DEF g, h
  <2>3. g = h
    BY <2>1, <2>2
  <2> QED
    BY <2>3 DEF h, IsFold
<1>9. IsFold(it, b, limit, ds, {1, 2})
  <2> HIDE DEF g
  <2> QED
    BY <1>8
<1> HIDE DEF it
<1>10. \A s \in SUBSET {1, 2} :
         it[s] = IF s = {} THEN 0 ELSE Plus(b, limit, it[s \ {Body!Max(s)}], ds[Body!Max(s)])
  BY <1>9 DEF IsFold
<1>11. it[{}] = 0 /\ it[{1}] = Plus(b, limit, it[{}], c) /\ it[{1, 2}] = Plus(b, limit, it[{1}], d)
  <2>1. it[{}] = 0
    BY <1>4, <1>10
  <2>2. it[{1}] = Plus(b, limit, it[{1} \ {1}], ds[1])
    BY <1>4, <1>10, GreatestIs
  <2>3. it[{1, 2}] = Plus(b, limit, it[{1, 2} \ {2}], ds[2])
    BY <1>4, <1>10, GreatestIs
  <2> QED
    BY ONLY <1>1, <1>4, <2>1, <2>2, <2>3, Zenon
<1>12. Plus(b, limit, 0, c) = c /\ Plus(b, limit, c, d) = c * 16 + d
  BY DEF Plus
<1> QED
  BY <1>2, <1>11, <1>12 DEF ds

LEMMA StrtolIs ==
  ASSUME NEW s
  PROVE  LET limit == IF Body!Negative(s) THEN LongMax + 1 ELSE LongMax
             acc == Folded(Body!BaseOf(s, 16), limit, Body!Digits(s, 16))
             size == IF acc = -1 THEN limit ELSE acc
         IN  Body!esp_strtol(s, 16) = IF Body!Negative(s) THEN -size ELSE size
BY DEF Body!esp_strtol, Folded, Plus

(* Where the digits begin, and the base, of a number that begins with a digit.   *)
LEMMA BeginsIs ==
  ASSUME NEW s \in Seq(Nat), Len(s) > 0, s[1] \in HexCodes,
         s[1] = 48 => Body!At(s, 2) \notin {88, 120}
  PROVE  /\ ~Body!Negative(s) /\ Body!First(s) = 1 /\ Body!BaseOf(s, 16) = 16
         /\ ~Body!Hexadecimal(s, 16) /\ ~Body!Binary(s, 16)
<1>1. DOMAIN s = 1 .. Len(s) /\ Len(s) \in Nat
  OBVIOUS
<1>2. Body!At(s, 1) = s[1] /\ 1 + 1 = 2
  BY <1>1 DEF Body!At
<1>3. s[1] \notin Body!Spaces /\ s[1] \notin {43, 45}
  BY CodesAreDigits
<1>4. Body!Blanks(s) = 1
  <2> DEFINE P(i) == Body!At(s, i) \notin Body!Spaces /\ \A k \in 1 .. i - 1 : s[k] \in Body!Spaces
  <2>1. P(1) /\ 1 \in 1 .. Len(s) + 1
    BY <1>1, <1>2, <1>3
  <2>2. \A i \in 1 .. Len(s) + 1 : P(i) => i = 1
    <3> SUFFICES ASSUME NEW i \in 1 .. Len(s) + 1, P(i), i # 1 PROVE FALSE
      OBVIOUS
    <3>1. 1 \in 1 .. i - 1
      OBVIOUS
    <3> QED
      BY <1>3, <3>1
  <2>3. Body!Blanks(s) = CHOOSE i \in 1 .. Len(s) + 1 : P(i)
    BY DEF Body!Blanks
  <2> HIDE DEF P
  <2> QED
    BY <2>1, <2>2, <2>3
<1>5. ~Body!Negative(s) /\ ~Body!Signed(s)
  BY <1>2, <1>3, <1>4 DEF Body!Negative, Body!Signed
<1>6. Body!First(s) = 1
  BY <1>4, <1>5 DEF Body!First
<1>7. ~Body!Hexadecimal(s, 16)
  BY <1>2, <1>6 DEF Body!Hexadecimal, Body!HasPrefix
<1>8. ~Body!Binary(s, 16)
  BY DEF Body!Binary
<1>9. Body!BaseOf(s, 16) = 16
  BY <1>7, <1>8 DEF Body!BaseOf
<1> QED
  BY <1>5, <1>6, <1>7, <1>8, <1>9

LEMMA DigitsAre ==
  ASSUME NEW s \in Seq(Nat), NEW m \in 1 .. 2, m <= Len(s),
         \A x \in 1 .. m : s[x] \in HexCodes, Body!Digit(Body!At(s, m + 1)) >= 16,
         s[1] = 48 => Body!At(s, 2) \notin {88, 120}
  PROVE  Body!Digits(s, 16) = [k \in 1 .. m |-> Body!Digit(s[k])]
<1>1. /\ DOMAIN s = 1 .. Len(s) /\ Len(s) \in Nat /\ Len(s) > 0 /\ m \in Nat
      /\ m + 1 \in 1 .. Len(s) + 1 /\ 1 \in 1 .. m
  OBVIOUS
<1>2. Body!First(s) = 1 /\ Body!BaseOf(s, 16) = 16 /\ ~Body!Hexadecimal(s, 16) /\ ~Body!Binary(s, 16)
  BY <1>1, BeginsIs
<1> DEFINE P(i) == /\ Body!Digit(Body!At(s, i)) >= 16
                   /\ \A k \in 1 .. i - 1 : Body!Digit(s[k]) < 16
           to == CHOOSE i \in 1 .. Len(s) + 1 : P(i)
<1>3. \A x \in 1 .. m : Body!Digit(s[x]) < 16 /\ Body!Digit(s[x]) \in 0 .. 15
  <2>1. \A d \in 0 .. 15 : d < 16
    OBVIOUS
  <2>2. \A x \in 1 .. m : Body!Digit(s[x]) \in 0 .. 15
    BY CodesAreDigits, Zenon
  <2> QED
    BY <2>1, <2>2, Zenon
<1>4. P(m + 1)
  <2>2. \A k \in 1 .. (m + 1) - 1 : k \in 1 .. m
    BY <1>1
  <2> QED
    BY <1>3, <2>2
<1>5. \A i \in 1 .. Len(s) + 1 : P(i) => i = m + 1
  <2> SUFFICES ASSUME NEW i \in 1 .. Len(s) + 1, P(i), i # m + 1 PROVE FALSE
    OBVIOUS
  <2>1. CASE i <= m
    <3>1. i \in 1 .. m /\ i \in 1 .. Len(s) /\ Body!At(s, i) = s[i]
      BY <1>1, <2>1 DEF Body!At
    <3>2. Body!Digit(s[i]) \in 0 .. 15 /\ Body!Digit(s[i]) >= 16
      BY <1>3, <3>1
    <3> QED
      BY <3>2
  <2>2. CASE ~(i <= m)
    <3>1. m + 1 \in 1 .. i - 1
      BY <1>1, <2>2
    <3>2. Body!Digit(s[m + 1]) < 16
      BY <3>1
    <3>3. m + 1 \in 1 .. Len(s) /\ Body!At(s, m + 1) = s[m + 1] /\ s[m + 1] \in Nat
      BY <1>1, <2>2 DEF Body!At
    <3>4. Body!Digit(s[m + 1]) \in Nat
      BY <3>3, DigitIsNatural
    <3> QED
      BY <3>2, <3>3, <3>4
  <2> QED
    BY <2>1, <2>2
<1>6. to = m + 1
  <2> HIDE DEF P
  <2> QED
    BY <1>1, <1>4, <1>5
<1>7. Body!Digits(s, 16) = [k \in 1 .. to - 1 |-> Body!Digit(s[1 + k - 1])]
  <2> DEFINE from == Body!First(s) + IF Body!Hexadecimal(s, 16) \/ Body!Binary(s, 16)
                                       THEN 2 ELSE 0
             b == Body!BaseOf(s, 16)
             last(u, c) == CHOOSE i \in u .. Len(s) + 1 :
                             /\ Body!Digit(Body!At(s, i)) >= c
                             /\ \A k \in u .. i - 1 : Body!Digit(s[k]) < c
  <2>1. Body!Digits(s, 16) = [k \in 1 .. last(from, b) - from |-> Body!Digit(s[from + k - 1])]
    BY DEF Body!Digits
  <2>2. from = 1 /\ b = 16
    BY <1>2
  <2>3. last(1, 16) = to
    OBVIOUS
  <2> HIDE DEF from, b, last, to
  <2> QED
    BY ONLY <2>1, <2>2, <2>3
<1> HIDE DEF to, P
<1>8. to - 1 = m
  BY <1>1, <1>6
<1>9. \A k \in 1 .. m : 1 + k - 1 = k
  OBVIOUS
<1> QED
  BY <1>7, <1>8, <1>9

LEMMA NumberIs ==
  ASSUME NEW s \in Seq(Nat), NEW m \in 1 .. 2, m <= Len(s),
         \A x \in 1 .. m : s[x] \in HexCodes, Body!Digit(Body!At(s, m + 1)) >= 16,
         s[1] = 48 => Body!At(s, 2) \notin {88, 120}
  PROVE  /\ m = 1 => Body!esp_strtol(s, 16) = Body!Digit(s[1])
         /\ m = 2 => Body!esp_strtol(s, 16) = Body!Digit(s[1]) * 16 + Body!Digit(s[2])
<1> DEFINE ds == Body!Digits(s, 16)
<1>1. ~Body!Negative(s) /\ Body!BaseOf(s, 16) = 16
  <2>1. Len(s) > 0 /\ 1 \in 1 .. m
    OBVIOUS
  <2> QED
    BY <2>1, BeginsIs
<1>2. ds = [k \in 1 .. m |-> Body!Digit(s[k])]
  BY DigitsAre
<1>3. \A x \in 1 .. m : Body!Digit(s[x]) \in 0 .. 15
  BY CodesAreDigits
<1>4. LongMax \in Nat /\ LongMax >= 255
  BY BodyAssumption
<1>5. Body!esp_strtol(s, 16) = LET acc == Folded(16, LongMax, ds)
                               IN  IF acc = -1 THEN LongMax ELSE acc
  <2> DEFINE Told(negative, base) ==
        LET limit == IF negative THEN LongMax + 1 ELSE LongMax
            acc == Folded(base, limit, ds)
            size == IF acc = -1 THEN limit ELSE acc
        IN  IF negative THEN -size ELSE size
  <2>1. Body!esp_strtol(s, 16) = Told(Body!Negative(s), Body!BaseOf(s, 16))
    BY StrtolIs
  <2>2. Told(FALSE, 16) = LET acc == Folded(16, LongMax, ds)
                          IN  IF acc = -1 THEN LongMax ELSE acc
    OBVIOUS
  <2>3. Body!Negative(s) = FALSE
    BY <1>1 DEF Body!Negative
  <2> HIDE DEF Told, ds
  <2> QED
    BY ONLY <1>1, <2>1, <2>2, <2>3, Zenon
<1> HIDE DEF ds
<1>6. ASSUME m = 1 PROVE Body!esp_strtol(s, 16) = Body!Digit(s[1])
  <2>1. Body!Digit(s[1]) \in 0 .. 15
    BY <1>3, <1>6
  <2>2. ds = <<Body!Digit(s[1])>>
    BY <1>2, <1>6
  <2>3. Folded(16, LongMax, ds) = Body!Digit(s[1])
    BY <1>4, <2>1, <2>2, FoldOne
  <2>4. \A c \in 0 .. 15 : c # -1
    OBVIOUS
  <2> QED
    BY ONLY <1>5, <2>1, <2>3, <2>4, Zenon
<1>7. ASSUME m = 2 PROVE Body!esp_strtol(s, 16) = Body!Digit(s[1]) * 16 + Body!Digit(s[2])
  <2>1. Body!Digit(s[1]) \in 0 .. 15 /\ Body!Digit(s[2]) \in 0 .. 15
    BY <1>3, <1>7
  <2>2. ds = <<Body!Digit(s[1]), Body!Digit(s[2])>>
    BY <1>2, <1>7
  <2>3. Folded(16, LongMax, ds) = Body!Digit(s[1]) * 16 + Body!Digit(s[2])
    BY <1>4, <2>1, <2>2, FoldTwo
  <2>4. \A c, d \in 0 .. 15 : c * 16 + d # -1
    OBVIOUS
  <2> QED
    BY ONLY <1>5, <2>1, <2>3, <2>4, Zenon
<1> QED
  BY <1>6, <1>7
(* Nothing is the number 0.                                                      *)
LEMMA NothingIs == Body!esp_strtol(<<>>, 16) = 0
<1> DEFINE s == <<>>  ds == Body!Digits(s, 16)
<1>1. DOMAIN s = {} /\ Len(s) = 0 /\ \A i : Body!At(s, i) = 0
  BY DEF Body!At
<1>2. 0 \notin Body!Spaces /\ 0 \notin {43, 45} /\ Body!Digit(0) = 36
  BY DEF Body!Spaces, Body!Digit
<1> HIDE DEF s
<1>3. Body!Blanks(s) = 1
  <2>1. \A i \in 1 .. Len(s) + 1 : i = 1
    BY <1>1
  <2>2. 1 \in 1 .. Len(s) + 1 /\ \A k \in 1 .. 1 - 1 : FALSE
    BY <1>1
  <2>3. /\ Body!At(s, 1) \notin Body!Spaces
        /\ \A k \in 1 .. 1 - 1 : s[k] \in Body!Spaces
    BY <1>1, <1>2, <2>2
  <2> QED
    BY <2>1, <2>2, <2>3 DEF Body!Blanks
<1>4. ~Body!Negative(s) /\ Body!First(s) = 1
  BY <1>1, <1>2, <1>3 DEF Body!Negative, Body!Signed, Body!First
<1>5. ~Body!Hexadecimal(s, 16) /\ ~Body!Binary(s, 16) /\ Body!BaseOf(s, 16) = 16
  BY <1>1 DEF Body!Hexadecimal, Body!HasPrefix, Body!Binary, Body!BaseOf
<1>6. ds = <<>>
  <2> DEFINE from == Body!First(s) + IF Body!Hexadecimal(s, 16) \/ Body!Binary(s, 16)
                                       THEN 2 ELSE 0
             b == Body!BaseOf(s, 16)
             last(u, c) == CHOOSE i \in u .. Len(s) + 1 :
                             /\ Body!Digit(Body!At(s, i)) >= c
                             /\ \A k \in u .. i - 1 : Body!Digit(s[k]) < c
  <2>1. ds = [k \in 1 .. last(from, b) - from |-> Body!Digit(s[from + k - 1])]
    BY DEF Body!Digits
  <2>2. from = 1 /\ b = 16
    BY <1>4, <1>5
  <2>3. last(1, 16) = 1
    <3>1. /\ \A i \in 1 .. Len(s) + 1 : i = 1
          /\ 1 \in 1 .. Len(s) + 1 /\ \A k \in 1 .. 1 - 1 : FALSE
      BY <1>1
    <3>2. /\ Body!Digit(Body!At(s, 1)) >= 16
          /\ \A k \in 1 .. 1 - 1 : Body!Digit(s[k]) < 16
      BY <1>1, <1>2, <3>1
    <3> QED
      BY <3>1, <3>2
  <2> HIDE DEF from, b, last
  <2>4. ds = [k \in 1 .. 0 |-> Body!Digit(s[1 + k - 1])]
    BY ONLY <2>1, <2>2, <2>3
  <2> QED
    BY ONLY <2>4
<1> HIDE DEF ds
<1>7. Folded(Body!BaseOf(s, 16), IF Body!Negative(s) THEN LongMax + 1 ELSE LongMax, ds) = 0
  BY <1>6, FoldNone
<1>8. Body!esp_strtol(s, 16) = 0
  <2> DEFINE limit == IF Body!Negative(s) THEN LongMax + 1 ELSE LongMax
             acc == Folded(Body!BaseOf(s, 16), limit, ds)
             size == IF acc = -1 THEN limit ELSE acc
  <2>1. Body!esp_strtol(s, 16) = IF Body!Negative(s) THEN -size ELSE size
    BY StrtolIs DEF ds
  <2>2. acc = 0
    BY <1>7
  <2> HIDE DEF acc
  <2>3. size = 0
    BY <2>2
  <2> HIDE DEF size
  <2> QED
    BY <1>4, <2>1, <2>3
<1> QED
  BY <1>8 DEF s

------------------------------------------------------------------------------
(* What the server sends of a chunk.                                             *)

Chunk == [data : Data, large : BOOLEAN, note : Notes]
Size(c) == Body!HexDigits(Len(c.data), c.large)

LEMMA HexDigitIs ==
  ASSUME NEW d \in 0 .. 15, NEW large \in BOOLEAN
  PROVE  LET c == IF d < 10 THEN 48 + d ELSE d + IF large THEN 55 ELSE 87
         IN  c \in Nat /\ c \in HexCodes /\ Body!Digit(c) = d /\ (d > 0 => c # 48)
<1>1. CASE d < 10
  <2>1. 48 + d \in 48 .. 57 /\ 48 + d \in Nat /\ (48 + d) - 48 = d /\ (d > 0 => 48 + d # 48)
    BY <1>1
  <2>2. \A c \in 48 .. 57 : Body!Digit(c) = c - 48 /\ c \in HexCodes
    BY DEF Body!Digit, HexCodes
  <2> QED
    BY <1>1, <2>1, <2>2
<1>2. CASE ~(d < 10) /\ large
  <2>1. d + 55 \in 65 .. 70 /\ d + 55 \in Nat /\ (d + 55) - 55 = d /\ d + 55 # 48
    BY <1>2
  <2>2. \A c \in 65 .. 70 : Body!Digit(c) = c - 55 /\ c \in HexCodes
    BY DEF Body!Digit, HexCodes
  <2> QED
    BY <1>2, <2>1, <2>2
<1>3. CASE ~(d < 10) /\ ~large
  <2>1. d + 87 \in 97 .. 102 /\ d + 87 \in Nat /\ (d + 87) - 87 = d /\ d + 87 # 48
    BY <1>3
  <2>2. \A c \in 97 .. 102 : Body!Digit(c) = c - 87 /\ c \in HexCodes
    BY DEF Body!Digit, HexCodes
  <2> QED
    BY <1>3, <2>1, <2>2
<1> QED
  BY <1>1, <1>2, <1>3

HexRight(h, n) ==
  /\ h \in Seq(Nat) /\ Len(h) \in 1 .. 2 /\ h[1] # 48
  /\ \A x \in 1 .. Len(h) : h[x] \in HexCodes
  /\ Len(h) = 1 => Body!Digit(h[1]) = n
  /\ Len(h) = 2 => Body!Digit(h[1]) * 16 + Body!Digit(h[2]) = n

LEMMA SizeIs ==
  ASSUME NEW n \in 1 .. 255, NEW large \in BOOLEAN
  PROVE  HexRight(Body!HexDigits(n, large), n)
<1> DEFINE Hex(d) == IF d < 10 THEN 48 + d ELSE d + IF large THEN 55 ELSE 87
           h == Body!HexDigits(n, large)
<1>1. h = IF n < 16 THEN <<Hex(n)>> ELSE <<Hex(n \div 16), Hex(n % 16)>>
  BY DEF Body!HexDigits
<1>2. \A d \in 0 .. 15 :
        Hex(d) \in Nat /\ Hex(d) \in HexCodes /\ Body!Digit(Hex(d)) = d /\ (d > 0 => Hex(d) # 48)
  BY HexDigitIs
<1> HIDE DEF Hex, h
<1>3. ASSUME n < 16 PROVE HexRight(h, n)
  <2>1. n \in 0 .. 15 /\ n > 0 /\ h = <<Hex(n)>>
    BY <1>1, <1>3
  <2>2. Len(h) = 1 /\ h[1] = Hex(n) /\ \A x \in 1 .. 1 : x = 1
    BY <2>1
  <2>3. h \in Seq(Nat)
    BY <1>2, <2>1
  <2>4. /\ h[1] # 48 /\ \A x \in 1 .. Len(h) : h[x] \in HexCodes
        /\ Body!Digit(h[1]) = n
    BY <1>2, <2>1, <2>2
  <2> QED
    BY <2>2, <2>3, <2>4 DEF HexRight
<1>4. ASSUME ~(n < 16) PROVE HexRight(h, n)
  <2> DEFINE a == n \div 16  b == n % 16
  <2>1. a \in 0 .. 15 /\ b \in 0 .. 15 /\ a > 0 /\ a * 16 + b = n
    BY <1>4
  <2> HIDE DEF a, b
  <2>2. h = <<Hex(a), Hex(b)>>
    BY <1>1, <1>4 DEF a, b
  <2>3. Len(h) = 2 /\ h[1] = Hex(a) /\ h[2] = Hex(b) /\ \A x \in 1 .. 2 : x = 1 \/ x = 2
    BY <2>2
  <2>4. h \in Seq(Nat)
    BY <1>2, <2>1, <2>2
  <2>5. /\ h[1] # 48 /\ \A x \in 1 .. Len(h) : h[x] \in HexCodes
        /\ Body!Digit(h[1]) * 16 + Body!Digit(h[2]) = n
    BY <1>2, <2>1, <2>3
  <2> QED
    BY <2>3, <2>4, <2>5 DEF HexRight
<1> QED
  BY <1>3, <1>4 DEF h

LEMMA ChunkIs ==
  ASSUME NEW c \in Chunk
  PROVE  /\ c.data \in Seq(Nat) /\ Len(c.data) \in 1 .. 255 /\ c.large \in BOOLEAN
         /\ c.note \in Seq(Nat) /\ Len(c.note) \in Nat
         /\ c.note # <<>> => Body!Digit(c.note[1]) >= 16
         /\ \A k \in 1 .. Len(c.note) - 1 : ~(c.note[k] = 13 /\ c.note[k + 1] = 10)
<1>1. c.data \in Data /\ c.large \in BOOLEAN /\ c.note \in Notes
  BY DEF Chunk
<1>2. /\ c.data \in Seq(0 .. 255) /\ Len(c.data) \in 1 .. 255 /\ c.note \in Seq(0 .. 255)
      /\ c.note # <<>> => Body!Digit(c.note[1]) >= 16
      /\ \A k \in 1 .. Len(c.note) - 1 : ~(c.note[k] = 13 /\ c.note[k + 1] = 10)
  BY <1>1, BodyAssumption
<1>3. \A s \in Seq(0 .. 255) : s \in Seq(Nat) /\ Len(s) \in Nat
  <2> SUFFICES ASSUME NEW s \in Seq(0 .. 255) PROVE s \in Seq(Nat) /\ Len(s) \in Nat
    OBVIOUS
  <2>1. Len(s) \in Nat /\ s \in [1 .. Len(s) -> 0 .. 255]
    BY LenProperties
  <2>2. \A x \in 1 .. Len(s) : s[x] \in Nat
    <3>1. \A v \in 0 .. 255 : v \in Nat
      OBVIOUS
    <3> QED
      BY <2>1, <3>1, Zenon
  <2>3. s \in [1 .. Len(s) -> Nat]
    BY <2>1, <2>2
  <2> QED
    BY <2>1, <2>3, SeqDef
<1> QED
  BY <1>1, <1>2, <1>3

SizeLen(c) == Len(Size(c))
LineLen(c) == SizeLen(c) + Len(c.note)

LEMMA SentIs ==
  ASSUME NEW c \in Chunk
  PROVE  LET s == Body!Sent(c)  m == SizeLen(c)  l == LineLen(c)  n == Len(c.data)
         IN  /\ s \in Seq(Nat) /\ m \in 1 .. 2 /\ l \in Nat /\ l = m + Len(c.note) /\ n \in 1 .. 255
             /\ Len(s) = l + 2 + n + 2
             /\ \A x \in 1 .. m : s[x] = Size(c)[x]
             /\ \A x \in 1 .. Len(c.note) : s[m + x] = c.note[x]
             /\ s[l + 1] = 13 /\ s[l + 2] = 10
             /\ \A x \in 1 .. n : s[l + 2 + x] = c.data[x]
<1> DEFINE h == Size(c)  t == c.note  d == c.data  e == Body!CRLF
           m == Len(h)  k == Len(t)  n == Len(d)
           u == h \o t  v == u \o e  w == v \o d  s == w \o e
<1>1. h \in Seq(Nat) /\ m \in 1 .. 2 /\ m \in Nat
  <2>1. HexRight(h, Len(c.data))
    BY ChunkIs, SizeIs DEF Size
  <2> QED
    BY <2>1 DEF HexRight
<1>2. t \in Seq(Nat) /\ k \in Nat /\ d \in Seq(Nat) /\ n \in 1 .. 255 /\ n \in Nat
  BY ChunkIs
<1>3. e \in Seq(Nat) /\ Len(e) = 2 /\ e[1] = 13 /\ e[2] = 10
  BY DEF Body!CRLF
<1>4. Body!Sent(c) = s
  BY DEF Body!Sent, Size
<1>5. SizeLen(c) = m /\ LineLen(c) = m + k
  BY DEF SizeLen, LineLen
<1> HIDE DEF h, t, d, e
<1>6. u \in Seq(Nat) /\ Joins(h, t, u)
  BY <1>1, <1>2, JoinedAll, Zenon
<1> HIDE DEF u
<1>7. v \in Seq(Nat) /\ Joins(u, e, v)
  BY <1>3, <1>6, JoinedAll, Zenon
<1> HIDE DEF v
<1>8. w \in Seq(Nat) /\ Joins(v, d, w)
  BY <1>2, <1>7, JoinedAll, Zenon
<1> HIDE DEF w
<1>9. s \in Seq(Nat) /\ Joins(w, e, s)
  BY <1>3, <1>8, JoinedAll, Zenon
<1> HIDE DEF s, m, k, n
<1>10. /\ Len(u) = m + k /\ Len(v) = m + k + 2 /\ Len(w) = m + k + 2 + n
       /\ Len(s) = m + k + 2 + n + 2
  BY <1>1, <1>2, <1>3, <1>6, <1>7, <1>8, <1>9 DEF Joins, m, k, n
<1>11. ASSUME NEW x \in 1 .. m + k PROVE s[x] = u[x]
  <2>1. x \in 1 .. Len(u) /\ x \in 1 .. Len(v) /\ x \in 1 .. Len(w)
    BY <1>1, <1>2, <1>10
  <2> QED
    BY <1>7, <1>8, <1>9, <2>1 DEF Joins
<1>12. \A x \in 1 .. m : s[x] = h[x]
  <2>1. \A x \in 1 .. m : x \in 1 .. m + k
    BY <1>1, <1>2
  <2> QED
    BY <1>6, <1>11, <2>1 DEF Joins, m
<1>13. \A x \in 1 .. k : s[m + x] = t[x]
  <2>1. \A x \in 1 .. k : m + x \in 1 .. m + k
    BY <1>1, <1>2
  <2> QED
    BY <1>6, <1>11, <2>1 DEF Joins, m, k
<1>14. ASSUME NEW x \in 1 .. 2 PROVE s[(m + k) + x] = e[x]
  <2>1. (m + k) + x \in 1 .. Len(v) /\ (m + k) + x \in 1 .. Len(w) /\ x \in 1 .. Len(e)
    BY <1>1, <1>2, <1>3, <1>10
  <2>2. v[Len(u) + x] = e[x]
    BY <1>7, <2>1 DEF Joins
  <2>3. s[(m + k) + x] = w[(m + k) + x] /\ w[(m + k) + x] = v[(m + k) + x]
    BY <1>8, <1>9, <2>1 DEF Joins
  <2> QED
    BY <1>10, <2>2, <2>3
<1>15. ASSUME NEW x \in 1 .. n PROVE s[(m + k) + 2 + x] = d[x]
  <2>1. (m + k) + 2 + x \in 1 .. Len(w) /\ x \in 1 .. Len(d)
    BY <1>1, <1>2, <1>10 DEF n
  <2>2. w[Len(v) + x] = d[x]
    BY <1>8, <2>1 DEF Joins
  <2>3. s[(m + k) + 2 + x] = w[(m + k) + 2 + x]
    BY <1>9, <2>1 DEF Joins
  <2> QED
    BY <1>10, <2>2, <2>3
<1>16. 1 \in 1 .. 2 /\ 2 \in 1 .. 2 /\ m + k \in Nat
  BY <1>1, <1>2
<1>17. s[(m + k) + 1] = 13 /\ s[(m + k) + 2] = 10
  BY <1>3, <1>14, <1>16
<1> QED
  BY <1>1, <1>2, <1>4, <1>5, <1>9, <1>10, <1>12, <1>13, <1>15, <1>16, <1>17
     DEF h, t, d, m, k, n, SizeLen

------------------------------------------------------------------------------
(* What the decoder reads of a chunk, of which the end may be missing.           *)

Fronts(s, c) ==
  /\ s \in Seq(Nat)
  /\ \A x \in 1 .. Len(s) : x <= Len(Body!Sent(c)) => s[x] = Body!Sent(c)[x]

(* What is at the front of a body that begins with a chunk.                      *)
LEMMA FrontIs ==
  ASSUME NEW c \in Chunk, NEW s, Fronts(s, c)
  PROVE  LET m == SizeLen(c)  l == LineLen(c)  n == Len(c.data)  k == Len(c.note)
         IN  /\ s \in Seq(Nat) /\ m \in 1 .. 2 /\ l \in Nat /\ l = m + k
             /\ n \in 1 .. 255 /\ k \in Nat /\ Len(s) \in Nat
             /\ Len(Body!Sent(c)) = l + 2 + n + 2
             /\ \A x \in 1 .. m : x <= Len(s) => s[x] = Size(c)[x] /\ s[x] \in HexCodes
             /\ \A x \in 1 .. k : m + x <= Len(s) => s[m + x] = c.note[x]
             /\ l + 1 <= Len(s) => s[l + 1] = 13
             /\ l + 2 <= Len(s) => s[l + 2] = 10
             /\ \A x \in 1 .. n : l + 2 + x <= Len(s) => s[l + 2 + x] = c.data[x]
<1> DEFINE z == Body!Sent(c)  m == SizeLen(c)  l == LineLen(c)  n == Len(c.data)  k == Len(c.note)
<1>1. /\ z \in Seq(Nat) /\ m \in 1 .. 2 /\ l \in Nat /\ l = m + k /\ n \in 1 .. 255
      /\ Len(z) = l + 2 + n + 2
      /\ \A x \in 1 .. m : z[x] = Size(c)[x]
      /\ \A x \in 1 .. k : z[m + x] = c.note[x]
      /\ z[l + 1] = 13 /\ z[l + 2] = 10
      /\ \A x \in 1 .. n : z[l + 2 + x] = c.data[x]
  BY SentIs
<1>2. k \in Nat
  BY ChunkIs
<1>3. s \in Seq(Nat) /\ Len(s) \in Nat /\ \A x \in 1 .. Len(s) : x <= Len(z) => s[x] = z[x]
  BY DEF Fronts
<1>4. \A x \in 1 .. m : Size(c)[x] \in HexCodes
  <2>1. HexRight(Size(c), n)
    BY ChunkIs, SizeIs DEF Size
  <2> QED
    BY <2>1 DEF HexRight, SizeLen
<1> HIDE DEF z, m, l, n, k
<1>5. /\ \A x \in 1 .. m : x <= Len(s) => x \in 1 .. Len(s) /\ x <= Len(z)
      /\ \A x \in 1 .. k : m + x <= Len(s) => m + x \in 1 .. Len(s) /\ m + x <= Len(z)
      /\ l + 1 <= Len(s) => l + 1 \in 1 .. Len(s) /\ l + 1 <= Len(z)
      /\ l + 2 <= Len(s) => l + 2 \in 1 .. Len(s) /\ l + 2 <= Len(z)
      /\ \A x \in 1 .. n : l + 2 + x <= Len(s) =>
           l + 2 + x \in 1 .. Len(s) /\ l + 2 + x <= Len(z)
  BY <1>1, <1>2, <1>3
<1>6. /\ \A x \in 1 .. m : x <= Len(s) => s[x] = Size(c)[x] /\ s[x] \in HexCodes
      /\ \A x \in 1 .. k : m + x <= Len(s) => s[m + x] = c.note[x]
  BY <1>1, <1>3, <1>4, <1>5
<1>7. /\ l + 1 <= Len(s) => s[l + 1] = 13
      /\ l + 2 <= Len(s) => s[l + 2] = 10
      /\ \A x \in 1 .. n : l + 2 + x <= Len(s) => s[l + 2 + x] = c.data[x]
  BY <1>1, <1>3, <1>5
<1> QED
  BY <1>1, <1>2, <1>3, <1>6, <1>7 DEF z, m, l, n, k

(* A size that is there to its last digit is read, whatever else is missing.     *)
LEMMA ReadsSize ==
  ASSUME NEW c \in Chunk, NEW s, Fronts(s, c), SizeLen(c) <= Len(s)
  PROVE  Body!esp_strtol(s, 16) = Len(c.data)
<1> DEFINE m == SizeLen(c)  l == LineLen(c)  n == Len(c.data)  k == Len(c.note)
<1>1. /\ s \in Seq(Nat) /\ m \in 1 .. 2 /\ l \in Nat /\ l = m + k /\ n \in 1 .. 255 /\ k \in Nat
      /\ Len(s) \in Nat /\ m <= Len(s)
      /\ \A x \in 1 .. m : x <= Len(s) => s[x] = Size(c)[x] /\ s[x] \in HexCodes
      /\ \A x \in 1 .. k : m + x <= Len(s) => s[m + x] = c.note[x]
      /\ l + 1 <= Len(s) => s[l + 1] = 13
  BY FrontIs
<1>2. /\ Size(c)[1] # 48
      /\ m = 1 => Body!Digit(Size(c)[1]) = n
      /\ m = 2 => Body!Digit(Size(c)[1]) * 16 + Body!Digit(Size(c)[2]) = n
  <2>1. HexRight(Size(c), n)
    BY ChunkIs, SizeIs DEF Size
  <2> QED
    BY <2>1 DEF HexRight, SizeLen
<1>3. Body!Digit(13) = 36 /\ Body!Digit(0) = 36
  BY DEF Body!Digit
<1>4. k # 0 => Body!Digit(c.note[1]) >= 16
  <2>1. c.note \in Seq(Nat) /\ (c.note # <<>> => Body!Digit(c.note[1]) >= 16)
    BY ChunkIs
  <2> QED
    BY <2>1
<1> HIDE DEF m, l, n, k
<1>5. Body!Digit(Body!At(s, m + 1)) >= 16
  <2>0. DOMAIN s = 1 .. Len(s)
    BY <1>1
  <2>1. CASE m = Len(s)
    <3>1. m + 1 \notin 1 .. Len(s)
      BY <1>1, <2>1
    <3>2. Body!At(s, m + 1) = 0
      BY <2>0, <3>1 DEF Body!At
    <3> QED
      BY <1>3, <3>2
  <2>2. CASE m # Len(s)
    <3>1. m + 1 \in 1 .. Len(s) /\ m + 1 <= Len(s)
      BY <1>1, <2>2
    <3>2. Body!At(s, m + 1) = s[m + 1]
      BY <2>0, <3>1 DEF Body!At
    <3>3. CASE k = 0
      <4>1. m + 1 = l + 1
        BY <1>1, <3>3
      <4>2. s[m + 1] = 13
        BY <1>1, <3>1, <4>1
      <4> QED
        BY <1>3, <3>2, <4>2
    <3>4. CASE k # 0
      <4>1. 1 \in 1 .. k
        BY <1>1, <3>4
      <4>2. s[m + 1] = c.note[1]
        BY <1>1, <3>1, <4>1
      <4> QED
        BY <1>4, <3>2, <3>4, <4>2
    <3> QED
      BY <3>3, <3>4
  <2> QED
    BY <2>1, <2>2
<1>6. 1 \in 1 .. m /\ \A x \in 1 .. m : x <= Len(s)
  BY <1>1
<1>7. s[1] # 48 /\ \A x \in 1 .. m : s[x] \in HexCodes /\ s[x] = Size(c)[x]
  BY <1>1, <1>2, <1>6
<1>8. /\ m = 1 => Body!esp_strtol(s, 16) = Body!Digit(s[1])
      /\ m = 2 => Body!esp_strtol(s, 16) = Body!Digit(s[1]) * 16 + Body!Digit(s[2])
  BY <1>1, <1>5, <1>7, NumberIs
<1>9. m = 1 \/ m = 2
  BY <1>1
<1>10. m = 2 => 2 \in 1 .. m
  BY <1>1
<1>11. s[1] = Size(c)[1] /\ (m = 2 => s[2] = Size(c)[2])
  BY <1>6, <1>7, <1>10
<1>12. Body!esp_strtol(s, 16) = n
  BY ONLY <1>2, <1>8, <1>9, <1>11, Zenon
<1> QED
  BY <1>12 DEF n

LEMMA DigitAboveNone == \A c \in HexCodes : c # 48 => Body!Digit(c) \in 1 .. 15
BY DEF HexCodes, Body!Digit

(* The first digit of a size of two, alone, is a size, too.                      *)
LEMMA ReadsDigit ==
  ASSUME NEW c \in Chunk, NEW s, Fronts(s, c), Len(s) > 0, Len(s) < SizeLen(c)
  PROVE  Len(s) = 1 /\ Body!esp_strtol(s, 16) \in Nat \ {0}
<1>1. /\ s \in Seq(Nat) /\ SizeLen(c) \in 1 .. 2 /\ Len(s) \in Nat
      /\ \A x \in 1 .. SizeLen(c) : x <= Len(s) => s[x] = Size(c)[x] /\ s[x] \in HexCodes
  BY FrontIs
<1>2. Len(s) = 1 /\ 1 \in 1 .. SizeLen(c) /\ 1 <= Len(s)
  <2>1. \A a \in Nat : \A b \in 1 .. 2 : a > 0 /\ a < b => a = 1 /\ 1 \in 1 .. b /\ 1 <= a
    OBVIOUS
  <2> QED
    BY ONLY <1>1, <2>1, Len(s) > 0, Len(s) < SizeLen(c), Zenon
<1>3. s[1] = Size(c)[1] /\ s[1] \in HexCodes
  BY <1>1, <1>2
<1>4. Size(c)[1] # 48
  <2>1. HexRight(Size(c), Len(c.data))
    BY ChunkIs, SizeIs DEF Size
  <2> QED
    BY <2>1 DEF HexRight
<1>5. Body!Digit(s[1]) \in 1 .. 15
  BY <1>3, <1>4, DigitAboveNone
<1>6. Body!Digit(Body!At(s, 1 + 1)) >= 16
  <2>1. 1 + 1 \notin DOMAIN s
    BY <1>1, <1>2
  <2>2. Body!At(s, 1 + 1) = 0
    BY <2>1 DEF Body!At
  <2>3. Body!Digit(0) = 36 /\ 36 >= 16
    BY DEF Body!Digit
  <2> QED
    BY ONLY <2>2, <2>3
<1>7. 1 \in 1 .. 2 /\ \A x \in 1 .. 1 : s[x] \in HexCodes
  BY <1>3
<1>8. Body!esp_strtol(s, 16) = Body!Digit(s[1])
  BY <1>1, <1>2, <1>3, <1>4, <1>6, <1>7, NumberIs
<1> QED
  BY <1>2, <1>5, <1>8

LEMMA PairIs ==
  ASSUME NEW s \in Seq(Nat), NEW k \in 0 .. Len(s) - 2
  PROVE  SubSeq(s, k + 1, k + 2) = Body!CRLF <=> s[k + 1] = 13 /\ s[k + 2] = 10
<1> DEFINE t == SubSeq(s, k + 1, k + 2)
<1>1. Len(s) \in Nat /\ k \in Nat /\ \A i \in (k + 1) .. (k + 2) : s[i] \in Nat
  OBVIOUS
<1>2. /\ t \in Seq(Nat)
      /\ Len(t) = IF k + 1 <= k + 2 THEN (k + 2) - (k + 1) + 1 ELSE 0
      /\ \A i \in 1 .. (k + 2) - (k + 1) + 1 : t[i] = s[(k + 1) + i - 1]
  BY <1>1, SubSeqProperties
<1> HIDE DEF t
<1>3. Len(t) = 2 /\ t[1] = s[k + 1] /\ t[2] = s[k + 2]
  BY <1>1, <1>2
<1>4. Body!CRLF \in Seq(Nat) /\ Len(Body!CRLF) = 2 /\ Body!CRLF[1] = 13 /\ Body!CRLF[2] = 10
  BY DEF Body!CRLF
<1>5. t[1] = 13 /\ t[2] = 10 => t = Body!CRLF
  <2> SUFFICES ASSUME t[1] = 13, t[2] = 10 PROVE t = Body!CRLF
    OBVIOUS
  <2>1. \A x \in 1 .. 2 : x = 1 \/ x = 2
    OBVIOUS
  <2>2. \A x \in 1 .. Len(t) : t[x] = Body!CRLF[x]
    BY ONLY <1>3, <1>4, <2>1, t[1] = 13, t[2] = 10
  <2>3. t \in Seq(Nat)
    BY ONLY <1>2
  <2>4. Len(t) = Len(Body!CRLF)
    BY ONLY <1>3, <1>4
  <2> QED
    BY ONLY <1>4, <2>2, <2>3, <2>4, SeqEqual, Zenon
<1> QED
  BY <1>3, <1>4, <1>5 DEF t

LEMMA LineAt ==
  ASSUME NEW c \in Chunk, NEW s, Fronts(s, c),
         NEW i \in 0 .. Len(s) - 2, SubSeq(s, i + 1, i + 2) = Body!CRLF
  PROVE  LineLen(c) <= i
<1> DEFINE m == SizeLen(c)  l == LineLen(c)  k == Len(c.note)
<1>1. /\ s \in Seq(Nat) /\ m \in 1 .. 2 /\ l \in Nat /\ l = m + k /\ k \in Nat
      /\ Len(s) \in Nat
      /\ \A x \in 1 .. m : x <= Len(s) => s[x] \in HexCodes
      /\ \A x \in 1 .. k : m + x <= Len(s) => s[m + x] = c.note[x]
      /\ l + 1 <= Len(s) => s[l + 1] = 13
  BY FrontIs
<1>2. \A x \in 1 .. k - 1 : ~(c.note[x] = 13 /\ c.note[x + 1] = 10)
  BY ChunkIs
<1>3. 13 \notin HexCodes
  BY DEF HexCodes
<1>4. s[i + 1] = 13 /\ s[i + 2] = 10
  BY <1>1, PairIs
<1> HIDE DEF m, l, k
<1> SUFFICES ASSUME ~(l <= i) PROVE FALSE
  BY DEF l
<1>5. i \in Nat /\ i + 1 <= Len(s) /\ i + 2 <= Len(s) /\ i < l
  BY <1>1
<1>6. CASE i < m
  <2>1. i + 1 \in 1 .. m
    BY <1>1, <1>5, <1>6
  <2> QED
    BY <1>1, <1>3, <1>4, <1>5, <2>1
<1>7. CASE ~(i < m) /\ i # l - 1
  <2> DEFINE y == i + 1 - m
  <2>1. y \in 1 .. k - 1 /\ y \in 1 .. k /\ y + 1 \in 1 .. k /\ i + 1 = m + y /\ i + 2 = m + (y + 1)
    BY <1>1, <1>5, <1>7
  <2> HIDE DEF y
  <2>2. s[i + 1] = c.note[y] /\ s[i + 2] = c.note[y + 1]
    BY <1>1, <1>5, <2>1
  <2> QED
    BY <1>2, <1>4, <2>1, <2>2
<1>8. CASE i = l - 1
  <2>1. i + 2 = l + 1
    BY <1>1, <1>8
  <2> QED
    BY <1>1, <1>4, <1>5, <2>1
<1> QED
  BY <1>6, <1>7, <1>8

LEMMA LineBegins ==
  ASSUME NEW c \in Chunk, NEW s, Fronts(s, c), LineLen(c) + 2 <= Len(s)
  PROVE  /\ LineLen(c) \in 0 .. Len(s) - 2
         /\ SubSeq(s, LineLen(c) + 1, LineLen(c) + 2) = Body!CRLF
<1> DEFINE l == LineLen(c)
<1>1. /\ s \in Seq(Nat) /\ l \in Nat /\ Len(s) \in Nat
      /\ l + 1 <= Len(s) => s[l + 1] = 13
      /\ l + 2 <= Len(s) => s[l + 2] = 10
  BY FrontIs
<1> HIDE DEF l
<1>2. l + 2 <= Len(s)
  BY DEF l
<1>3. l \in 0 .. Len(s) - 2 /\ l + 1 <= Len(s)
  BY <1>1, <1>2
<1>4. SubSeq(s, l + 1, l + 2) = Body!CRLF
  BY <1>1, <1>2, <1>3, PairIs
<1> QED
  BY <1>3, <1>4 DEF l

(* The line of the size ends where its two bytes are, or nowhere.                *)
LEMMA ReadsLine ==
  ASSUME NEW c \in Chunk, NEW s, Fronts(s, c)
  PROVE  /\ Body!HasLine(s) <=> LineLen(c) + 2 <= Len(s)
         /\ Body!HasLine(s) => Body!LineLength(s) = LineLen(c)
<1> DEFINE l == LineLen(c)
           P(i) == /\ SubSeq(s, i + 1, i + 2) = Body!CRLF
                   /\ \A x \in 0 .. i - 1 : SubSeq(s, x + 1, x + 2) # Body!CRLF
<1>1. l \in Nat /\ Len(s) \in Nat
  BY FrontIs
<1>2. ASSUME Body!HasLine(s) PROVE l + 2 <= Len(s)
  <2>1. PICK i \in 0 .. Len(s) - 2 : SubSeq(s, i + 1, i + 2) = Body!CRLF
    BY <1>2 DEF Body!HasLine
  <2>2. l <= i
    BY <2>1, LineAt
  <2> HIDE DEF l
  <2> QED
    BY <1>1, <2>2
<1>3. ASSUME l + 2 <= Len(s) PROVE Body!HasLine(s) /\ Body!LineLength(s) = l
  <2>1. l \in 0 .. Len(s) - 2 /\ SubSeq(s, l + 1, l + 2) = Body!CRLF
    BY <1>3, LineBegins
  <2>2. \A i \in 0 .. Len(s) - 2 : SubSeq(s, i + 1, i + 2) = Body!CRLF => l <= i
    BY LineAt
  <2> HIDE DEF l
  <2>3. \A x \in 0 .. l - 1 : x \in 0 .. Len(s) - 2 /\ ~(l <= x)
    BY <1>1, <1>3
  <2>4. P(l)
    BY <2>1, <2>2, <2>3
  <2>5. \A i \in 0 .. Len(s) - 2 : P(i) => i = l
    <3> SUFFICES ASSUME NEW i \in 0 .. Len(s) - 2, P(i), i # l PROVE FALSE
      OBVIOUS
    <3>1. l <= i
      BY <2>2
    <3>2. l \in 0 .. i - 1
      BY <1>1, <3>1
    <3> QED
      BY <2>1, <3>2
  <2>6. Body!LineLength(s) = CHOOSE i \in 0 .. Len(s) - 2 : P(i)
    BY DEF Body!LineLength
  <2> HIDE DEF P
  <2>7. Body!LineLength(s) = l
    BY <2>1, <2>4, <2>5, <2>6
  <2>8. Body!HasLine(s)
    BY <2>1 DEF Body!HasLine
  <2> QED
    BY <2>7, <2>8
<1> QED
  BY <1>2, <1>3 DEF l

LEMMA ReadsData ==
  ASSUME NEW c \in Chunk, NEW s, Fronts(s, c), Len(Body!Sent(c)) <= Len(s)
  PROVE  SubSeq(s, LineLen(c) + 2 + 1, LineLen(c) + 2 + Len(c.data)) = c.data
<1> DEFINE l == LineLen(c)  n == Len(c.data)  t == SubSeq(s, l + 2 + 1, l + 2 + n)
<1>1. /\ s \in Seq(Nat) /\ l \in Nat /\ n \in 1 .. 255 /\ Len(s) \in Nat
      /\ Len(Body!Sent(c)) = l + 2 + n + 2
      /\ \A x \in 1 .. n : l + 2 + x <= Len(s) => s[l + 2 + x] = c.data[x]
  BY FrontIs
<1>2. c.data \in Seq(Nat)
  BY ChunkIs
<1>3. t \in Seq(Nat) /\ Len(t) = n /\ \A x \in 1 .. n : t[x] = c.data[x]
  <2> HIDE DEF l, n
  <2>1. /\ \A i \in (l + 2 + 1) .. (l + 2 + n) : i \in 1 .. Len(s)
        /\ \A x \in 1 .. n : l + 2 + x <= Len(s)
    BY <1>1
  <2>2. \A i \in (l + 2 + 1) .. (l + 2 + n) : s[i] \in Nat
    BY <1>1, <2>1
  <2>3. /\ t \in Seq(Nat)
        /\ Len(t) = IF l + 2 + 1 <= l + 2 + n THEN (l + 2 + n) - (l + 2 + 1) + 1 ELSE 0
        /\ \A i \in 1 .. (l + 2 + n) - (l + 2 + 1) + 1 : t[i] = s[(l + 2 + 1) + i - 1]
    BY <1>1, <2>2, SubSeqProperties
  <2> HIDE DEF t
  <2>4. (l + 2 + n) - (l + 2 + 1) + 1 = n /\ l + 2 + 1 <= l + 2 + n
        /\ \A x \in 1 .. n : (l + 2 + 1) + x - 1 = l + 2 + x
    BY <1>1
  <2>5. Len(t) = n /\ \A x \in 1 .. n : t[x] = s[l + 2 + x]
    BY <2>3, <2>4
  <2> QED
    BY <1>1, <2>1, <2>3, <2>5
<1> HIDE DEF t
<1>4. t = c.data
  BY <1>2, <1>3, SeqEqual DEF n
<1> QED
  BY <1>4 DEF t, l, n

(* The chunk of size 0 ends the body, and its first byte does.                   *)
LEMMA ReadsLast ==
  ASSUME NEW s \in Seq(Nat), Len(s) > 0, s[1] = 48, Len(s) > 1 => s[2] = 13
  PROVE  Body!esp_strtol(s, 16) = 0
<1>1. 48 \in HexCodes /\ Body!Digit(48) = 0 /\ Body!Digit(13) = 36 /\ Body!Digit(0) = 36
  BY DEF HexCodes, Body!Digit
<1>2. Body!At(s, 1 + 1) \in {0, 13}
  <2>1. DOMAIN s = 1 .. Len(s) /\ Len(s) \in Nat /\ 1 + 1 = 2
    OBVIOUS
  <2>2. 2 \in DOMAIN s => s[2] = 13
    BY <2>1
  <2> QED
    BY <2>1, <2>2 DEF Body!At
<1>3. Body!Digit(Body!At(s, 1 + 1)) >= 16 /\ Body!At(s, 2) \notin {88, 120}
  <2>1. 1 + 1 = 2
    OBVIOUS
  <2> QED
    BY <1>1, <1>2, <2>1
<1>4. 1 \in 1 .. 2 /\ 1 <= Len(s) /\ \A x \in 1 .. 1 : s[x] \in HexCodes
  BY <1>1
<1>5. Body!esp_strtol(s, 16) = Body!Digit(s[1])
  BY <1>3, <1>4, NumberIs
<1> QED
  BY <1>1, <1>5

------------------------------------------------------------------------------
(* The decoder, over a body that may be cut.                                     *)

Texts(cs) == [k \in DOMAIN cs |-> Body!Sent(cs[k])]
Datas(cs) == [k \in DOMAIN cs |-> cs[k].data]
BodyOf(cs) == Flat(Texts(cs), Len(cs)) \o <<48>> \o Body!CRLF \o Body!CRLF

(* A body ends with a chunk of size 0.                                           *)
LEMMA LastIs ==
  ASSUME NEW f \in Seq(Nat)
  PROVE  LET b == f \o <<48>> \o Body!CRLF \o Body!CRLF
         IN  /\ b \in Seq(Nat) /\ Len(f) \in Nat /\ Len(b) = Len(f) + 5
             /\ \A x \in 1 .. Len(f) : b[x] = f[x]
             /\ b[Len(f) + 1] = 48 /\ b[Len(f) + 2] = 13
<1> DEFINE o == <<48>>  e == Body!CRLF  u == f \o o  v == u \o e  b == v \o e  n == Len(f)
<1>1. o \in Seq(Nat) /\ Len(o) = 1 /\ o[1] = 48
  OBVIOUS
<1>2. e \in Seq(Nat) /\ Len(e) = 2 /\ e[1] = 13
  BY DEF Body!CRLF
<1> HIDE DEF o, e
<1>3. u \in Seq(Nat) /\ Joins(f, o, u)
  BY <1>1, JoinedAll, Zenon
<1> HIDE DEF u
<1>4. v \in Seq(Nat) /\ Joins(u, e, v)
  BY <1>2, <1>3, JoinedAll, Zenon
<1> HIDE DEF v
<1>5. b \in Seq(Nat) /\ Joins(v, e, b)
  BY <1>2, <1>4, JoinedAll, Zenon
<1> HIDE DEF b
<1>6. n \in Nat /\ Len(u) = n + 1 /\ Len(v) = n + 3 /\ Len(b) = n + 5
  BY <1>1, <1>2, <1>3, <1>4, <1>5 DEF Joins
<1> HIDE DEF n
<1>7. /\ \A x \in 1 .. n : x \in 1 .. Len(u) /\ x \in 1 .. Len(v)
      /\ n + 1 \in 1 .. Len(u) /\ n + 1 \in 1 .. Len(v) /\ n + 2 \in 1 .. Len(v)
      /\ n + 2 = Len(u) + 1
  BY <1>6
<1>8. \A x \in 1 .. n : b[x] = f[x]
  BY <1>3, <1>4, <1>5, <1>7 DEF Joins, n
<1>9. b[n + 1] = 48
  <2>1. u[Len(f) + 1] = o[1]
    <3>1. 1 \in 1 .. Len(o)
      BY <1>1
    <3> QED
      BY <1>3, <3>1 DEF Joins
  <2> QED
    BY <1>1, <1>4, <1>5, <1>7, <2>1 DEF Joins, n
<1>10. b[n + 2] = 13
  <2>1. v[Len(u) + 1] = e[1]
    <3>1. 1 \in 1 .. Len(e)
      BY <1>2
    <3> QED
      BY <1>4, <3>1 DEF Joins
  <2> QED
    BY <1>2, <1>5, <1>7, <2>1 DEF Joins
<1> QED
  BY <1>5, <1>6, <1>8, <1>9, <1>10 DEF b, v, u, o, e, n
LEMMA TextsAre ==
  ASSUME NEW cs \in Seq(Chunk)
  PROVE  /\ Len(cs) \in Nat
         /\ \A k \in 1 .. Len(cs) :
              /\ cs[k] \in Chunk /\ Texts(cs)[k] = Body!Sent(cs[k]) /\ Datas(cs)[k] = cs[k].data
              /\ Texts(cs)[k] \in Seq(Nat) /\ Datas(cs)[k] \in Seq(Nat)
<1>1. Len(cs) \in Nat /\ DOMAIN cs = 1 .. Len(cs) /\ \A k \in 1 .. Len(cs) : cs[k] \in Chunk
  OBVIOUS
<1>2. \A k \in 1 .. Len(cs) : Body!Sent(cs[k]) \in Seq(Nat) /\ cs[k].data \in Seq(Nat)
  BY <1>1, SentIs, ChunkIs
<1> QED
  BY <1>1, <1>2 DEF Texts, Datas

LEMMA TextIs ==
  ASSUME chunks \in Seq(Chunk), NEW n \in 0 .. Len(chunks)
  PROVE  Body!TextOf(n) = Flat(Texts(chunks), n) /\ Body!DataOf(n) = Flat(Datas(chunks), n)
<1>1. \A k \in 1 .. n : k \in 1 .. Len(chunks)
  BY TextsAre
<1>2. \A k \in 1 .. n : Texts(chunks)[k] = Body!Sent(chunks[k]) /\ Datas(chunks)[k] = chunks[k].data
  BY <1>1, TextsAre
<1>3. /\ [k \in 1 .. n |-> Texts(chunks)[k]] = [k \in 1 .. n |-> Body!Sent(chunks[k])]
      /\ [k \in 1 .. n |-> Datas(chunks)[k]] = [k \in 1 .. n |-> chunks[k].data]
  BY <1>2
<1> QED
  BY <1>3 DEF Flat, Body!TextOf, Body!DataOf

LEMMA FrontOf ==
  ASSUME NEW b \in Seq(Nat), NEW w \in 0 .. Len(b)
  PROVE  LET s == SubSeq(b, 1, w)
         IN  s \in Seq(Nat) /\ Len(s) = w /\ \A x \in 1 .. w : s[x] = b[x]
<1> DEFINE s == SubSeq(b, 1, w)
<1>1. /\ Len(b) \in Nat /\ w \in Nat /\ \A x \in 1 .. w : x \in 1 .. Len(b)
  OBVIOUS
<1>2. \A x \in 1 .. w : b[x] \in Nat
  BY <1>1
<1>3. /\ s \in Seq(Nat) /\ Len(s) = IF 1 <= w THEN w - 1 + 1 ELSE 0
      /\ \A x \in 1 .. w - 1 + 1 : s[x] = b[1 + x - 1]
  BY <1>1, <1>2, SubSeqProperties
<1> HIDE DEF s
<1>4. Len(s) = w /\ w - 1 + 1 = w /\ \A x \in 1 .. w : 1 + x - 1 = x
  BY <1>1, <1>3
<1> QED
  BY <1>3, <1>4 DEF s

LEMMA RestOf ==
  ASSUME NEW b \in Seq(Nat), NEW p \in 0 .. Len(b)
  PROVE  LET s == SubSeq(b, p + 1, Len(b))
         IN  s \in Seq(Nat) /\ Len(s) = Len(b) - p /\ \A x \in 1 .. Len(s) : s[x] = b[p + x]
<1> DEFINE z == Len(b)  o == p + 1  s == SubSeq(b, o, z)
<1>1. z \in Nat /\ p \in Nat /\ p <= z /\ o \in Int /\ \A i \in o .. z : i \in 1 .. z
  OBVIOUS
<1>2. \A i \in o .. z : b[i] \in Nat
  BY <1>1
<1> HIDE DEF s, z, o
<1>3. /\ s \in Seq(Nat)
      /\ Len(s) = IF o <= z THEN z - o + 1 ELSE 0
      /\ \A i \in 1 .. z - o + 1 : s[i] = b[o + i - 1]
  BY <1>1, <1>2, SubSeqProperties DEF s
<1>4. Len(s) = z - p /\ \A x \in 1 .. z - p : x \in 1 .. z - o + 1 /\ o + x - 1 = p + x
  BY <1>1, <1>3 DEF o
<1> QED
  BY <1>3, <1>4 DEF s, z, o

RestRight(cs, k, b) ==
  LET p == Len(Flat(Texts(cs), k))
      s == SubSeq(b, p + 1, Len(b))
  IN  /\ p \in Nat /\ Len(b) \in Nat
      /\ s \in Seq(Nat) /\ Len(s) = Len(b) - p
      /\ k # Len(cs) => Fronts(s, cs[k + 1])
      /\ k = Len(cs) => /\ Len(s) > 0 => s[1] = 48
                        /\ Len(s) > 1 => s[2] = 13

(* What is left of the first w bytes of a body where a chunk begins, or the last *)
(* one of size 0.                                                                *)
LEMMA RestIs ==
  ASSUME NEW cs \in Seq(Chunk), NEW w \in 0 .. Len(BodyOf(cs)), NEW k \in 0 .. Len(cs),
         Len(Flat(Texts(cs), k)) <= Len(SubSeq(BodyOf(cs), 1, w))
  PROVE  RestRight(cs, k, SubSeq(BodyOf(cs), 1, w))
<1> DEFINE F == Texts(cs)  n == Len(cs)  f == Flat(F, n)  p == Len(Flat(F, k))
           a == BodyOf(cs)  b == SubSeq(a, 1, w)  s == SubSeq(b, p + 1, Len(b))
<1>1. n \in Nat /\ \A i \in 1 .. n : F[i] = Body!Sent(cs[i]) /\ F[i] \in Seq(Nat)
  BY TextsAre
<1> HIDE DEF F, n
<1>2. k \in 0 .. n
  BY DEF n
<1>3. /\ f \in Seq(Nat) /\ Flat(F, k) \in Seq(Nat) /\ p \in Nat /\ Len(f) \in Nat
  <2>1. n \in 0 .. n
    BY <1>1
  <2> QED
    BY <1>1, <1>2, <2>1, FlatType
<1>4. /\ a \in Seq(Nat) /\ Len(a) = Len(f) + 5
      /\ \A x \in 1 .. Len(f) : a[x] = f[x]
      /\ a[Len(f) + 1] = 48 /\ a[Len(f) + 2] = 13
  BY <1>3, LastIs DEF BodyOf, n, F
<1> HIDE DEF a
<1>5. b \in Seq(Nat) /\ Len(b) = w /\ \A x \in 1 .. w : b[x] = a[x]
  BY <1>4, FrontOf DEF a
<1> HIDE DEF b
<1>6. Len(b) \in Nat /\ p \in 0 .. Len(b)
  BY <1>3, <1>5 DEF F, a, b
<1>7. s \in Seq(Nat) /\ Len(s) = Len(b) - p /\ \A x \in 1 .. Len(s) : s[x] = b[p + x]
  BY <1>5, <1>6, RestOf
<1> HIDE DEF p, s, f
<1>8. ASSUME NEW x \in 1 .. Len(s) PROVE s[x] = a[p + x]
  <2>1. p + x \in 1 .. w
    BY <1>5, <1>6, <1>7
  <2> QED
    BY <1>5, <1>7, <2>1
<1>9. ASSUME k # n PROVE Fronts(s, cs[k + 1])
  <2> DEFINE z == Body!Sent(cs[k + 1])
  <2>1. k \in 0 .. n - 1 /\ k + 1 \in 1 .. n
    BY <1>1, <1>2, <1>9
  <2>2. z = F[k + 1]
    BY <1>1, <2>1
  <2> HIDE DEF z
  <2>3. /\ Len(z) \in Nat /\ p + Len(z) <= Len(f)
        /\ \A x \in 1 .. Len(z) : f[p + x] = z[x]
    <3>1. \A i \in 1 .. n : F[i] \in Seq(Nat)
      BY <1>1
    <3>2. Stands(F, n, k, Len(Flat(F, k)), F[k + 1])
      BY ONLY <1>1, <2>1, <3>1, FlatHolds, Zenon
    <3>3. Stands(F, n, k, p, z)
      BY ONLY <2>2, <3>2, Zenon DEF p
    <3> QED
      BY ONLY <3>3, Zenon DEF Stands, f
  <2>4. ASSUME NEW x \in 1 .. Len(s), x <= Len(z) PROVE s[x] = z[x]
    <3>1. x \in 1 .. Len(z) /\ p + x \in 1 .. Len(f)
      <4>1. p \in Nat /\ Len(s) \in Nat /\ Len(f) \in Nat
        BY <1>3, <1>6, <1>7 DEF p
      <4> QED
        BY ONLY <2>3, <2>4, <4>1
    <3>2. s[x] = a[p + x] /\ a[p + x] = f[p + x] /\ f[p + x] = z[x]
      BY <1>4, <1>8, <2>3, <3>1, Zenon
    <3> QED
      BY <3>2, Zenon
  <2> QED
    BY <1>7, <2>4 DEF Fronts, z
<1>10. ASSUME k = n PROVE /\ Len(s) > 0 => s[1] = 48
                          /\ Len(s) > 1 => s[2] = 13
  <2>1. p = Len(f)
    BY <1>10 DEF p, f
  <2>2. /\ Len(s) > 0 => 1 \in 1 .. Len(s)
        /\ Len(s) > 1 => 2 \in 1 .. Len(s)
    BY <1>6, <1>7
  <2> QED
    BY <1>4, <1>8, <2>1, <2>2
<1> QED
  BY <1>3, <1>5, <1>6, <1>7, <1>9, <1>10 DEF p, s, n, F, b, a, RestRight

(* The decoder has read and given out the first k chunks.  At its end that are   *)
(* all that came whole, and it is wild if and only if a piece of one more came.  *)
Decoded(k) ==
  /\ j = Len(Flat(Texts(chunks), k)) /\ j <= Len(chunked)
  /\ decode = Flat(Datas(chunks), k)
  /\ ~done => ~wild
  /\ done => /\ k = Len(chunks) \/ Len(Flat(Texts(chunks), k + 1)) > Len(chunked)
             /\ wild <=> k < Len(chunks) /\ j < Len(chunked)

BodyInv ==
  /\ chunks \in Seq(Chunk) /\ done \in BOOLEAN /\ wild \in BOOLEAN
  /\ \E w \in 0 .. Len(BodyOf(chunks)) : chunked = SubSeq(BodyOf(chunks), 1, w)
  /\ \E k \in 0 .. Len(chunks) : Decoded(k)

LEMMA BodyInit == Body!Init => BodyInv
<1> SUFFICES ASSUME Body!Init PROVE BodyInv
  OBVIOUS
<1>1. PICK n \in 0 .. MaxChunks : chunks \in [1 .. n -> Chunk]
  BY DEF Body!Init, Chunk
<1>2. n \in Nat /\ chunks \in Seq(Chunk) /\ Len(chunks) = n /\ n \in 0 .. Len(chunks)
  <2>1. n \in Nat
    BY BodyAssumption
  <2> QED
    BY <1>1, <2>1
<1>3. BodyOf(chunks) = Body!TextOf(Len(chunks)) \o <<48>> \o Body!CRLF \o Body!CRLF
  BY <1>2, TextIs DEF BodyOf
<1>4. \E w \in 0 .. Len(BodyOf(chunks)) : chunked = SubSeq(BodyOf(chunks), 1, w)
  BY <1>3 DEF Body!Init
<1>5. j = 0 /\ decode = <<>> /\ done = FALSE /\ wild = FALSE
  BY DEF Body!Init
<1>6. Decoded(0)
  <2>1. Flat(Texts(chunks), 0) = <<>> /\ Flat(Datas(chunks), 0) = <<>> /\ Len(<<>>) = 0
    BY FlatNone
  <2>2. 0 <= Len(chunked)
    <3>1. PICK w \in 0 .. Len(BodyOf(chunks)) : chunked = SubSeq(BodyOf(chunks), 1, w)
      BY <1>4
    <3>2. Len(chunked) = w
      <4>1. BodyOf(chunks) \in Seq(Nat)
        <5>1. Flat(Texts(chunks), n) \in Seq(Nat)
          <6>1. n \in 0 .. n /\ \A k \in 1 .. n : Texts(chunks)[k] \in Seq(Nat)
            BY <1>2, TextsAre
          <6> QED
            BY <1>2, <6>1, FlatType
        <5> QED
          BY <1>2, <5>1, LastIs DEF BodyOf
      <4> QED
        BY <3>1, <4>1, FrontOf
    <3> QED
      BY <3>2
  <2> QED
    BY <1>5, <2>1, <2>2 DEF Decoded
<1>7. done \in BOOLEAN /\ wild \in BOOLEAN /\ 0 \in 0 .. Len(chunks)
  <2>1. 0 \in 0 .. Len(chunks)
    BY <1>2
  <2> QED
    BY ONLY <1>5, <2>1, Zenon
<1> QED
  BY <1>2, <1>4, <1>6, <1>7, Zenon DEF BodyInv

(* What the decoder does with a chunk of which all came.                         *)
LEMMA ChunkWhole ==
  ASSUME NEW c \in Chunk, NEW s, Fronts(s, c), Len(Body!Sent(c)) <= Len(s)
  PROVE  /\ Body!esp_strtol(s, 16) \in Nat \ {0} /\ Body!HasLine(s)
         /\ Body!ChunkLength(s) = Len(Body!Sent(c)) /\ Body!ChunkData(s) = c.data
<1> DEFINE m == SizeLen(c)  l == LineLen(c)  n == Len(c.data)
<1>1. /\ m \in 1 .. 2 /\ l \in Nat /\ l = m + Len(c.note) /\ Len(c.note) \in Nat /\ n \in 1 .. 255
      /\ Len(s) \in Nat /\ Len(Body!Sent(c)) = l + 2 + n + 2
  BY FrontIs
<1> HIDE DEF m, l, n
<1>2. m <= Len(s) /\ l + 2 <= Len(s)
  BY <1>1
<1>3. Body!esp_strtol(s, 16) = n
  BY <1>2, ReadsSize DEF m, n
<1>4. Body!HasLine(s) /\ Body!LineLength(s) = l
  BY <1>2, ReadsLine DEF l
<1>5. Body!ChunkLength(s) = l + 2 + n + 2
  BY <1>3, <1>4 DEF Body!ChunkLength
<1>6. Body!ChunkData(s) = SubSeq(s, l + 2 + 1, l + 2 + n)
  <2>1. l + 3 = l + 2 + 1
    BY <1>1
  <2> QED
    BY <1>3, <1>4, <2>1 DEF Body!ChunkData
<1>7. SubSeq(s, l + 2 + 1, l + 2 + n) = c.data
  BY ReadsData DEF l, n
<1>8. n \in Nat \ {0}
  BY <1>1
<1> QED
  BY ONLY <1>1, <1>3, <1>4, <1>5, <1>6, <1>7, <1>8, Zenon

(* And with one of which a piece came.                                           *)
LEMMA ChunkCut ==
  ASSUME NEW c \in Chunk, NEW s, Fronts(s, c), Len(s) > 0, Len(s) < Len(Body!Sent(c))
  PROVE  /\ Body!esp_strtol(s, 16) \in Nat \ {0}
         /\ ~(Body!HasLine(s) /\ Body!ChunkLength(s) <= Len(s))
<1> DEFINE m == SizeLen(c)  l == LineLen(c)  n == Len(c.data)  z == Len(Body!Sent(c))
<1>1. /\ m \in 1 .. 2 /\ l \in Nat /\ l = m + Len(c.note) /\ Len(c.note) \in Nat /\ n \in 1 .. 255
      /\ Len(s) \in Nat /\ z = l + 2 + n + 2 /\ Len(s) > 0 /\ Len(s) < z
  BY FrontIs
<1>2. Body!HasLine(s) <=> l + 2 <= Len(s)
  BY ReadsLine
<1>3. Body!HasLine(s) => Body!LineLength(s) = l
  BY ReadsLine
<1>4. m <= Len(s) => Body!esp_strtol(s, 16) = n
  BY ReadsSize
<1>5. ~(m <= Len(s)) => Body!esp_strtol(s, 16) \in Nat \ {0}
  <2>1. ~(m <= Len(s)) => Len(s) < m
    BY <1>1
  <2> QED
    BY <1>1, <2>1, ReadsDigit
<1> HIDE DEF m, l, n, z
<1>6. Body!esp_strtol(s, 16) \in Nat \ {0}
  <2>1. n \in Nat \ {0}
    BY <1>1
  <2> QED
    BY ONLY <1>4, <1>5, <2>1, Zenon
<1>7. ASSUME Body!HasLine(s) PROVE Body!ChunkLength(s) = z
  <2>1. Body!LineLength(s) = l /\ l + 2 <= Len(s)
    BY <1>2, <1>3, <1>7
  <2>2. m <= Len(s)
    BY <1>1, <2>1
  <2> QED
    BY <1>1, <1>4, <2>1, <2>2 DEF Body!ChunkLength
<1>8. ~(z <= Len(s))
  BY <1>1
<1> QED
  BY <1>6, <1>7, <1>8

LEMMA DecodeKeeps == BodyInv /\ Body!DecodeChunk => BodyInv'
<1> SUFFICES ASSUME BodyInv, Body!DecodeChunk PROVE BodyInv'
  OBVIOUS
<1> DEFINE n == Len(chunks)
           rest == SubSeq(chunked, j + 1, Len(chunked))
           size == Body!esp_strtol(rest, 16)
           whole == Body!HasLine(rest) /\ Body!ChunkLength(rest) <= Len(rest)
<1>1. chunks \in Seq(Chunk) /\ n \in Nat /\ done \in BOOLEAN /\ wild \in BOOLEAN
  BY DEF BodyInv
<1>2. PICK w \in 0 .. Len(BodyOf(chunks)) : chunked = SubSeq(BodyOf(chunks), 1, w)
  BY DEF BodyInv
<1>3. PICK k \in 0 .. n : Decoded(k)
  BY DEF BodyInv
<1>4. /\ ~done /\ UNCHANGED <<chunks, chunked>>
      /\ \/ size <= 0 /\ done' = TRUE /\ UNCHANGED <<j, decode, wild>>
         \/ /\ size > 0 /\ whole
            /\ j' = j + Body!ChunkLength(rest)
            /\ decode' = decode \o Body!ChunkData(rest)
            /\ UNCHANGED <<done, wild>>
         \/ /\ size > 0 /\ ~whole /\ done' = TRUE /\ wild' = TRUE
            /\ UNCHANGED <<j, decode>>
  BY DEF Body!DecodeChunk
<1>5. ~wild /\ j = Len(Flat(Texts(chunks), k)) /\ j <= Len(chunked)
      /\ decode = Flat(Datas(chunks), k)
  BY <1>3, <1>4 DEF Decoded
<1>6. /\ j \in Nat /\ Len(chunked) \in Nat /\ rest \in Seq(Nat) /\ Len(rest) = Len(chunked) - j
      /\ k # n => Fronts(rest, chunks[k + 1])
      /\ k = n => (Len(rest) > 0 => rest[1] = 48) /\ (Len(rest) > 1 => rest[2] = 13)
  <2>1. RestRight(chunks, k, SubSeq(BodyOf(chunks), 1, w))
    BY <1>1, <1>2, <1>3, <1>5, RestIs
  <2>2. RestRight(chunks, k, chunked)
    BY <1>2, <2>1, Zenon
  <2> HIDE DEF n
  <2> QED
    BY <1>5, <2>2 DEF RestRight, n
<1> HIDE DEF n, rest, size, whole
<1>7. k # n => k \in 0 .. n - 1 /\ k + 1 \in 1 .. n /\ k + 1 \in 0 .. n /\ chunks[k + 1] \in Chunk
              /\ k < n
  <2>1. k # n => k \in 0 .. n - 1 /\ k + 1 \in 1 .. n /\ k + 1 \in 0 .. n /\ k < n
    BY <1>1
  <2> QED
    BY <1>1, <2>1 DEF n
<1> DEFINE c == chunks[k + 1]  z == Len(Body!Sent(c))
<1>8. ASSUME k # n
      PROVE  /\ z \in Nat /\ z > 0
             /\ Len(Flat(Texts(chunks), k + 1)) = j + z
             /\ Flat(Datas(chunks), k + 1) = decode \o c.data
  <2>1. c \in Chunk /\ k + 1 \in 1 .. n
    BY <1>7, <1>8
  <2>2. z \in Nat /\ z > 0
    <3>1. LineLen(c) \in Nat /\ Len(c.data) \in 1 .. 255 /\ z = LineLen(c) + 2 + Len(c.data) + 2
      BY <2>1, SentIs
    <3>2. \A a \in Nat, b \in 1 .. 255 : a + 2 + b + 2 \in Nat /\ a + 2 + b + 2 > 0
      OBVIOUS
    <3> QED
      BY ONLY <3>1, <3>2, Zenon
  <2>3. /\ \A i \in 1 .. n : Texts(chunks)[i] \in Seq(Nat) /\ Datas(chunks)[i] \in Seq(Nat)
        /\ Texts(chunks)[k + 1] = Body!Sent(c) /\ Datas(chunks)[k + 1] = c.data
    BY <1>1, <2>1, TextsAre DEF n
  <2>4. Stands(Texts(chunks), n, k, j, Body!Sent(c))
    <3>1. Stands(Texts(chunks), n, k, Len(Flat(Texts(chunks), k)), Texts(chunks)[k + 1])
      BY <1>1, <1>7, <1>8, <2>3, FlatHolds, Zenon
    <3> QED
      BY <1>5, <2>3, <3>1, Zenon
  <2>5. Stands(Datas(chunks), n, k, Len(decode), c.data)
    <3>1. Stands(Datas(chunks), n, k, Len(Flat(Datas(chunks), k)), Datas(chunks)[k + 1])
      BY <1>1, <1>7, <1>8, <2>3, FlatHolds, Zenon
    <3> QED
      BY <1>5, <2>3, <3>1, Zenon
  <2>6. Len(Flat(Texts(chunks), k + 1)) = j + z
    BY <2>4, Zenon DEF Stands
  <2>7. Flat(Datas(chunks), k + 1) = decode \o c.data
    BY <1>5, <2>5, Zenon DEF Stands
  <2> QED
    BY <2>2, <2>6, <2>7
<1> HIDE DEF z
<1>9. ASSUME Decoded(k)' PROVE BodyInv'
  <2>1. k \in 0 .. Len(chunks')
    BY <1>4 DEF n
  <2>2. done' \in BOOLEAN /\ wild' \in BOOLEAN
    BY <1>1, <1>4
  <2> QED
    BY <1>1, <1>2, <1>4, <1>9, <2>1, <2>2 DEF BodyInv
<1>10. CASE k = n \/ Len(rest) = 0
  <2>1. size = 0
    <3>1. CASE Len(rest) = 0
      <4>1. rest = <<>>
        BY <1>6, <3>1, EmptySeq
      <4> QED
        BY <4>1, NothingIs DEF size
    <3>2. CASE k = n /\ Len(rest) # 0
      <4>1. Len(rest) > 0
        BY <1>6, <3>2
      <4> QED
        BY <1>6, <3>2, <4>1, ReadsLast DEF size
    <3> QED
      BY <1>10, <3>1, <3>2
  <2>2. done' = TRUE /\ UNCHANGED <<j, decode, wild>>
    BY <1>4, <2>1
  <2>3. k # n => j = Len(chunked) /\ Len(Flat(Texts(chunks), k + 1)) > Len(chunked)
    BY <1>6, <1>8, <1>10
  <2>4. k = n \/ ~(j < Len(chunked))
    BY <1>6, <2>3
  <2>5. ~(n < n)
    BY <1>1
  <2>6. Decoded(k)'
    BY <1>3, <1>4, <1>5, <2>2, <2>3, <2>4, <2>5 DEF Decoded, n
  <2> QED
    BY <1>9, <2>6
<1>11. CASE k # n /\ Len(rest) # 0 /\ Len(rest) < z
  <2>1. Len(rest) > 0 /\ Fronts(rest, c) /\ c \in Chunk
    BY <1>6, <1>7, <1>11
  <2>2. size \in Nat \ {0} /\ ~whole
    BY <1>11, <2>1, ChunkCut DEF size, whole, z
  <2>3. ~(size <= 0)
    BY <2>2
  <2>4. done' = TRUE /\ wild' = TRUE /\ UNCHANGED <<j, decode>>
    BY <1>4, <2>2, <2>3
  <2>5. j < Len(chunked) /\ Len(Flat(Texts(chunks), k + 1)) > Len(chunked) /\ k < n
    BY <1>6, <1>7, <1>8, <1>11
  <2>6. Decoded(k)'
    BY <1>3, <1>4, <1>5, <2>4, <2>5 DEF Decoded, n
  <2> QED
    BY <1>9, <2>6
<1>12. CASE k # n /\ ~(Len(rest) < z)
  <2>1. z <= Len(rest) /\ Fronts(rest, c) /\ c \in Chunk
    BY <1>6, <1>7, <1>8, <1>12
  <2>2. size \in Nat \ {0} /\ whole /\ Body!ChunkLength(rest) = z /\ Body!ChunkData(rest) = c.data
    BY <2>1, ChunkWhole DEF size, whole, z
  <2>3. ~(size <= 0)
    BY <2>2
  <2>4. j' = j + z /\ decode' = decode \o c.data /\ UNCHANGED <<done, wild>>
    BY <1>4, <2>2, <2>3
  <2>5. j + z <= Len(chunked)
    BY <1>6, <1>8, <1>12, <2>1
  <2>6. Decoded(k + 1)'
    BY <1>4, <1>5, <1>8, <1>12, <2>4, <2>5 DEF Decoded
  <2>7. k + 1 \in 0 .. Len(chunks')
    BY <1>4, <1>7, <1>12 DEF n
  <2>8. done' \in BOOLEAN /\ wild' \in BOOLEAN
    BY <1>1, <2>4
  <2> QED
    BY <1>1, <1>2, <1>4, <2>6, <2>7, <2>8 DEF BodyInv
<1> QED
  BY <1>10, <1>11, <1>12

LEMMA InvDecodes == BodyInv => Body!DecodesBody
<1> SUFFICES ASSUME BodyInv PROVE Body!DecodesBody
  OBVIOUS
<1>1. chunks \in Seq(Chunk) /\ Len(chunks) \in Nat
  BY DEF BodyInv
<1>2. PICK k \in 0 .. Len(chunks) : Decoded(k)
  BY DEF BodyInv
<1>3. /\ Body!DataOf(k) = Flat(Datas(chunks), k)
      /\ Body!TextOf(k) = Flat(Texts(chunks), k)
  BY <1>1, TextIs
<1>4. k # Len(chunks) => Body!TextOf(k + 1) = Flat(Texts(chunks), k + 1)
  <2>1. k # Len(chunks) => k + 1 \in 0 .. Len(chunks)
    BY <1>1
  <2> QED
    BY <1>1, <2>1, TextIs
<1>5. /\ decode = Body!DataOf(k)
      /\ Len(Body!TextOf(k)) <= Len(chunked)
  BY <1>2, <1>3, Zenon DEF Decoded
<1>6. done => /\ k = Len(chunks) \/ Len(Body!TextOf(k + 1)) > Len(chunked)
              /\ wild <=> k < Len(chunks) /\ Len(Body!TextOf(k)) < Len(chunked)
  BY <1>2, <1>3, <1>4, Zenon DEF Decoded
<1> QED
  BY <1>5, <1>6, Zenon DEF Body!DecodesBody

(* Beside the decoder, the variables of the one that does not run stand still.   *)
ToldInv ==
  /\ which \in {"sensor", "client", "body"}
  /\ which = "body" => BodyInv
  /\ which # "body" => chunks = <<>> /\ chunked = <<>> /\ decode = <<>> /\ done = FALSE

LEMMA NothingDecodes ==
  ASSUME chunks = <<>>, chunked = <<>>, decode = <<>>, done = FALSE
  PROVE  Body!DecodesBody
<1>1. chunks \in Seq(Chunk) /\ Len(chunks) = 0 /\ Len(chunked) = 0 /\ 0 \in 0 .. Len(chunks)
  BY EmptySeq
<1>2. Body!DataOf(0) = <<>> /\ Body!TextOf(0) = <<>>
  BY <1>1, TextIs, FlatNone
<1>3. decode = Body!DataOf(0) /\ Len(Body!TextOf(0)) <= Len(chunked)
  BY <1>1, <1>2
<1> QED
  BY <1>1, <1>3 DEF Body!DecodesBody

(* A user of the HTTP client is called once, and never with an answer of which   *)
(* the client dropped a packet; and of a body in chunks that ends anywhere, the  *)
(* user gets the chunks that came whole and no other byte, and the decoder leaves*)
(* its buffers if and only if the body ends in the middle of a chunk: for any    *)
(* requests and packets, any number of chunks of one to 255 bytes of any kind,   *)
(* sizes in large or small letters, and whatever stands behind a size.           *)
THEOREM AnswersStayTold == MCSpec => []AnswerIsTold
<1>1. MCInit => EInv /\ ToldInv
  BY HttpInitRight, BodyInit DEF MCInit, Init, NoSensor, NoBody, ToldInv
<1>2. EInv /\ ToldInv /\ [MCNext]_<<which, vars, bodyVars>> => EInv' /\ ToldInv'
  <2> SUFFICES ASSUME EInv, ToldInv, [MCNext]_<<which, vars, bodyVars>> PROVE EInv' /\ ToldInv'
    OBVIOUS
  <2>1. EInv'
    BY MCStep
  <2>2. UNCHANGED which
    BY DEF MCNext
  <2>3. CASE UNCHANGED bodyVars
    <3>1. UNCHANGED <<chunks, chunked, j, decode, done, wild>>
      BY <2>3 DEF bodyVars
    <3>2. BodyInv => BodyInv'
      BY <3>1 DEF BodyInv, Decoded
    <3> QED
      BY <2>1, <2>2, <3>1, <3>2 DEF ToldInv
  <2>4. CASE which = "body" /\ Body!DecodeChunk
    BY <2>1, <2>2, <2>4, DecodeKeeps DEF ToldInv
  <2> QED
    BY <2>3, <2>4 DEF MCNext, Body!Next
<1>3. EInv /\ ToldInv => AnswerIsTold
  <2> SUFFICES ASSUME EInv, ToldInv PROVE Body!DecodesBody
    BY InvUncut DEF AnswerIsTold
  <2>1. CASE which = "body"
    BY <2>1, InvDecodes DEF ToldInv
  <2>2. CASE which # "body"
    BY <2>2, NothingDecodes DEF ToldInv
  <2> QED
    BY <2>1, <2>2 DEF ToldInv
<1> QED
  BY <1>1, <1>2, <1>3, PTL DEF MCSpec
==============================================================================
