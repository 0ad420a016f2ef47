------------------------------ MODULE HttpClient ------------------------------
(* The HTTP client of the ESP8266 sensor (lib/httpclient/httpclient.c): what     *)
(* each of its callbacks does to a request, and in which order the network stack *)
(* of the SDK (espconn, outside the repository) may call them.  A request is     *)
(* what the client keeps of it in memory: the blocks it owns, the state of the   *)
(* buffer with the answer, and the calls it made to its user.  Callbacks do not  *)
(* interrupt one another.  Memory may run out where the code looks: for the      *)
(* copies of the strings (esp_strdup) and for a buffer that grows.  What C leaves*)
(* undefined (a NULL string that is read, a body decoded past its end) takes the *)
(* chip down or goes on.                                                         *)
EXTENDS Naturals

CONSTANTS Requests,     \* the requests that may exist at the same time
          MaxBuffer,    \* BUFFER_SIZE_MAX, in the units of MaxPacket
          MaxPacket,    \* bound: the size of a packet of an answer
          MaxPackets    \* bound: the packets of an answer

ASSUME BufferAssumption == /\ MaxBuffer \in Nat \ {0} /\ MaxPacket \in Nat
                           /\ MaxPackets \in Nat

VARIABLE req

Strings == {"hostname", "path", "headers", "post"}
Blocks == Strings \cup {"req", "buffer", "conn", "tcp"}

(* head: what the buffer holds.  "empty": its first byte is the end of string;   *)
(* "odd": it does not begin with "HTTP/1.1 "; "partial": the header is not whole;*)
(* "complete": the header is, the body not; "whole": all of the answer.          *)
(* copied, reached: for the properties, the strings that were copied, and how far *)
(* the request came.                                                             *)
Idle == [phase |-> "idle", ptr |-> [b \in Blocks |-> "null"], size |-> 0,
         head |-> "empty", packets |-> 0, cut |-> FALSE,
         unsent |-> 0, calls |-> 0, status |-> "none", bad |-> FALSE,
         copied |-> {}, reached |-> "nothing"]

------------------------------------------------------------------------------
(* Memory: what is used must be allocated, what is freed must not be freed yet.  *)

Use(q, B) == [q EXCEPT !.bad = @ \/ \E b \in B : q.ptr[b] # "live"]

Alloc(q, B) == [q EXCEPT !.ptr = [b \in Blocks |-> IF b \in B THEN "live" ELSE @[b]]]

Free(q, B) ==
    [q EXCEPT !.bad = @ \/ \E b \in B : q.ptr[b] = "freed",
              !.ptr = [b \in Blocks |-> IF b \in B /\ @[b] = "live" THEN "freed" ELSE @[b]]]

(* os_free(p); p = NULL                                                          *)
FreeAndForget(q, b) == [Free(q, {b}) EXCEPT !.ptr[b] = "null"]

CallUser(q, status) == [q EXCEPT !.calls = @ + 1, !.status = status]

(* An exception of the processor: the chip starts anew.                          *)
Crash(q) == [q EXCEPT !.phase = "crashed"]

------------------------------------------------------------------------------
(* What the callbacks make of a request.                                         *)

(* The strings and the buffer of a request whose name is not found stay          *)
(* allocated.                                                                    *)
DnsFailed(q) ==
    [Free(CallUser(Use(q, {"req"}), "error"), {"req"})
       EXCEPT !.phase = "over"]

DnsFound(q) == [Use(Alloc(q, {"conn", "tcp"}), {"req"})
                  EXCEPT !.phase = "connecting", !.reached = "name"]

(* Data that were not copied make the request a GET; of the other strings the    *)
(* length is taken, whether they were copied or not.                             *)
connect_callback(q) ==
    LET null == {b \in Strings : q.ptr[b] = "null"}
        used == {"conn", "req"} \cup (Strings \ null)
        went == [FreeAndForget(Use(q, used), "headers")
                   EXCEPT !.phase = "open", !.unsent = 1, !.reached = "server"]
    IN  {went} \cup IF null \subseteq {"post"} THEN {} ELSE {Crash(q)}

(* The header was sent, and then the data.                                       *)
sent_callback(q) ==
    IF q.ptr["post"] = "null"
    THEN [Use(q, {"conn", "req"}) EXCEPT !.unsent = 0, !.reached = "body"]
    ELSE [FreeAndForget(Use(q, {"conn", "req", "post"}), "post") EXCEPT !.reached = "body"]

(* What is at the start of the buffer after a packet is appended.                *)
Appended(q) ==
    CASE q.size > 1 /\ q.head = "empty" -> {"empty"}
      [] q.size = 1 /\ q.cut            -> {"odd"}
      [] q.size = 1 /\ ~q.cut           -> {"odd", "partial", "complete", "whole"}
      [] q.head = "partial"             -> {"partial", "complete", "whole"}
      [] q.head = "complete"            -> {"complete", "whole"}
      [] OTHER                          -> {q.head}

receive_callback_keep(q, n) ==
    LET u == [Use(q, {"conn", "req", "buffer"}) EXCEPT !.packets = @ + 1]
        grown == {[u EXCEPT !.size = @ + n, !.head = h] : h \in Appended(q)}
        dropped == {[u EXCEPT !.cut = TRUE, !.phase = "closing"]}
    IN  IF q.size + n > MaxBuffer THEN dropped ELSE grown \cup dropped

(* A packet of n bytes: the buffer grows, or (the limit, no memory) is emptied   *)
(* and the connection closed.                                                    *)
receive_callback(q, n) ==
    LET u == [Use(q, {"conn", "req", "buffer"}) EXCEPT !.packets = @ + 1]
        grown == {[u EXCEPT !.size = @ + n, !.head = h] : h \in Appended(q)}
        dropped == {[u EXCEPT !.head = "empty", !.cut = TRUE, !.phase = "closing"]}
    IN  IF q.size + n > MaxBuffer THEN dropped ELSE grown \cup dropped

(* A header that is not whole has no empty line, of which the code takes the     *)
(* body to be the rest: the user gets a pointer to no string.  A body that is not*)
(* whole is given to the user as the answer, with the status of its header.      *)
StatusOf(q) == CASE q.head \in {"empty", "odd"} -> "error"
                 [] q.head = "partial"          -> "wild"
                 [] q.head = "complete"         -> "part"
                 [] q.head = "whole"            -> "answer"

disconnect_callback_early(q) ==
    LET freed == Free(Use(q, {"conn"}), {"tcp", "buffer", "hostname", "path", "conn"})
        told == CallUser(Use(freed, {"req", "buffer"}), StatusOf(q))
    IN  {[Free(told, {"req"}) EXCEPT !.phase = "over", !.unsent = 0]}

(* The decoder of a chunked body that is cut leaves the memory of the buffer     *)
(* (ChunkedBody), and so does a pointer to no string.                            *)
disconnect_callback(q) ==
    LET told == CallUser(Use(Free(Use(q, {"conn"}), {"tcp"}), {"req", "buffer"}),
                         StatusOf(q))
        over == [Free(told, {"buffer", "hostname", "path", "req", "conn"})
                   EXCEPT !.phase = "over", !.unsent = 0]
    IN  {over} \cup IF StatusOf(q) \in {"wild", "part"} THEN {Crash(q)} ELSE {}

error_callback(q) == disconnect_callback(q)

------------------------------------------------------------------------------
(* The calls of the user and of the network stack.                               *)

(* esp_strdup copies a string, or has no memory for it; a GET has no data.       *)
NewRequest(copied) ==
    [Alloc(Idle, {"req", "buffer"} \cup copied)
       EXCEPT !.phase = "dns", !.size = 1, !.copied = copied]

(* The name may be known, refused, or asked for.  post: there is data to post.   *)
http_raw_request(r, post) ==
    /\ req[r].phase \in {"idle", "over"}
    /\ \E copied \in SUBSET (IF post THEN Strings ELSE Strings \ {"post"}) :
          LET new == NewRequest(copied)
          IN  \E q \in {new, DnsFound(new), DnsFailed(new)} :
                 req' = [req EXCEPT ![r] = q]

(* An URL that is not HTTP, or has no port number, is only printed.              *)
http_post(r, url, post) == IF url = "http" THEN http_raw_request(r, post)
                                           ELSE UNCHANGED req

http_get(r, url) == http_post(r, url, FALSE)

NameIsFound(r) ==
    req[r].phase = "dns" /\ req' = [req EXCEPT ![r] = DnsFound(@)]

NameIsNotFound(r) ==
    req[r].phase = "dns" /\ req' = [req EXCEPT ![r] = DnsFailed(@)]

Connects(r) ==
    /\ req[r].phase = "connecting"
    /\ \E q \in connect_callback(req[r]) : req' = [req EXCEPT ![r] = q]

Sent(r) ==
    /\ req[r].phase \in {"open", "closing"}
    /\ req[r].unsent > 0
    /\ req' = [req EXCEPT ![r] = sent_callback(@)]

Receives(r) ==
    /\ req[r].phase \in {"open", "closing"}
    /\ req[r].packets < MaxPackets
    /\ \E n \in 1..MaxPacket : \E q \in receive_callback(req[r], n) :
          req' = [req EXCEPT ![r] = q]

(* The server, or the client's espconn_disconnect, closes the connection.        *)
Closes(r) ==
    /\ req[r].phase \in {"open", "closing"}
    /\ \E q \in disconnect_callback(req[r]) : req' = [req EXCEPT ![r] = q]

(* No connection, or one that breaks.                                            *)
Breaks(r) ==
    /\ req[r].phase \in {"connecting", "open", "closing"}
    /\ \E q \in error_callback(req[r]) : req' = [req EXCEPT ![r] = q]

Crashed == \E r \in Requests : req[r].phase = "crashed"

------------------------------------------------------------------------------
(* The client for a user of its own, who asks for anything at any time.          *)

HttpInit == req = [r \in Requests |-> Idle]

Restarts == Crashed /\ req' = [r \in Requests |-> Idle]

HttpNext ==
    \/ /\ ~Crashed
       /\ \E r \in Requests :
             \/ \E url \in {"http", "ftp"} : http_get(r, url) \/ http_post(r, url, TRUE)
             \/ NameIsFound(r) \/ NameIsNotFound(r) \/ Connects(r) \/ Sent(r)
             \/ Receives(r) \/ Closes(r) \/ Breaks(r)
    \/ Restarts

------------------------------------------------------------------------------
HttpTypeOK ==
    req \in [Requests ->
        [phase : {"idle", "dns", "connecting", "open", "closing", "over", "crashed"},
         ptr : [Blocks -> {"null", "live", "freed"}],
         size : 0..MaxBuffer, head : {"empty", "odd", "partial", "complete", "whole"},
         packets : 0..MaxPackets, cut : BOOLEAN, unsent : 0..1,
         calls : Nat, status : {"none", "error", "answer", "part", "wild"}, bad : BOOLEAN,
         copied : SUBSET Strings, reached : {"nothing", "name", "server", "body"}]]

(* Whatever callbacks come in whatever order, none of them touches memory that   *)
(* is freed, and nothing is freed twice: disconnect_callback frees the request   *)
(* and the connection the others are given.                                      *)
NoUseAfterFree == \A r \in Requests : ~req[r].bad

(* Blocks that nobody frees any more: by how far the request came.               *)
LeftOf(reached) ==
    CASE reached = "nothing" -> Strings \cup {"buffer"}
      [] reached = "name"    -> {"headers", "post"}
      [] reached = "server"  -> {"post"}
      [] reached = "body"    -> {}

(* What the end of a request leaves in memory, for good: all its strings and its *)
(* buffer when the name is not found (dns_callback frees the request only), the  *)
(* header and the data when there is no connection, the data when they were not  *)
(* sent; and nothing when they were.                                             *)
LeavesBehind ==
    \A r \in Requests : req[r].phase = "over" =>
        {b \in Blocks : req[r].ptr[b] = "live"}
          = LeftOf(req[r].reached) \cap (req[r].copied \cup {"buffer"})

(* The chip goes down only when a string was not copied or the answer was cut    *)
(* in the middle: no order of callbacks does it alone.                           *)
CrashHasCause ==
    \A r \in Requests : req[r].phase = "crashed" =>
        \/ ~({"hostname", "path", "headers"} \subseteq req[r].copied)
        \/ req[r].head \in {"partial", "complete"}

MemoryIsRight == HttpTypeOK /\ NoUseAfterFree /\ LeavesBehind /\ CrashHasCause

(* A request ends in one call of its user, never two, on each of the ways a      *)
(* request can end: dns_callback and disconnect_callback are the only callers.   *)
OneCallback ==
    \A r \in Requests : /\ req[r].calls <= 1
                        /\ (req[r].calls = 1) <=> (req[r].phase = "over")

(* An answer of which a packet was dropped is never given to the user as one,    *)
(* not even when later packets fit again: receive_callback empties the string    *)
(* it keeps.                                                                     *)
CutIsError == \A r \in Requests : req[r].cut => req[r].status \in {"none", "error"}

(* The user of a request is called once, and never with an answer of which the   *)
(* client dropped a packet.  (One the server did not finish, it may be given.)   *)
AnswerIsUncut == OneCallback /\ CutIsError
==============================================================================
