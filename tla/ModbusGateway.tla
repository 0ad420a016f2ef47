--------------------------- MODULE ModbusGateway ---------------------------
(* modbusd's main(): the start of the process and the loop that serves one *)
(* TCP client at a time, each request by one call of ModbusRtu or, for the *)
(* coils of a bought board (option -a), from the copy kept in servers[].   *)
EXTENDS ModbusRtu

CONSTANTS
  FixServers,   (* Addresses given by -a, in their order.                  *)
  TcpRequests,  (* Requests TCP clients make.                              *)
  Starts        (* Where main() goes after its options: as committed into   *)
                (* the endless test loop, "bench"; without it, "init"; with *)
                (* the option -wr to its one call, "oneshot".              *)

ON == 65280     (* 0xFF00, the state a client sends to switch a coil on.   *)

MAX_SERVERS_COUNT == 8

ASSUME FixAssumption ==
  FixServers \in Seq(Addr) /\ Len(FixServers) <= MAX_SERVERS_COUNT
(* The shift by a coil of 32 and more is undefined and left out.            *)
ASSUME RequestAssumption ==
  /\ TcpRequests \subseteq Request
  /\ \A q \in TcpRequests : q.reg < 32 /\ q.data < 65536
                           /\ (q.func \in {READ_COILS, READ_INPUTS} => q.data < 24)
ASSUME StartsAssumption == Starts \subseteq {"bench", "init", "oneshot"}

VARIABLES
  gpc,      (* "bench", "oneshot", "oneshot_wait", "init", "init_wait",    *)
            (* "accept", "recv" or "rtu"; then "exit0", "exit1" or, by a   *)
            (* signal, "killed".                                           *)
  next,     (* Index of the server whose coils are read at the start; in   *)
            (* the test loop, 1 for the write of on and 2 for that of off. *)
  conn,     (* The client: "none", "open", "closed" by the client,         *)
            (* "replied" to after that, then "reset" by its kernel.        *)
  req,      (* The request being served, or the last one.                  *)
  rsp,      (* The last reply: ok is the bit 0x80 of the function left 0.  *)
  cache,    (* coils_state of each server.                                 *)
  doubt     (* History: <<server, coil>> whose last write failed.          *)

gvars == <<gpc, next, conn, req, rsp, cache, doubt>>
allvars == <<vars, gvars>>

Servers == 1..Len(FixServers)

(* find_modbus_server: the first entry with the address, if any. *)
IsFix(a) == \E i \in Servers : FixServers[i] = a
ServerOf(a) == CHOOSE i \in Servers :
                 FixServers[i] = a /\ \A j \in 1..i - 1 : FixServers[j] # a

Call(op, addr, reg, arg) == [op |-> op, addr |-> addr, reg |-> reg, arg |-> arg]

GInit ==
  /\ Init
  /\ gpc \in Starts
  /\ next = 1
  /\ conn = "none"
  /\ req = [addr |-> 0, func |-> 0, reg |-> 0, data |-> 0]
  /\ rsp = [ok |-> FALSE, coils |-> {}]
  /\ cache = [i \in Servers |-> {}]
  /\ doubt = {}

(* The test loop in front of everything else. *)
BenchWrite ==
  /\ gpc = "bench"
  /\ Begin(Call("write_coil", 3, 0, IF next = 1 THEN 255 ELSE 0))
  /\ next' = 3 - next
  /\ UNCHANGED <<gpc, conn, req, rsp, cache, doubt>>

(* The initial coils of each bought board, asked for until they are there;  *)
(* a failed call leaves what it read so far in the copy.                    *)
InitRead ==
  /\ gpc = "init"
  /\ next \in Servers
  /\ Begin(Call("read_coils_fix", FixServers[next], 0, 8))
  /\ gpc' = "init_wait"
  /\ UNCHANGED <<next, conn, req, rsp, cache, doubt>>

InitDone_again ==
  /\ gpc = "init_wait"
  /\ mpc = "idle"
  /\ cache' = [cache EXCEPT ![next] = res.coils]
  /\ gpc' = "init"
  /\ UNCHANGED <<next, conn, req, rsp, doubt, vars>>
InitDone ==
  /\ gpc = "init_wait"
  /\ mpc = "idle"
  /\ cache' = [cache EXCEPT ![next] = res.coils]
  /\ next' = IF res.ok THEN next + 1 ELSE next
  /\ gpc' = "init"
  /\ UNCHANGED <<conn, req, rsp, doubt, vars>>

(* Option -wr: one register is written and the process ends, with an exit   *)
(* code that tells whether the board has answered.                          *)
OneShot ==
  /\ gpc = "oneshot"
  /\ Begin(Call("write_register", 3, 0, 1))
  /\ gpc' = "oneshot_wait"
  /\ UNCHANGED <<next, conn, req, rsp, cache, doubt>>

OneShotDone ==
  /\ gpc = "oneshot_wait"
  /\ mpc = "idle"
  /\ gpc' = IF res.ok THEN "exit0" ELSE "exit1"
  /\ UNCHANGED <<next, conn, req, rsp, cache, doubt, vars>>

(* tcp_socket_create: socket(), bind() or listen() may fail. *)
Listen ==
  /\ gpc = "init"
  /\ next \notin Servers
  /\ gpc' \in {"accept", "exit1"}
  /\ UNCHANGED <<next, conn, req, rsp, cache, doubt, vars>>

Accept ==
  /\ gpc = "accept"
  /\ gpc' = "recv"
  /\ conn' = "open"
  /\ UNCHANGED <<next, req, rsp, cache, doubt, vars>>

(* select(), accept() or setsockopt() fails: the same is tried again, with  *)
(* a client that was accepted never looked at again.                        *)
AcceptFails ==
  /\ gpc = "accept"
  /\ UNCHANGED allvars

(* recv() returns 0, or fails, which it does on a connection that was reset *)
(* and may do on any: the socket is closed, the next client waited for.     *)
RecvClosed ==
  /\ gpc = "recv"
  /\ conn' = "none"
  /\ gpc' = "accept"
  /\ UNCHANGED <<next, req, rsp, cache, doubt, vars>>

(* What a client sent before it closed is still received after that. *)
Receives(q) ==
  /\ gpc = "recv"
  /\ conn \in {"open", "closed", "replied"}
  /\ req' = q
  /\ UNCHANGED next

(* send(): the first reply to a client that has closed makes its kernel     *)
(* reset the connection; one more raises SIGPIPE, for which the process has *)
(* no handler.                                                              *)
Send ==
  /\ conn' = IF conn = "closed" THEN "replied" ELSE conn
  /\ gpc' = IF conn = "reset" THEN "killed" ELSE "recv"

(* The payload of a reply: one byte of the state, or the high byte first.   *)
PayloadOf_inorder(state, count) == state \cap 0..(8 * (count \div 8)) - 1
PayloadOf(state, count) == CASE count \div 8 = 0 -> {}
                             [] count \div 8 = 1 -> state \cap 0..7
                             [] OTHER -> HighFirst(state \cap 0..15)

(* A read of the coils of a bought board is answered from the copy.         *)
RecvCached(q) ==
  /\ q.func = READ_COILS /\ IsFix(q.addr)
  /\ Receives(q)
  /\ rsp' = [ok |-> TRUE,
             coils |-> PayloadOf(cache[ServerOf(q.addr)], q.data)]
  /\ Send
  /\ UNCHANGED <<cache, doubt, vars>>

RecvReadCoils(q) ==
  /\ q.func = READ_COILS /\ ~IsFix(q.addr)
  /\ Receives(q)
  /\ Begin(Call("read_coils", q.addr, q.reg, q.data))
  /\ gpc' = "rtu"
  /\ UNCHANGED <<conn, rsp, cache, doubt>>

(* A bought board gets 0x100 for on and counts its coils from 1. *)
WriteCall_from0(q) ==
  IF IsFix(q.addr)
  THEN Call("write_coil", q.addr, q.reg, IF q.data = ON THEN 256 ELSE q.data)
  ELSE Call("write_coil", q.addr, q.reg, q.data)
WriteCall(q) ==
  IF IsFix(q.addr)
  THEN Call("write_coil", q.addr, q.reg + 1, IF q.data = ON THEN 256 ELSE q.data)
  ELSE Call("write_coil", q.addr, q.reg, q.data)

(* The copy changes before the board is asked to. *)
RecvWriteCoil(q) ==
  /\ q.func = WRITE_COIL
  /\ Receives(q)
  /\ cache' = IF IsFix(q.addr)
              THEN [cache EXCEPT ![ServerOf(q.addr)] =
                      IF q.data = ON THEN (@ \cup {q.reg}) \cap 0..15
                                     ELSE @ \ {q.reg}]
              ELSE cache
  /\ Begin(WriteCall(q))
  /\ gpc' = "rtu"
  /\ UNCHANGED <<conn, rsp, doubt>>

RecvReadInputs(q) ==
  /\ q.func = READ_INPUTS
  /\ Receives(q)
  /\ Begin(IF IsFix(q.addr) THEN Call("read_inputs", q.addr, 0, 0)
                            ELSE Call("read_inputs", q.addr, q.reg, q.data))
  /\ gpc' = "rtu"
  /\ UNCHANGED <<conn, rsp, cache, doubt>>

(* Any other function: the request itself is sent back. *)
RecvOther(q) ==
  /\ q.func \notin {READ_COILS, WRITE_COIL, READ_INPUTS}
  /\ Receives(q)
  /\ rsp' = [ok |-> TRUE, coils |-> {}]
  /\ Send
  /\ UNCHANGED <<cache, doubt, vars>>

Recv(q) == \/ RecvCached(q) \/ RecvReadCoils(q) \/ RecvWriteCoil(q)
           \/ RecvReadInputs(q) \/ RecvOther(q)

(* The call returned: the reply goes out, with 0x80 in the function if the  *)
(* call failed.                                                             *)
RtuDone_good ==
  /\ gpc = "rtu"
  /\ mpc = "idle" /\ res.ok
  /\ Send
  /\ UNCHANGED <<next, req, rsp, cache, doubt, vars>>
RtuDone ==
  /\ gpc = "rtu"
  /\ mpc = "idle"
  /\ Send
  /\ rsp' = [ok |-> res.ok,
             coils |-> IF res.ok /\ req.func = READ_COILS
                       THEN PayloadOf(res.coils, req.data) ELSE {}]
  /\ doubt' = IF req.func = WRITE_COIL /\ IsFix(req.addr)
              THEN LET w == <<ServerOf(req.addr), req.reg>>
                   IN  IF res.ok THEN doubt \ {w} ELSE doubt \cup {w}
              ELSE doubt
  /\ UNCHANGED <<next, req, cache, vars>>

ClientCloses ==
  /\ conn = "open"
  /\ conn' = "closed"
  /\ UNCHANGED <<gpc, next, req, rsp, cache, doubt, vars>>

(* The reset of a client's kernel arrives; outside a call RecvClosed does   *)
(* for it.                                                                  *)
ClientResets ==
  /\ conn = "replied" /\ gpc = "rtu"
  /\ conn' = "reset"
  /\ UNCHANGED <<gpc, next, req, rsp, cache, doubt, vars>>

Gone == gpc \in {"exit0", "exit1", "killed"} /\ UNCHANGED allvars

Gateway == \/ BenchWrite \/ OneShot \/ OneShotDone
           \/ InitRead \/ InitDone \/ Listen \/ Accept \/ AcceptFails
           \/ RtuDone \/ Gone

GNext == \/ Gateway \/ RecvClosed
         \/ \E q \in TcpRequests : Recv(q)
         \/ ClientCloses \/ ClientResets
         \/ (Master \/ Line) /\ UNCHANGED gvars

GSpec == GInit /\ [][GNext]_allvars

(* Fairness as in ModbusRtu; clients need neither come nor go, and recv()   *)
(* need not fail.                                                           *)
GFairSpec == /\ GSpec
             /\ WF_allvars(Gateway)
             /\ WF_allvars(Master /\ UNCHANGED gvars)
             /\ WF_allvars(Line /\ UNCHANGED gvars)

-----------------------------------------------------------------------------
(* Properties *)

GTypeOK ==
  /\ gpc \in {"bench", "oneshot", "oneshot_wait", "init", "init_wait", "accept",
              "recv", "rtu", "exit0", "exit1", "killed"}
  /\ next \in 1..Len(FixServers) + 2
  /\ conn \in {"none", "open", "closed", "replied", "reset"}
  /\ req \in Request
  /\ rsp \in [ok : BOOLEAN, coils : SUBSET Nat]
  /\ cache \in [Servers -> SUBSET Nat]
  /\ doubt \in SUBSET (Servers \X Nat)
  /\ gpc \in {"recv", "rtu", "killed"} <=> conn # "none"
  /\ mpc # "idle" => gpc \in {"bench", "oneshot_wait", "init_wait", "rtu"}

Serving == gpc \in {"accept", "recv"}

(* The copy of the coils that READ_COILS is answered from agrees with the   *)
(* relays of the board, whatever was lost or damaged on the line, except    *)
(* for the coils whose last write was answered with an error.               *)
CacheIsBoard ==
  Serving => \A i \in Servers, c \in 0..7 :
    ServerOf(FixServers[i]) = i /\ <<i, c>> \notin doubt
    => (c \in cache[i] <=> c \in relays[FixServers[i]])

(* A reply to READ_COILS without the error bit has relay c of the board in  *)
(* bit c, as it is, but for the coils of a bought board that are in doubt,  *)
(* if the client asked for as many coils as the board has: the state word   *)
(* has its bytes the other way round than the reply.                        *)
ReplyIsRelays ==
  Serving /\ rsp.ok /\ req.func = READ_COILS /\ req.reg = 0
  /\ RelayIds(req.addr) = 0..req.data - 1 =>
    \A c \in RelayIds(req.addr) :
      \/ c \in rsp.coils <=> c \in relays[req.addr]
      \/ IsFix(req.addr) /\ <<ServerOf(req.addr), c>> \in doubt

(* A request that took a call of the master is answered in the end, and the *)
(* next one can be heard: nothing lost on the line keeps the gateway.  Only *)
(* the reply to a client that is gone may end the process instead.          *)
EveryRequestAnswered ==
  gpc = "rtu" ~> gpc = "recv" \/ (gpc = "killed" /\ conn = "reset")

(* Past the test loop the process comes to wait for clients, however many   *)
(* reads of the initial coils fail, unless from some time on all do or it   *)
(* gets no socket.                                                          *)
GetsToListen ==
  gpc = "init" /\ []<>(mpc = "idle" /\ res.ok) => <>(gpc \in {"accept", "exit1"})

=============================================================================
