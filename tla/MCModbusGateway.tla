-------------------------- MODULE MCModbusGateway --------------------------
(* An instance of ModbusGateway: a relay16 board at 2, a bought board at 4  *)
(* and, for the test loop, a relay8 board at 3; clients that read and write *)
(* the first two, and two requests that nobody can serve.                   *)
EXTENDS ModbusGateway

MCAddr == {2, 3, 4}
MCKind == [a \in MCAddr |-> CASE a = 2 -> "relay16" [] a = 3 -> "relay8" [] OTHER -> "fix"]
MCFixServers == <<4>>
MCInitRelays == {[a \in MCAddr |-> CASE a = 2 -> {9} [] a = 3 -> {} [] OTHER -> {1, 7}]}

Q(addr, func, reg, data) == [addr |-> addr, func |-> func, reg |-> reg, data |-> data]

(* 7 is an address without a board, and the last function has no case.      *)
MCTcpRequests == {Q(2, READ_COILS, 0, 16), Q(4, READ_COILS, 0, 8),
                  Q(4, WRITE_COIL, 1, ON), Q(4, WRITE_COIL, 1, 0),
                  Q(4, READ_INPUTS, 0, 8),
                  Q(7, READ_COILS, 0, 8), Q(2, WRITE_REGISTER, 0, 1)}

(* The calls main() makes for them: its test loop, its one shot write, the  *)
(* read of the initial coils, and one for each request not cached.          *)
MCCalls == {Call("write_coil", 3, 0, 255), Call("write_coil", 3, 0, 0),
            Call("write_register", 3, 0, 1), Call("read_coils_fix", 4, 0, 8)}
           \cup {Call("read_coils", q.addr, q.reg, q.data) :
                    q \in {r \in MCTcpRequests : r.func = READ_COILS}}
           \cup {WriteCall(q) : q \in {r \in MCTcpRequests : r.func = WRITE_COIL}}
           \cup {Call("read_inputs", 4, 0, 0)}
=============================================================================
