---------------------------- MODULE MCModbusRtu ----------------------------
(* Instances of ModbusRtu for TLC: a relay8 board, a relay16 board and a    *)
(* bought board, and sets of calls.                                         *)
EXTENDS ModbusRtu

MCAddr == {1, 2, 4}
MCKind == [a \in MCAddr |-> CASE a = 1 -> "relay16" [] a = 2 -> "relay8" [] OTHER -> "fix"]

MCInitRelays == {[a \in MCAddr |-> {}]}

C(op, addr, reg, arg) == [op |-> op, addr |-> addr, reg |-> reg, arg |-> arg]

(* Answers that come late: to a read of 8 coils of a board that has 16, and *)
(* to a write of a bought board and the reads that gather its coils.        *)
MCLate == {C("read_coils", 1, 0, 8), C("write_coil", 4, 2, 1),
           C("read_coils_fix", 4, 0, 2)}

(* Two calls are enough for a process that must not hang in one. *)
MCFew == {C("read_coils", 1, 0, 16), C("write_coil", 2, 1, 1)}
=============================================================================
