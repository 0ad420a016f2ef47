---------------------------- MODULE MCDirectTest -----------------------------
(* Each command, with tests of every payload, the longest and the shortest, and *)
(* one bad parameter of each kind.                                              *)
EXTENDS DirectTest

Bytes(c, f, len, type) == <<c * 64 + f, len * 4 + type>>

MCCommands == {Bytes(LE_RESET_CMD, 0, 0, 0), Bytes(LE_RECEIVER_TEST_CMD, 3, 0, 0),
               Bytes(LE_TRANSMITTER_TEST_CMD, 39, 1, 1), Bytes(LE_TRANSMITTER_TEST_CMD, 2, 2, 2),
               Bytes(LE_TRANSMITTER_TEST_CMD, 0, 37, 0), Bytes(LE_TRANSMITTER_TEST_CMD, 0, 0, 0),
               Bytes(LE_TRANSMITTER_TEST_CMD, 40, 1, 1), Bytes(LE_TRANSMITTER_TEST_CMD, 1, 38, 1),
               Bytes(LE_TRANSMITTER_TEST_CMD, 1, 1, 3), Bytes(LE_END_TEST_CMD, 0, 0, 0)}

(* The assumption of AirIsRight, which holds of the code's values.              *)
ASSUME PayloadAssumption == PayloadsAreRight
==============================================================================
