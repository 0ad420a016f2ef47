---------------------------- MODULE RelayClient ----------------------------
(* What the calls of modbus.c promise to a user whose boards keep their     *)
(* deadline: a call may take effect on the boards while it runs, any number *)
(* of times or not at all; if it returns 0, a relay written is as written   *)
(* and the coils read tell the relays of the board; nothing changes between   *)
(* two calls.                                                               *)
EXTENDS Naturals

CONSTANTS Addr,         (* The boards.                                      *)
          Calls,        (* The calls the user makes.                        *)
          Effect(_, _), (* Effect(c, r): the relays after c, from r.        *)
          Reading(_, _) (* Reading(c, r): what a read c of the relays r is. *)

VARIABLES busy,    (* A call is running.                                    *)
          call,    (* The call running, or the last one.                    *)
          relays,  (* The relays of each board that are on.                 *)
          res      (* Result of the last call.                              *)

vars == <<busy, call, relays, res>>

Init == /\ busy = FALSE
        /\ relays \in [Addr -> SUBSET Nat]
        /\ res.ok = FALSE

Begin(c) == /\ ~busy
            /\ busy' = TRUE
            /\ call' = c
            /\ UNCHANGED <<relays, res>>

Apply == /\ busy
         /\ relays' = Effect(call, relays)
         /\ UNCHANGED <<busy, call, res>>

Fail == /\ busy
        /\ busy' = FALSE
        /\ res'.ok = FALSE
        /\ UNCHANGED <<call, relays>>

(* Success needs the effect to be there, and a read returns what is there.  *)
Succeed == /\ busy
           /\ busy' = FALSE
           /\ res'.ok
           /\ relays = Effect(call, relays)
           /\ call.op = "read_coils" => call.addr \in Addr /\ res'.coils = Reading(call, relays)
           /\ UNCHANGED <<call, relays>>

Next == (\E c \in Calls : Begin(c)) \/ Apply \/ Fail \/ Succeed

Spec == Init /\ [][Next]_vars
=============================================================================
