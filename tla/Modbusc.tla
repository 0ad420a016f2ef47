-------------------------------- MODULE Modbusc -------------------------------
(* The command line client of the relay boards (apps/modbusc/src/main.c): the    *)
(* loop over the options, whose operands it takes with ++ix wherever argv ends,  *)
(* the checks after it, and the one call of the Modbus library of the platform,  *)
(* which is not in the repository: it fails, or answers with any values.         *)
(* An argument is the text that strcmp compares and the number atoi makes of it. *)
EXTENDS Integers, FiniteSets, SequencesExt

CONSTANTS Commands,   \* command lines: sequences of an option and its operands
          Values,     \* what a register can hold
          Room        \* the length of regs: 255

NoNumber == "number"

Arity(o) == CASE o \in {"-d", "-b", "-a"} -> 1
              [] o \in {"-ri", "-rc", "-wr", "-rr"} -> 2
              [] OTHER -> 0

VARIABLES pc,         \* "options", "init", "call", "done"
          command,    \* the command line, as its user means it
          ix,         \* the argument the loop looks at
          opts,       \* uart, addr, regaddr, regval, numregs, action
          called,     \* the calls of the library that succeeded
          printed,    \* what was printed of them: register and value
          exit        \* the exit status; "crash" when atoi was given no text, or
                      \* when the stack was overwritten

vars == <<pc, command, ix, opts, called, printed, exit>>

Argument(text, n) == [text |-> text, atoi |-> n]

(* The arguments that follow the program's name.                                 *)
ArgvOf(c) ==
    FlattenSeq([k \in DOMAIN c |->
        <<Argument(c[k].option, 0)>> \o
            [j \in DOMAIN c[k].given |-> Argument(NoNumber, c[k].given[j])]])

argv == ArgvOf(command)

Init == /\ command \in Commands
        /\ pc = "options" /\ ix = 1
        /\ opts = [uart |-> -1, addr |-> -1, regaddr |-> 0, regval |-> 0, numregs |-> 0,
                   action |-> "none"]
        /\ called = <<>> /\ printed = {} /\ exit = "none"

Exit(status) == /\ pc' = "done" /\ exit' = status
                /\ UNCHANGED <<command, opts, called, printed>>

usage == /\ pc = "options" /\ argv = <<>>
         /\ Exit("1") /\ UNCHANGED ix

Operand(j) == argv[ix + j].atoi

Uint16(n) == n % 65536

(* What an option sets.  The speed of the line does not matter here.             *)
Set_wide(o) ==
    CASE o = "-d" -> [opts EXCEPT !.uart = Operand(1)]
      [] o = "-a" -> [opts EXCEPT !.addr = Operand(1)]
      [] o = "-b" -> opts
      [] o = "-wr" -> [opts EXCEPT !.regaddr = Operand(1), !.regval = Operand(2)]
      [] OTHER -> [opts EXCEPT !.regaddr = Operand(1), !.numregs = Operand(2), !.action = o]
Set(o) ==
    CASE o = "-d" -> [opts EXCEPT !.uart = Operand(1)]
      [] o = "-a" -> [opts EXCEPT !.addr = Operand(1)]
      [] o = "-b" -> opts
      [] o = "-wr" -> [opts EXCEPT !.regaddr = Uint16(Operand(1)),
                                   !.regval = Uint16(Operand(2)), !.action = o]
      [] OTHER -> [opts EXCEPT !.regaddr = Uint16(Operand(1)),
                               !.numregs = Uint16(Operand(2)), !.action = o]

(* One turn of the loop; behind the last argument there is no text.              *)
ParseOption ==
    /\ pc = "options" /\ ix \in DOMAIN argv
    /\ LET o == argv[ix].text
       IN  \/ Arity(o) = 0 /\ Exit("1") /\ UNCHANGED ix
           \/ Arity(o) > 0 /\ ix + Arity(o) > Len(argv) /\ Exit("crash") /\ UNCHANGED ix
           \/ /\ Arity(o) > 0 /\ ix + Arity(o) <= Len(argv)
              /\ ix' = ix + Arity(o) + 1
              /\ opts' = Set(o)
              /\ UNCHANGED <<pc, command, called, printed, exit>>

(* uart and addr must be given; modbus_rtu_init of the library may fail, which   *)
(* VERIFY_FATAL does not survive.                                                *)
modbus_rtu_init ==
    /\ pc = "options" /\ argv # <<>> /\ ix > Len(argv)
    /\ \/ (opts.uart = -1 \/ opts.addr = -1) /\ Exit("1")
       \/ /\ opts.uart # -1 /\ opts.addr # -1
          /\ \/ pc' = "call" /\ UNCHANGED <<command, opts, called, printed, exit>>
             \/ Exit("fatal")
    /\ UNCHANGED ix

(* The call as the library is asked for it.                                      *)
Asked == [to |-> <<opts.uart, opts.addr>>, action |-> opts.action, reg |-> opts.regaddr,
          arg |-> IF opts.action = "-wr" THEN opts.regval ELSE opts.numregs]

Printed(regs) == {<<opts.regaddr + k, regs[k]>> : k \in DOMAIN regs}

CallFails == /\ pc = "call"
             /\ Exit("1") /\ UNCHANGED ix

(* The answer goes into regs, which is on the stack.                             *)
Registers == 0..(IF opts.action = "-wr" THEN 0 ELSE opts.numregs) - 1
Fits == opts.action = "-wr" \/ opts.numregs <= Room

PrintsAll(regs) == /\ printed' = printed \cup Printed(regs)
                   /\ exit' = "0"

(* More registers than regs has room for: what lies behind it is overwritten,    *)
(* and printed as whatever it is by then.                                        *)
Overflows == /\ \E found \in [Registers -> Values] : printed' = printed \cup Printed(found)
             /\ exit' \in {"0", "crash"}

CallSucceeds ==
    /\ pc = "call" /\ opts.action # "none"
    /\ \E regs \in [Registers -> Values] :
          /\ called' = Append(called, [Asked EXCEPT !.arg = <<@, regs>>])
          /\ IF Fits THEN PrintsAll(regs) ELSE Overflows
    /\ pc' = "done"
    /\ UNCHANGED <<command, ix, opts>>

Next == usage \/ ParseOption \/ modbus_rtu_init \/ CallFails \/ CallSucceeds

------------------------------------------------------------------------------
(* The mistakes in a command line, each an option and an operand of it that is   *)
(* missing, or 0: the loop does not know the option, or has too many operands.   *)
IsMistake(k, j) ==
    LET n == Len(command[k].given)
        a == Arity(command[k].option)
    IN  IF j = 0 THEN a = 0 \/ n > a ELSE n < j /\ j <= a

Mistakes == {m \in (DOMAIN command) \X (0..2) : IsMistake(m[1], m[2])}

Last_(os) == command[Max({k \in DOMAIN command : command[k].option \in os})]

(* Exit status 0 tells the truth: one call was made and succeeded, with the last *)
(* device, address and action of the command line and the operands of this       *)
(* action as sixteen bits, and the values printed are those of the registers     *)
(* they are printed for, if regs has room for all of them: nobody checks that.   *)
(* The loop takes operands without looking at them; yet one mistake never makes  *)
(* another command that succeeds, as two can: of "-d -d" the second is the       *)
(* number of the device, 0, and a "-wr" without operands takes the address that  *)
(* follows.                                                                      *)
ExitTellsTruth ==
    exit = "0" /\ Cardinality(Mistakes) < 2 =>
        /\ Mistakes = {}
        /\ LET action == Last_({"-ri", "-rc", "-wr", "-rr"})
               c == called[1]
           IN  /\ Len(called) = 1
               /\ c.to = <<Last_({"-d"}).given[1], Last_({"-a"}).given[1]>>
               /\ c.action = action.option
               /\ c.reg = action.given[1] % 65536
               /\ c.arg[1] = action.given[2] % 65536
               /\ c.action = "-wr" \/ c.arg[1] <= Room =>
                    printed = {<<c.reg + k, c.arg[2][k]>> : k \in DOMAIN c.arg[2]}
==============================================================================
