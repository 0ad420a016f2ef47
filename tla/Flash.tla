-------------------------------- MODULE Flash --------------------------------
(***************************************************************************)
(* The flash driver of the board (hal_flash.c): read through a window of   *)
(* one bank, write through a DMA channel that the flash controller asks    *)
(* for each byte, erase by the page.                                       *)
(*                                                                         *)
(* A byte is the set of its bits that are 1: a write can only clear bits,  *)
(* an erase sets them all.  Sizes are parameters in the code's proportion: *)
(* a page is two units of the high address byte, a word four bytes.        *)
(***************************************************************************)
EXTENDS Integers, Sequences

CONSTANTS Banks, PagesPerBank,
          HighUnit,    \* words for each step of FADDRH: 256
          NamedPages,  \* pages that sixteen bits of byte address name: 32
          Ones,        \* the bits of a byte
          Buffers,     \* what the caller has to write
          FlashCalls   \* bound: calls

WordSize == 4
PageSize == 2 * HighUnit * WordSize
PerBank == PagesPerBank * PageSize
Pages == 0 .. Banks * PagesPerBank - 1
Bytes == 0 .. Banks * PerBank - 1

VARIABLES flash,      \* byte address -> contents
          MEMCTR,     \* the bank in the window
          FADDR,      \* the word the controller writes next
          FCTL,       \* what the controller is doing: "", "erase" or "write"
          desc,       \* the DMA channel: what it is still to move
          DMAARM, DMAIF0,
          EA,         \* interrupts enabled
          pc, args, buf,
          before,     \* history: the flash when the call was made
          calls

vars == <<flash, MEMCTR, FADDR, FCTL, desc, DMAARM, DMAIF0, EA, pc, args, buf, before, calls>>
chip == <<flash, FADDR, FCTL, desc, DMAARM, DMAIF0>>

Init ==
  /\ flash \in {[b \in Bytes |-> Ones], [b \in Bytes |-> IF b % 2 = 0 THEN {} ELSE Ones]}
  /\ MEMCTR \in 0 .. Banks - 1
  /\ FADDR = 0 /\ FCTL = "" /\ desc = <<>>
  /\ DMAARM = FALSE /\ DMAIF0 = FALSE /\ EA \in BOOLEAN
  /\ pc = "ready" /\ args = <<>> /\ buf = <<>> /\ before = flash /\ calls = 0

Ready == pc = "ready" /\ calls < FlashCalls
Called(where, what) ==
  pc' = where /\ args' = what /\ before' = flash /\ calls' = calls + 1

-----------------------------------------------------------------------------
(* The controller and its DMA channel, not in the repository.              *)

PageOf(word) == word \div (2 * HighUnit)

Erased ==
  /\ FCTL = "erase" /\ FCTL' = ""
  /\ flash' = [b \in Bytes |-> IF b \div PageSize = PageOf(FADDR) THEN Ones ELSE flash[b]]
  /\ UNCHANGED <<FADDR, desc, DMAARM, DMAIF0>>

\* Each byte asks for the next one; a word is written when it is full.
Moved ==
  /\ FCTL = "write" /\ DMAARM /\ desc # <<>>
  /\ desc' = Tail(desc)
  /\ LET b == FADDR * WordSize + args.moved
     IN flash' = [flash EXCEPT ![b] = @ \intersect Head(desc)]
  /\ DMAARM' = (Len(desc) > 1) /\ DMAIF0' = (DMAIF0 \/ Len(desc) = 1)
  /\ args' = [args EXCEPT !.moved = @ + 1]
  /\ UNCHANGED <<FADDR, FCTL>>

Written ==
  /\ FCTL = "write" /\ ~DMAARM /\ FCTL' = ""
  /\ UNCHANGED <<flash, FADDR, desc, DMAARM, DMAIF0>>

Controller ==
  /\ \/ Erased /\ UNCHANGED args
     \/ Moved
     \/ Written /\ UNCHANGED args
  /\ UNCHANGED <<MEMCTR, EA, pc, buf, before, calls>>

-----------------------------------------------------------------------------
(* The four functions.                                                     *)

HalFlashRead(pg, offset, cnt) ==
  /\ Ready
  /\ Called("read", [pg |-> pg, offset |-> offset, cnt |-> cnt, saved |-> MEMCTR])
  /\ MEMCTR' = pg \div PagesPerBank /\ buf' = <<>>
  /\ UNCHANGED <<chip, EA>>

Window == args.offset + (args.pg % PagesPerBank) * PageSize

ReadByte ==
  /\ pc = "read"
  /\ IF Len(buf) < args.cnt
     THEN /\ buf' = Append(buf, flash[MEMCTR * PerBank + Window + Len(buf)])
          /\ UNCHANGED <<MEMCTR, pc>>
     ELSE MEMCTR' = args.saved /\ pc' = "ready" /\ UNCHANGED buf
  /\ UNCHANGED <<chip, EA, args, before, calls>>

\* addr counts words; the channel is armed and the write begins.
HalFlashWrite(addr, data) ==
  /\ Ready /\ FCTL = ""
  /\ Called("write", [asked |-> addr * WordSize, at |-> addr * WordSize,
                      data |-> data, moved |-> 0])
  /\ desc' = data /\ DMAARM' = TRUE /\ FADDR' = addr /\ FCTL' = "write"
  /\ UNCHANGED <<flash, DMAIF0, MEMCTR, EA, buf>>

\* Here addr counts bytes, and has sixteen bits as well: of a higher address
\* the rest is cut off.  Its page is erased first.
Uint16(addr) == addr % (NamedPages * PageSize)
FlashWord(addr) == addr \div WordSize

HalFlashWritePage(addr, data) ==
  /\ Ready /\ FCTL = ""
  /\ Called("erased", [asked |-> addr, at |-> Uint16(addr), data |-> data, moved |-> 0])
  /\ desc' = data /\ FADDR' = FlashWord(Uint16(addr)) /\ FCTL' = "erase"
  /\ UNCHANGED <<flash, DMAARM, DMAIF0, MEMCTR, EA, buf>>

ArmAndWrite ==
  /\ pc = "erased" /\ FCTL = ""
  /\ pc' = "moved" /\ DMAARM' = TRUE /\ FCTL' = "write"
  /\ UNCHANGED <<flash, FADDR, desc, DMAIF0, MEMCTR, EA, args, buf, before, calls>>

\* HalFlashWrite leaves DMAIF0 set: after it this wait waits for nothing.
AwaitDma ==
  /\ pc = "moved" /\ DMAIF0
  /\ pc' = "page"
  /\ UNCHANGED <<chip, MEMCTR, EA, args, buf, before, calls>>

HalFlashErase(pg) ==
  /\ Ready /\ FCTL = ""
  /\ Called("erase", [pg |-> pg])
  /\ EA' = FALSE
  /\ FADDR' = pg * 2 * HighUnit + (FADDR % HighUnit) /\ FCTL' = "erase"
  /\ UNCHANGED <<flash, desc, DMAARM, DMAIF0, MEMCTR, buf>>

\* The last wait of each function.
\* Mutant: after the wait for the DMA there is no other.
Idle_flag == FCTL = "" \/ pc = "page"

Idle == FCTL = ""

\* HalFlashWritePage clears the flag behind it, HalFlashErase enables
\* interrupts, whatever they were.
Return ==
  /\ pc \in {"write", "page", "erase"} /\ Idle
  /\ pc' = "ready"
  /\ DMAIF0' = (DMAIF0 /\ pc # "page")
  /\ EA' = (EA \/ pc = "erase")
  /\ UNCHANGED <<flash, FADDR, FCTL, desc, DMAARM, MEMCTR, args, buf, before, calls>>

\* Callers stay in one page.
Next ==
  \/ \E pg \in Pages, offset \in {0, PageSize - 3} : HalFlashRead(pg, offset, 3)
  \/ \E pg \in Pages, word \in {0, HighUnit}, data \in Buffers :
       \/ HalFlashWrite(pg * 2 * HighUnit + word, data)
       \/ HalFlashWritePage((pg * 2 * HighUnit + word) * WordSize, data)
  \/ \E pg \in Pages : HalFlashErase(pg)
  \/ ReadByte \/ ArmAndWrite \/ AwaitDma \/ Return \/ Controller

Spec == Init /\ [][Next]_vars

-----------------------------------------------------------------------------
(* What the flash should hold after a call, of the last one made.          *)
WrittenOver(at, old) ==
  [b \in Bytes |-> IF b - at \in 0 .. Len(args.data) - 1
                   THEN old[b] \intersect args.data[b - at + 1] ELSE old[b]]
ErasedPage(pg) == [b \in Bytes |-> IF b \div PageSize = pg THEN Ones ELSE before[b]]

(* When a call returns, the flash holds what the call says, in the words   *)
(* it names and in no others; a read gave the bytes of its page and left   *)
(* the window where it was: after any calls before, the flag HalFlashWrite *)
(* leaves behind included.  What HalFlashWritePage names is what sixteen   *)
(* bits leave of the address: of a page behind them it erases and writes   *)
(* another instead, the one as far from the start of the flash.            *)
ReturnStep ==
  (pc # "ready" /\ pc' = "ready") =>
    /\ FCTL = "" /\ ~DMAARM
    /\ flash = CASE pc = "read" -> before
                 [] pc = "write" -> WrittenOver(args.asked, before)
                 [] pc = "page" ->
                      LET at == args.asked % (NamedPages * PageSize)
                      IN  WrittenOver(at, ErasedPage(at \div PageSize))
                 [] pc = "erase" -> ErasedPage(args.pg)
    /\ pc = "read" => /\ buf = [b \in 1 .. args.cnt |->
                                  before[args.pg * PageSize + args.offset + b - 1]]
                      /\ MEMCTR' = args.saved
FlashIsAsCalled == [][ReturnStep]_vars
=============================================================================
