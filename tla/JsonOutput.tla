------------------------------ MODULE JsonOutput ------------------------------
(* The writer of the JSON answers of the LED controller (json_output.c).  It     *)
(* keeps one number for the whole document, element_count, where a document has  *)
(* one for each object or array that is open: what a call writes depends on it   *)
(* alone.  The caller opens and closes in pairs, as it must; any nesting of      *)
(* objects, arrays and values is a document it may write.                        *)
EXTENDS Naturals, Sequences

CONSTANTS MaxDepth,      \* bound: objects and arrays open at the same time
          MaxElements    \* bound: the elements of one of them

VARIABLES element_count,
          siblings       \* of each that is open, outermost first: its elements so far

jvars == <<element_count, siblings>>

JsonInit == element_count = 0 /\ siblings = <<>>

Depth == Len(siblings)

(* An element of the innermost object or array, of which there is one more.      *)
Counted == [siblings EXCEPT ![Depth] = @ + 1]

MayAdd == Depth > 0 /\ siblings[Depth] < MaxElements

rest_output_begin ==
    /\ siblings = <<>>
    /\ element_count' = 0
    /\ siblings' = <<0>>

(* Does nothing; the connection ends, and its context is zero for the next.      *)
rest_output_end ==
    /\ Depth = 1
    /\ siblings' = <<>>
    /\ element_count' = 0

(* rest_output_array_begin, rest_output_object_begin                             *)
rest_output_open ==
    /\ MayAdd /\ Depth < MaxDepth
    /\ element_count' = 0
    /\ siblings' = Append(Counted, 0)

rest_output_close_keep ==
    /\ Depth > 1
    /\ siblings' = SubSeq(siblings, 1, Depth - 1)
    /\ UNCHANGED element_count

(* rest_output_array_end, rest_output_object_end: the count goes on from the one *)
(* of what is closed, which is not the number of siblings.                       *)
rest_output_close ==
    /\ Depth > 1
    /\ element_count' = element_count + 1
    /\ siblings' = SubSeq(siblings, 1, Depth - 1)

(* A value of any of the four types.                                             *)
rest_output_value ==
    /\ MayAdd
    /\ element_count' = element_count + 1
    /\ siblings' = Counted

JsonNext == \/ rest_output_begin \/ rest_output_end
            \/ rest_output_open \/ rest_output_close
            \/ rest_output_value

JsonSpec == JsonInit /\ [][JsonNext]_jvars

(* Before an element the writer puts a comma when element_count is positive, and *)
(* it must do so for all but the first element of what is open: however deep the *)
(* document is, one counter is right where a stack of them seems to be needed.   *)
CommasRight == Depth > 0 => (element_count > 0 <=> siblings[Depth] > 0)

JsonTypeOK == element_count \in Nat /\ siblings \in Seq(Nat)
==============================================================================
