------------------------------ MODULE ChunkedBody -----------------------------
(* The decoder of the HTTP client for a body that comes in chunks                *)
(* (lib/httpclient/httpclient.c): each has its size in hexadecimal digits, the   *)
(* end of that line, its bytes and the end of a line; one of size 0 is the last. *)
(* Bytes are their codes.  A connection that ends early ends the body anywhere:  *)
(* the decoder gets what was received, and asks nowhere how much that is.        *)
EXTENDS Integers, SequencesExt

CONSTANTS Data,      \* what a chunk may hold
          Notes,     \* what may stand behind its size, up to the end of the line
          MaxChunks, \* bound: the chunks of a body
          LongMax    \* LONG_MAX

VARIABLES chunks,    \* what the server sent, for the property
          chunked,   \* what was received of it
          j,         \* bytes of it that were read
          decode,    \* what they held
          done,
          wild       \* the decoder reads or writes behind the end of its buffers

vars == <<chunks, chunked, j, decode, done, wild>>

CRLF == <<13, 10>>
At(s, i) == IF i \in DOMAIN s THEN s[i] ELSE 0      \* the string ends in a 0

------------------------------------------------------------------------------
(* esp_strtol.                                                                   *)

Spaces == {32, 9, 10}

\* esp_isdigit, esp_isalpha, esp_isupper; 36: no digit in any base.
Digit(c) == CASE c \in 48 .. 57  -> c - 48
              [] c \in 65 .. 90  -> c - 55
              [] c \in 97 .. 122 -> c - 87
              [] OTHER           -> 36

\* Where the digits begin, behind blanks, a sign and the prefix of the base.
Blanks(s) == CHOOSE i \in 1 .. Len(s) + 1 : /\ At(s, i) \notin Spaces
                                            /\ \A k \in 1 .. i - 1 : s[k] \in Spaces
Signed(s) == At(s, Blanks(s)) \in {43, 45}
Negative(s) == At(s, Blanks(s)) = 45
First(s) == Blanks(s) + IF Signed(s) THEN 1 ELSE 0
HasPrefix(s, letters) == At(s, First(s)) = 48 /\ At(s, First(s) + 1) \in letters
Hexadecimal(s, base) == base \in {0, 16} /\ HasPrefix(s, {88, 120})
Binary(s, base) == base \in {0, 2} /\ HasPrefix(s, {66, 98})
BaseOf(s, base) == CASE Hexadecimal(s, base) -> 16
                     [] Binary(s, base)      -> 2
                     [] base # 0             -> base
                     [] OTHER                -> IF At(s, First(s)) = 48 THEN 8 ELSE 10

Digits(s, base) ==
    LET from == First(s) + IF Hexadecimal(s, base) \/ Binary(s, base) THEN 2 ELSE 0
        b == BaseOf(s, base)
        to == CHOOSE i \in from .. Len(s) + 1 :
                /\ Digit(At(s, i)) >= b
                /\ \A k \in from .. i - 1 : Digit(s[k]) < b
    IN  [k \in 1 .. to - from |-> Digit(s[from + k - 1])]

\* A number that is too large is the largest, whatever digits follow.
esp_strtol(s, base) ==
    LET limit == IF Negative(s) THEN LongMax + 1 ELSE LongMax
        b == BaseOf(s, base)
        Add(acc, c) == IF acc = -1 \/ acc * b + c > limit THEN -1 ELSE acc * b + c
        acc == FoldLeft(Add, 0, Digits(s, base))
        size == IF acc = -1 THEN limit ELSE acc
    IN  IF Negative(s) THEN -size ELSE size

------------------------------------------------------------------------------
(* chunked_decode.                                                               *)

HasLine(s) == \E i \in 0 .. Len(s) - 2 : SubSeq(s, i + 1, i + 2) = CRLF

\* Bytes of the rest before the end of its first line.
LineLength(s) == CHOOSE i \in 0 .. Len(s) - 2 :
                    /\ SubSeq(s, i + 1, i + 2) = CRLF
                    /\ \A k \in 0 .. i - 1 : SubSeq(s, k + 1, k + 2) # CRLF

\* Bytes of the first chunk of the rest, as its size tells.
ChunkLength(s) == LineLength(s) + 2 + esp_strtol(s, 16) + 2

ChunkData(s) == SubSeq(s, LineLength(s) + 3, LineLength(s) + 2 + esp_strtol(s, 16))

DecodeChunk_unended ==
    LET rest == SubSeq(chunked, j + 1, Len(chunked))
        size == esp_strtol(rest, 16)
    IN  /\ ~done
        /\ \/ size <= 0 /\ done' = TRUE /\ UNCHANGED <<j, decode, wild>>
           \/ /\ size > 0 /\ HasLine(rest) /\ ChunkLength(rest) <= Len(rest)
              /\ j' = j + ChunkLength(rest) - 2
              /\ decode' = decode \o ChunkData(rest)
              /\ UNCHANGED <<done, wild>>
           \/ /\ size > 0 /\ ~(HasLine(rest) /\ ChunkLength(rest) <= Len(rest))
              /\ done' = TRUE /\ wild' = TRUE
              /\ UNCHANGED <<j, decode>>
        /\ UNCHANGED <<chunks, chunked>>

\* Once round the loop.  When the line does not end, or the chunk, the decoder
\* goes on behind what was received: what it then does, C does not say.
DecodeChunk ==
    LET rest == SubSeq(chunked, j + 1, Len(chunked))
        size == esp_strtol(rest, 16)
    IN  /\ ~done
        /\ \/ size <= 0 /\ done' = TRUE /\ UNCHANGED <<j, decode, wild>>
           \/ /\ size > 0 /\ HasLine(rest) /\ ChunkLength(rest) <= Len(rest)
              /\ j' = j + ChunkLength(rest)
              /\ decode' = decode \o ChunkData(rest)
              /\ UNCHANGED <<done, wild>>
           \/ /\ size > 0 /\ ~(HasLine(rest) /\ ChunkLength(rest) <= Len(rest))
              /\ done' = TRUE /\ wild' = TRUE
              /\ UNCHANGED <<j, decode>>
        /\ UNCHANGED <<chunks, chunked>>

------------------------------------------------------------------------------
(* The server writes the letters of a size large or small.                       *)

HexDigits(n, large) ==
    LET Hex(d) == IF d < 10 THEN 48 + d ELSE d + IF large THEN 55 ELSE 87
    IN  IF n < 16 THEN <<Hex(n)>> ELSE <<Hex(n \div 16), Hex(n % 16)>>

Sent(chunk) == HexDigits(Len(chunk.data), chunk.large) \o chunk.note \o CRLF
                 \o chunk.data \o CRLF

\* The text and the data of the first n chunks.
TextOf(n) == FlattenSeq([k \in 1 .. n |-> Sent(chunks[k])])
DataOf(n) == FlattenSeq([k \in 1 .. n |-> chunks[k].data])

Init ==
    /\ \E n \in 0 .. MaxChunks :
          chunks \in [1 .. n -> [data : Data, large : BOOLEAN, note : Notes]]
    /\ LET body == TextOf(Len(chunks)) \o <<48>> \o CRLF \o CRLF
       IN  \E n \in 0 .. Len(body) : chunked = SubSeq(body, 1, n)
    /\ j = 0 /\ decode = <<>> /\ done = FALSE /\ wild = FALSE

Next == DecodeChunk

Spec == Init /\ [][Next]_vars

------------------------------------------------------------------------------
(* The user gets the bytes of the chunks that came whole and no others, whatever *)
(* they look like: ends of lines, digits, a chunk in a chunk.  The decoder leaves*)
(* its buffers if and only if the body ends in the middle of a chunk.            *)
DecodesBody ==
    \E n \in 0 .. Len(chunks) :
       /\ decode = DataOf(n)
       /\ Len(TextOf(n)) <= Len(chunked)
       /\ done => /\ n = Len(chunks) \/ Len(TextOf(n + 1)) > Len(chunked)
                  /\ wild <=> n < Len(chunks) /\ Len(TextOf(n)) < Len(chunked)
==============================================================================
