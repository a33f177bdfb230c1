------------------------------ MODULE RdbLength ------------------------------
(***************************************************************************)
(* The length codec that heads every string, count and integer of an RDB   *)
(* stream: struct RdbLength, which decodes it, and struct RdbLenEncode.    *)
(*                                                                         *)
(* A byte is a number; a size_t is a Word, its eight bytes with the most   *)
(* significant first, which is also how the 32 and 64 bit codes lay it     *)
(* out; an immediate integer is an Int.                                    *)
(*                                                                         *)
(* The specification writes a stream of headers, lets it be cut short, and *)
(* decodes what is left of it.                                             *)
(***************************************************************************)
EXTENDS Integers, Sequences

CONSTANTS Words,     \* lengths that are written
          Ints,      \* integers that are written
          MaxItems   \* headers in the stream


Byte == 0 .. 255
Word == [1 .. 8 -> Byte]
Int32 == {x \in Int : -2147483647 - 1 <= x /\ x <= 2147483647}

ASSUME LengthAssumption == /\ Words \subseteq Word
                           /\ Ints \subseteq Int32
                           /\ MaxItems \in Nat

MAX_RDB_HDRLEN == 19

LEN_ERR == "err"
LengthEnc == {LEN_ERR, "len6", "len14", "len32", "len64", "lzf",
              "int8", "int16", "int32"}

(* Each operator named after another one, as in len_size_Payload, is that  *)
(* operator with one mistake in it, to test the properties with.           *)
length_encoding_Swapped(b) ==
  CASE b \in 0 .. 63   -> "len14"
    [] b \in 64 .. 127 -> "len6"
    [] OTHER           -> LEN_ERR

length_encoding(b) ==
  CASE b \in 0 .. 63    -> "len6"
    [] b \in 64 .. 127  -> "len14"
    [] b = 128          -> "len32"
    [] b = 129          -> "len64"
    [] b = 192          -> "int8"
    [] b = 193          -> "int16"
    [] b = 194          -> "int32"
    [] b = 195          -> "lzf"
    [] OTHER            -> LEN_ERR

(* Header bytes of each code: the nibbles of the constant LSIZE. *)
len_size_Payload(e) == CASE e = "len6" -> 1 [] e \in {"len14", "int8"} -> 1
                         [] e = "int16" -> 2 [] e = "len64" -> 8 [] OTHER -> 4
len_size(e) == CASE e = "len6"  -> 1 [] e = "len14" -> 2
                 [] e = "len32" -> 5 [] e = "len64" -> 9
                 [] e = "int8"  -> 2 [] e = "int16" -> 3 [] e = "int32" -> 5
                 [] OTHER -> 0

-----------------------------------------------------------------------------
(* The decoder. *)

Zero == <<0, 0, 0, 0, 0, 0, 0, 0>>

(* look(): a byte past the end of the data reads as zero. *)
At_Pads255(b, i) == IF i \in 1 .. Len(b) THEN b[i] ELSE 255
At(b, i) == IF i \in 1 .. Len(b) THEN b[i] ELSE 0

Signed8(x) == IF x >= 128 THEN x - 256 ELSE x

NoLength_Zero == [sz |-> 0, len |-> Zero, ival |-> 0, is_enc |-> 0]
NoLength == [sz |-> -1, len |-> Zero, ival |-> 0, is_enc |-> 0]
ALength(n, w) == [sz |-> n, len |-> w, ival |-> 0, is_enc |-> 0]
AnInt(n, v, k) == [sz |-> n, len |-> Zero, ival |-> v, is_enc |-> k]

(* The header at position i of b, if it is not an LZF one. *)
Plain(b, i) ==
  LET c(k) == At(b, i + k)
      e    == length_encoding(c(0))
  IN  CASE e = "len6"  -> ALength(1, <<0, 0, 0, 0, 0, 0, 0, c(0)>>)
        [] e = "len14" -> ALength(2, <<0, 0, 0, 0, 0, 0, c(0) - 64, c(1)>>)
        [] e = "len32" -> ALength(5, <<0, 0, 0, 0, c(1), c(2), c(3), c(4)>>)
        [] e = "len64" -> ALength(9, <<c(1), c(2), c(3), c(4),
                                       c(5), c(6), c(7), c(8)>>)
        [] e = "int8"  -> AnInt(2, Signed8(c(1)), 1)
        [] e = "int16" -> AnInt(3, 256 * Signed8(c(2)) + c(1), 2)
        [] e = "int32" -> AnInt(5, 256 * (256 * (256 * Signed8(c(4)) + c(3))
                                          + c(2)) + c(1), 4)
        [] OTHER -> NoLength

AsString(p) == [sz |-> p.sz, len |-> p.len, ival |-> p.ival,
                is_enc |-> p.is_enc, is_lzf |-> FALSE, zlen |-> Zero]

(* Both lengths of an LZF header; is_lzf keeps them from being LZF too.    *)
(* Of the two results only the first is tested for an error: a bad second  *)
(* one leaves len as the first set it.                                     *)
Lzf(b, i) ==
  LET z == Plain(b, i + 1)
      n == Plain(b, i + 1 + z.sz)
      bad == z.sz < 0 \/ z.is_enc # 0 \/ n.is_enc # 0
  IN  [sz     |-> IF bad THEN -1 ELSE 1 + z.sz + n.sz,
       len    |-> IF n.sz < 0 THEN z.len ELSE n.len,
       ival   |-> 0, is_enc |-> 0, is_lzf |-> TRUE, zlen |-> z.len]

decode_buf(b, i) == IF length_encoding(At(b, i)) = "lzf" THEN Lzf(b, i)
                    ELSE AsString(Plain(b, i))

-----------------------------------------------------------------------------
(* The encoder. *)

AllZero(w, n) == \A i \in 1 .. n : w[i] = 0

Fits6_OffByOne(w) == AllZero(w, 7) /\ w[8] <= 64
Fits6(w)  == AllZero(w, 7) /\ w[8] < 64
Fits14(w) == AllZero(w, 6) /\ w[7] < 64
Fits32(w) == AllZero(w, 4)

str_code(w) == IF Fits6(w) THEN "len6"
               ELSE IF Fits14(w) THEN "len14"
               ELSE IF Fits32(w) THEN "len32" ELSE "len64"

len_encode(w) ==
  LET e == str_code(w)
  IN  CASE e = "len6"  -> <<w[8]>>
        [] e = "len14" -> <<64 + w[7], w[8]>>
        [] e = "len32" -> <<128, w[5], w[6], w[7], w[8]>>
        [] e = "len64" -> <<129, w[1], w[2], w[3], w[4],
                                 w[5], w[6], w[7], w[8]>>

int_code_OffByOne(x) == IF -128 <= x /\ x <= 128 THEN "int8"
                        ELSE IF -32768 <= x /\ x <= 32768 THEN "int16" ELSE "int32"
int_code(x) == IF -128 <= x /\ x <= 127 THEN "int8"
               ELSE IF -32768 <= x /\ x <= 32767 THEN "int16"
               ELSE IF x \in Int32 THEN "int32" ELSE LEN_ERR

int_encode(x) ==
  LET e  == int_code(x)
      x1 == x \div 256
      x2 == x1 \div 256
      x3 == x2 \div 256
  IN  CASE e = "int8"  -> <<192, x % 256>>
        [] e = "int16" -> <<193, x % 256, x1 % 256>>
        [] e = "int32" -> <<194, x % 256, x1 % 256, x2 % 256, x3 % 256>>
        [] OTHER       -> <<>>

(* The writer of compressed strings is Redis: the code 0xc3, then both     *)
(* lengths.                                                                *)
lzf_header(z, w) == <<195>> \o len_encode(z) \o len_encode(w)

-----------------------------------------------------------------------------
(* A writer, the medium, and a reader. *)

VARIABLES written,  \* the headers the writer meant
          room,     \* the bytes its size calculation asked for
          wire,     \* the bytes it wrote
          medium,   \* "open" while writing; then "whole", "cut" or "bad"
          pos,      \* bytes the reader has stepped over
          read,     \* the headers it decoded
          rc        \* "ok", or the error it stopped with

vars == <<written, room, wire, medium, pos, read, rc>>

Init == /\ written = <<>> /\ room = 0 /\ wire = <<>> /\ medium = "open"
        /\ pos = 0 /\ read = <<>> /\ rc = "ok"

Header(len, zlen, ival, is_enc) ==
  [len |-> len, zlen |-> zlen, ival |-> ival, is_enc |-> is_enc,
   is_lzf |-> zlen # Zero]

Write(h, bytes, size) ==
  /\ medium = "open" /\ Len(written) < MaxItems
  /\ written' = Append(written, h)
  /\ wire' = wire \o bytes
  /\ room' = room + size
  /\ UNCHANGED <<medium, pos, read, rc>>

WriteLen(w) == Write(Header(w, Zero, 0, 0), len_encode(w), len_size(str_code(w)))

WriteInt(x) ==
  LET e == int_code(x)
      k == CASE e = "int8" -> 1 [] e = "int16" -> 2 [] e = "int32" -> 4
  IN  Write(Header(Zero, Zero, x, k), int_encode(x), len_size(e))

WriteLzf(z, w) == /\ z # Zero
                  /\ Write(Header(w, z, 0, 0), lzf_header(z, w),
                           Len(lzf_header(z, w)))

Close(m) == /\ medium = "open" /\ medium' = m
            /\ UNCHANGED <<written, room, pos, read, rc>>

Keep   == Close("whole") /\ UNCHANGED wire
Cut(n) == Close("cut") /\ n < Len(wire) /\ wire' = SubSeq(wire, 1, n)
(* One byte is overwritten by a code that is reserved. *)
Damage(n) == Close("bad") /\ wire' = [wire EXCEPT ![n] = 130]

(* RdbLength::decode: decode_buf() on what look() shows, then incr(). *)
Decode ==
  LET d == decode_buf(wire, pos + 1)
  IN  /\ medium # "open" /\ rc = "ok" /\ pos < Len(wire)
      /\ \/ /\ d.sz < 0
            /\ rc' = "hdr" /\ UNCHANGED <<pos, read>>
         \/ /\ d.sz >= 0 /\ d.sz > Len(wire) - pos
            /\ rc' = "trunc" /\ UNCHANGED <<pos, read>>
         \/ /\ d.sz >= 0 /\ d.sz <= Len(wire) - pos
            /\ pos' = pos + d.sz
            /\ read' = Append(read, [len |-> d.len, zlen |-> d.zlen,
                                     ival |-> d.ival, is_enc |-> d.is_enc,
                                     is_lzf |-> d.is_lzf])
            /\ UNCHANGED rc
      /\ UNCHANGED <<written, room, wire, medium>>

Next == \/ \E w \in Words : WriteLen(w)
        \/ \E x \in Ints : WriteInt(x)
        \/ \E z, w \in Words : WriteLzf(z, w)
        \/ Keep
        \/ \E n \in 0 .. Len(wire) : Cut(n)
        \/ \E n \in 1 .. Len(wire) : Damage(n)
        \/ Decode

Spec == Init /\ [][Next]_vars

-----------------------------------------------------------------------------
(* Type invariant: what is decoded is a 64 bit length or a 32 bit integer. *)
TypeOK ==
  /\ \A k \in 1 .. Len(read) : /\ read[k].len \in Word /\ read[k].zlen \in Word
                               /\ read[k].ival \in Int32
                               /\ read[k].is_enc \in {0, 1, 2, 4}
  /\ \A k \in 1 .. Len(wire) : wire[k] \in Byte
  /\ pos \in 0 .. Len(wire) /\ room \in Nat

(* The headers decoded are those written, in order, even when the stream   *)
(* is cut inside one: the zeros that look() pads with never complete it.   *)
ReadsBack == medium # "bad" =>
               /\ Len(read) <= Len(written)
               /\ read = SubSeq(written, 1, Len(read))

(* Reading to the end of an undamaged stream yields every header. *)
AllRead == medium = "whole" /\ pos = Len(wire) => read = written

(* A stream that was cut is reported as short, not as corrupt, and one     *)
(* that was kept is not reported at all.                                   *)
CutIsShort == /\ medium = "cut" => rc # "hdr"
              /\ medium = "whole" => rc = "ok"

(* The size calculated before encoding is the size encoded: callers        *)
(* allocate with the first and write with the second.                      *)
RoomAgrees == medium # "cut" => room = Len(wire)

(* Even in a damaged stream a header that is accepted moves the reader on. *)
Advances == [][read' # read => pos' > pos]_vars
=============================================================================
