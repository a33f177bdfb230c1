------------------------------ MODULE RdbPacked ------------------------------
(***************************************************************************)
(* Ziplists and listpacks, byte by byte: structs RdbZipList and            *)
(* RdbListPack, which walk them, RdbZipEncode and RdbListPackEncode, which *)
(* calculate their size and build them.                                    *)
(*                                                                         *)
(* A list is built by the encoders of the repository or by Redis, may be   *)
(* damaged, and is walked from end to end.                                 *)
(*                                                                         *)
(* An element is <<"str", n>>, a string of n bytes, or <<"int", w>>, the   *)
(* 64 bit integer w as a Word, its most significant byte first.  Memory    *)
(* holds the bytes of structure only; the bytes of strings, which nothing  *)
(* interprets, all read as Payload.                                        *)
(***************************************************************************)
EXTENDS Integers, Sequences

CONSTANTS Elements,    \* what a list of each kind may hold, by its writer
          MaxElements, \* elements in a list
          MaxDamaged,  \* bytes in a list that is damaged
          Damages,     \* bytes that overwrite one of a damaged list
          Payload      \* every byte of every string

Byte == 0 .. 255
Word == [1 .. 8 -> Byte]
Kinds   == {"zip", "pack"}
Writers == {"repo", "redis"}

ASSUME PackedAssumption ==
  /\ \A k \in Kinds, w \in Writers :
       Elements[k][w] \subseteq ({"str"} \X Nat) \cup ({"int"} \X Word)
  /\ MaxElements \in Nat \ {0} /\ MaxDamaged \in Nat
  /\ Damages \subseteq Byte /\ Payload \in Byte

-----------------------------------------------------------------------------
(* Memory, and numbers in it.  The numbers read by the operators below are *)
(* sequences of bytes, the most significant first.                         *)

At(m, a) == IF a \in DOMAIN m THEN m[a] ELSE Payload
Store(m, a, bytes) == [i \in DOMAIN m \cup a .. (a + Len(bytes) - 1) |->
                         IF i \in a .. (a + Len(bytes) - 1) THEN bytes[i - a + 1]
                         ELSE m[i]]

Big(m, a, n) == [i \in 1 .. n |-> At(m, a + i - 1)]
Little(m, a, n) == [i \in 1 .. n |-> At(m, a + n - i)]

(* s8, s16, s24, s32 and s64: n bytes extended to 64 bits.                 *)
(* (Each operator named after another one, as in Extended_Unsigned, is     *)
(* that operator with one mistake in it, to test the properties with.)     *)
Extended_Unsigned(b) == [i \in 1 .. 8 |-> IF i > 8 - Len(b) THEN b[i - 8 + Len(b)] ELSE 0]
Extended(b) == [i \in 1 .. 8 |-> IF i > 8 - Len(b) THEN b[i - 8 + Len(b)]
                                 ELSE IF b[1] >= 128 THEN 255 ELSE 0]

(* s13: the sign is extended by subtracting from 16, and only over the     *)
(* upper four bytes.                                                       *)
s13(m, a) == LET b == At(m, a)
             IN  IF (b \div 16) % 2 = 1
                 THEN <<255, 255, 255, 255, 0, 0, 16 - (b % 16), At(m, a + 1)>>
                 ELSE <<0, 0, 0, 0, 0, 0, b % 32, At(m, a + 1)>>

(* A length of four bytes.  Those of Beyond or more are not told apart,    *)
(* neither when they are read nor when they are written.                   *)
Beyond == 16777216
Length32(b) == IF b[1] > 0 THEN Beyond ELSE 65536 * b[2] + 256 * b[3] + b[4]

Bytes32(n) == IF n >= Beyond THEN <<255, 255, 255, 255>>
              ELSE <<0, n \div 65536, (n \div 256) % 256, n % 256>>
Reversed(b) == [i \in 1 .. Len(b) |-> b[Len(b) + 1 - i]]
Tail8(w, n) == SubSeq(w, 9 - n, 8)

(* The integer w can be written in n bytes. *)
Fits(w, n) == w = Extended(Tail8(w, n))

-----------------------------------------------------------------------------
(* RdbZipList: the codes.  An entry is [prev][next][data]. *)

zlink_prev(b) == IF b < 254 THEN "LEN_8" ELSE IF b = 255 THEN "ZIP_END" ELSE "LEN_32"

zlink_next(b) ==
  CASE b \in 0 .. 63    -> "LEN_6"
    [] b \in 64 .. 127  -> "BIG_14"
    [] b \in 128 .. 191 -> "BIG_32"
    [] b \in 192 .. 207 -> "IMMED_16"
    [] b \in 208 .. 223 -> "IMMED_32"
    [] b \in 224 .. 239 -> "IMMED_64"
    [] b = 240          -> "IMMED_24"
    [] b = 254          -> "IMMED_8"
    [] b = 255          -> "ZIP_END"
    [] OTHER            -> "IMMED_4"

zlink_size(c) == CASE c = "ZIP_END" -> 0
                   [] c \in {"LEN_8", "LEN_6", "IMMED_4"} -> 1
                   [] c \in {"BIG_14", "IMMED_8"} -> 2
                   [] c = "IMMED_16" -> 3 [] c = "IMMED_24" -> 4
                   [] c \in {"LEN_32", "BIG_32", "IMMED_32"} -> 5
                   [] c = "IMMED_64" -> 9

zprev_code_Always8(n) == "LEN_8"
zprev_code(n) == IF n < 254 THEN "LEN_8" ELSE "LEN_32"
znext_str_code(n) == IF n < 64 THEN "LEN_6" ELSE IF n < 16384 THEN "BIG_14" ELSE "BIG_32"

zlink_length(c, m, a) == CASE c = "ZIP_END" -> 0
                           [] c = "LEN_6"   -> At(m, a) % 64
                           [] c = "LEN_8"   -> At(m, a)
                           [] c = "BIG_14"  -> 256 * (At(m, a) % 64) + At(m, a + 1)
                           [] c = "BIG_32"  -> Length32(Big(m, a + 1, 4))
                           [] c = "LEN_32"  -> Length32(Little(m, a + 1, 4))

zlink_int(c, m, a) == CASE c = "IMMED_4" -> Extended(<<(At(m, a) % 16) - 1>>)
                        [] OTHER -> Extended(Little(m, a + 1, zlink_size(c) - 1))

zip_immed(c) == c \in {"IMMED_16", "IMMED_32", "IMMED_64", "IMMED_24", "IMMED_8", "IMMED_4"}

-----------------------------------------------------------------------------
(* RdbListPack: the codes.  An entry is [next][data][back]. *)

lp_code(b) ==
  CASE b \in 0 .. 127   -> "7BIT_UINT"
    [] b \in 128 .. 191 -> "6BIT_STR"
    [] b \in 192 .. 223 -> "13BIT_INT"
    [] b \in 224 .. 239 -> "12BIT_STR"
    [] b = 240 -> "32BIT_STR"
    [] b = 241 -> "16BIT_INT" [] b = 242 -> "24BIT_INT"
    [] b = 243 -> "32BIT_INT" [] b = 244 -> "64BIT_INT"
    [] b = 255 -> "LP_END"
    [] OTHER   -> "LP_UNUSED"

lp_size(c) == CASE c \in {"7BIT_UINT", "6BIT_STR", "LP_END"} -> 1
                [] c \in {"13BIT_INT", "12BIT_STR"} -> 2
                [] c = "16BIT_INT" -> 3 [] c = "24BIT_INT" -> 4
                [] c \in {"32BIT_STR", "32BIT_INT"} -> 5
                [] c = "64BIT_INT" -> 9
                [] c = "LP_UNUSED" -> 0

(* How many groups of seven bits, of at most 32 bits. *)
lpback_size(n) == IF n < 128 THEN 1 ELSE IF n < 16384 THEN 2
                  ELSE IF n < 2097152 THEN 3 ELSE IF n < 268435456 THEN 4 ELSE 5

lpnext_str_code(n) == IF n < 64 THEN "6BIT_STR"
                      ELSE IF n < 4096 THEN "12BIT_STR" ELSE "32BIT_STR"

lpnext_imm_code(w) ==
  IF w = Extended(<<0, w[8] % 128>>) THEN "7BIT_UINT"
  ELSE IF Fits(w, 2) /\ w[7] \in 0 .. 15 \cup 240 .. 255 THEN "13BIT_INT"
  ELSE IF Fits(w, 2) THEN "16BIT_INT" ELSE IF Fits(w, 3) THEN "24BIT_INT"
  ELSE IF Fits(w, 4) THEN "32BIT_INT" ELSE "64BIT_INT"

lp_length(c, m, a) == CASE c = "6BIT_STR"  -> At(m, a) % 64
                        [] c = "12BIT_STR" -> 256 * (At(m, a) % 16) + At(m, a + 1)
                        [] c = "32BIT_STR" -> Length32(Little(m, a + 1, 4))

lp_int(c, m, a) == CASE c = "7BIT_UINT" -> Extended(<<0, At(m, a) % 128>>)
                     [] c = "13BIT_INT" -> s13(m, a)
                     [] c = "LP_UNUSED" -> Extended(<<0>>)
                     [] OTHER -> Extended(Little(m, a + 1, lp_size(c) - 1))

lp_immed(c) == c \notin {"6BIT_STR", "12BIT_STR", "32BIT_STR"}

-----------------------------------------------------------------------------
(* The walk: RdbListValue and the two next() functions. *)

Null == <<"none">>
Lval(entry, entry_len, val, ok) ==
  [entry |-> entry, entry_len |-> entry_len, val |-> val, ok |-> ok]

(* first() starts from here.  A next() that fails is not followed by       *)
(* another one.                                                            *)
FirstLval(data) == Lval(data, 0, Null, TRUE)
Stop(entry) == Lval(entry, 0, Null, FALSE)

(* The element whose code is at a, n bytes of header and d of data.  It is *)
(* accepted if it ends where the list ends, or before.                     *)
Take_FromHeader(a, n, d, back, val, end) == Lval(a, n + d + back, val, a + n <= end)
Take(a, n, d, back, val, end) == Lval(a, n + d + back, val, a + n + d + back <= end)

zip_next_NoPrev(m, end, l) ==
  LET b == l.entry + l.entry_len + 1
      c == zlink_next(At(m, b))
      n == zlink_size(c)
      d == zlink_length(c, m, b)
  IN  IF b >= end \/ At(m, b - 1) = 255 \/ b + n > end THEN Stop(b)
      ELSE IF zip_immed(c) THEN Take(b, n, 0, 0, <<"int", zlink_int(c, m, b)>>, end)
      ELSE Take(b, n, d, 0, <<"str", b + n, d>>, end)

zip_next(m, end, l) ==
  LET a == l.entry + l.entry_len
      p == zlink_prev(At(m, a))
      b == a + zlink_size(p)
      c == zlink_next(At(m, b))
      n == zlink_size(c)
      d == zlink_length(c, m, b)
  IN  IF a >= end \/ p = "ZIP_END" THEN Stop(a)
      ELSE IF b >= end \/ b + n > end THEN Stop(b)
      ELSE IF zip_immed(c) THEN Take(b, n, 0, 0, <<"int", zlink_int(c, m, b)>>, end)
      ELSE Take(b, n, d, 0, <<"str", b + n, d>>, end)

lp_next_NoBack(m, end, l) ==
  LET a == l.entry + l.entry_len
      c == lp_code(At(m, a))
      n == lp_size(c)
      d == lp_length(c, m, a)
  IN  IF a >= end \/ c = "LP_END" \/ a + n > end THEN Stop(a)
      ELSE IF lp_immed(c) THEN Take(a, n, 0, 0, <<"int", lp_int(c, m, a)>>, end)
      ELSE Take(a, n, d, 0, <<"str", a + n, d>>, end)

lp_next(m, end, l) ==
  LET a == l.entry + l.entry_len
      c == lp_code(At(m, a))
      n == lp_size(c)
      d == lp_length(c, m, a)
  IN  IF a >= end \/ c = "LP_END" \/ a + n > end THEN Stop(a)
      ELSE IF lp_immed(c)
      THEN Take(a, n, 0, lpback_size(n), <<"int", lp_int(c, m, a)>>, end)
      ELSE Take(a, n, d, lpback_size(n + d), <<"str", a + n, d>>, end)

next(kind, m, end, l) == IF kind = "zip" THEN zip_next(m, end, l) ELSE lp_next(m, end, l)

-----------------------------------------------------------------------------
(* What is written for an element: its code and the bytes of its header.   *)

DataLen(e) == IF e[1] = "str" THEN e[2] ELSE 0

(* The integers of a ziplist are all written by Redis. *)
zip_int_code(w) ==
  CASE w = Extended(<<0, w[8]>>) /\ w[8] <= 12 -> "IMMED_4"
    [] Fits(w, 1) /\ ~ (w = Extended(<<0, w[8]>>) /\ w[8] <= 12) -> "IMMED_8"
    [] Fits(w, 2) /\ ~ Fits(w, 1) -> "IMMED_16"
    [] Fits(w, 3) /\ ~ Fits(w, 2) -> "IMMED_24"
    [] Fits(w, 4) /\ ~ Fits(w, 3) -> "IMMED_32"
    [] OTHER -> "IMMED_64"

zip_int_head(c, w) == CASE c = "IMMED_4"  -> <<241 + w[8]>>
                        [] c = "IMMED_8"  -> <<254>>
                        [] c = "IMMED_16" -> <<192>>
                        [] c = "IMMED_24" -> <<240>>
                        [] c = "IMMED_32" -> <<208>>
                        [] c = "IMMED_64" -> <<224>>

(* RdbZipEncode::encode_next *)
zip_encode_next(c, n) == CASE c = "LEN_6"  -> <<n>>
                           [] c = "BIG_14" -> <<64 + (n \div 256), n % 256>>
                           [] c = "BIG_32" -> <<128>> \o Bytes32(n)

(* RdbListPackEncode::encode_next and encode_immediate_int, which differ   *)
(* from Redis in three codes.                                              *)
lp_encode_next(c, n) == CASE c = "6BIT_STR"  -> <<128 + n>>
                          [] c = "12BIT_STR" -> <<224 + (n \div 256), n % 256>>
                          [] c = "32BIT_STR" -> <<240>> \o Bytes32(n)

lp_encode_int(c, w) == CASE c = "7BIT_UINT" -> <<w[8]>>
                         [] c = "13BIT_INT" -> <<192 + (w[7] % 16), w[8]>>
                         [] c = "16BIT_INT" -> <<241>> \o Reversed(Tail8(w, 2))
                         [] c = "24BIT_INT" -> <<242, w[6], w[8], w[7]>>
                         [] c = "32BIT_INT" -> <<243>> \o Reversed(Tail8(w, 4))
                         [] c = "64BIT_INT" -> <<244>> \o Reversed(w)

redis_encode(c, e) == CASE c = "32BIT_STR" -> <<240>> \o Reversed(Bytes32(e[2]))
                        [] c = "13BIT_INT" -> <<192 + (e[2][7] % 32), e[2][8]>>
                        [] c = "24BIT_INT" -> <<242>> \o Reversed(Tail8(e[2], 3))

CodeOf(kind, e) == CASE kind = "zip" /\ e[1] = "str"  -> znext_str_code(e[2])
                     [] kind = "zip" /\ e[1] = "int"  -> zip_int_code(e[2])
                     [] kind = "pack" /\ e[1] = "str" -> lpnext_str_code(e[2])
                     [] kind = "pack" /\ e[1] = "int" -> lpnext_imm_code(e[2])

SizeOf(kind, e) == IF kind = "zip" THEN zlink_size(CodeOf("zip", e))
                   ELSE lp_size(CodeOf("pack", e))

HeadOf(kind, writer, e) ==
  LET c == CodeOf(kind, e)
  IN  CASE kind = "zip" /\ e[1] = "str" -> zip_encode_next(c, e[2])
        [] kind = "zip" /\ e[1] = "int" ->
             zip_int_head(c, e[2]) \o Reversed(Tail8(e[2], zlink_size(c) - 1))
        [] kind = "pack" ->
             IF writer = "redis" /\ c \in {"32BIT_STR", "13BIT_INT", "24BIT_INT"}
             THEN redis_encode(c, e)
             ELSE IF e[1] = "str" THEN lp_encode_next(c, e[2]) ELSE lp_encode_int(c, e[2])

(* encode_prev: the length of the entry before, or 0. *)
encode_prev(c, n) == IF c = "LEN_8" THEN <<n>> ELSE <<254>> \o Reversed(Bytes32(n))

(* encode_back: seven bits to a byte, the last byte the least significant; *)
(* all but the first are marked.                                           *)
Power128 == <<1, 128, 16384, 2097152, 268435456>>

encode_back_Unmarked(n) ==
  LET s == lpback_size(n)
  IN  [i \in 1 .. s |-> LET v == n \div Power128[s + 1 - i]
                        IN  IF i = 1 THEN v % 256 ELSE v % 128]
encode_back(n) ==
  LET s == lpback_size(n)
  IN  [i \in 1 .. s |-> LET v == n \div Power128[s + 1 - i]
                        IN  IF i = 1 THEN v % 256 ELSE 128 + (v % 128)]

-----------------------------------------------------------------------------
VARIABLES kind,    \* "zip" or "pack"
          writer,  \* who builds the list
          written, \* history: the elements meant, with the place of their data
          starts,  \* history: where their entries begin
          enc,     \* the fields of the encoder that builds the list
          calc,    \* those of the one that calculates its size
          mem,     \* the bytes of structure
          medium,  \* "open" while the list is built, then "whole" or "bad"
          lval,    \* the value of the walk
          read     \* history: the elements the walk accepted

vars == <<kind, writer, written, starts, enc, calc, mem, medium, lval, read>>

HeaderLen(k) == IF k = "zip" THEN 10 ELSE 6

(* init() *)
NewEncode(k) == [off |-> HeaderLen(k), prev_off |-> 0, link_sz |-> 0,
                 prev |-> "ZIP_END", items |-> 0]

Init == /\ kind \in Kinds /\ writer \in Writers
        /\ written = <<>> /\ starts = <<>> /\ read = <<>>
        /\ enc = NewEncode(kind) /\ calc = NewEncode(kind)
        /\ mem = <<>> /\ medium = "open" /\ lval = FirstLval(HeaderLen(kind))

(* calc_link, calc_immediate_int *)
zip_calc_NoPrev(c, e) ==
  LET link == SizeOf("zip", e) + DataLen(e)
  IN  [c EXCEPT !.prev = "LEN_8", !.link_sz = link, !.off = @ + 1 + link]
zip_calc(c, e) ==
  LET p == zprev_code(c.link_sz + zlink_size(c.prev))
      link == SizeOf("zip", e) + DataLen(e)
  IN  [c EXCEPT !.prev = p, !.link_sz = link, !.off = @ + zlink_size(p) + link]

lp_calc(c, e) ==
  LET link == SizeOf("pack", e) + DataLen(e)
  IN  [c EXCEPT !.link_sz = link, !.items = @ + 1,
                !.off = @ + lpback_size(link) + link]

(* What append_link and append_immediate_int put in front of the data and  *)
(* behind it.                                                              *)
zip_prev(c) == LET n == c.link_sz + zlink_size(c.prev)
               IN  encode_prev(zprev_code(n), n)

Before(e) == (IF kind = "zip" THEN zip_prev(enc) ELSE <<>>) \o HeadOf(kind, writer, e)
After(e)  == IF kind = "zip" THEN <<>> ELSE encode_back(SizeOf("pack", e) + DataLen(e))

zip_append(c, e, size) ==
  [c EXCEPT !.prev_off = c.off, !.off = @ + size,
            !.prev = zprev_code(c.link_sz + zlink_size(c.prev)),
            !.link_sz = SizeOf("zip", e) + DataLen(e)]
lp_append(c, e, size) ==
  [c EXCEPT !.off = @ + size, !.items = @ + 1, !.link_sz = SizeOf("pack", e) + DataLen(e)]

append(e) ==
  LET data == enc.off + Len(Before(e))
      tail == data + DataLen(e)
      size == Len(Before(e)) + DataLen(e) + Len(After(e))
  IN  /\ medium = "open" /\ Len(written) < MaxElements
      /\ mem' = Store(Store(mem, enc.off, Before(e)), tail, After(e))
      /\ enc' = IF kind = "zip" THEN zip_append(enc, e, size) ELSE lp_append(enc, e, size)
      /\ calc' = IF kind = "zip" THEN zip_calc(calc, e) ELSE lp_calc(calc, e)
      /\ written' = Append(written, IF e[1] = "int" THEN e ELSE <<"str", data, e[2]>>)
      /\ starts' = Append(starts, enc.off)
      /\ UNCHANGED <<kind, writer, medium, lval, read>>

(* append_end() and calc_end(): the mark behind the elements, then the     *)
(* header in front of them.                                                *)
Capped(n)  == IF n <= 65535 THEN n ELSE 65535
Count16(n) == <<Capped(n) % 256, Capped(n) \div 256>>
Header(c) == Reversed(Bytes32(c.off)) \o
             IF kind = "zip" THEN Reversed(Bytes32(c.prev_off)) \o Count16(Len(written))
             ELSE Count16(c.items)

End == /\ medium = "open" /\ medium' = "whole"
       /\ enc' = [enc EXCEPT !.off = @ + 1]
       /\ calc' = [calc EXCEPT !.off = @ + 1]
       /\ mem' = Store(Store(mem, enc.off, <<255>>), 0, Header(enc'))
       /\ UNCHANGED <<kind, writer, written, starts, lval, read>>

(* A byte of structure behind the header is overwritten.  (Lists of the    *)
(* most elements or of more than MaxDamaged bytes are kept whole.)         *)
Damage(a, b) == /\ medium = "whole" /\ read = <<>> /\ lval.ok
                /\ Len(written) < MaxElements /\ enc.off <= MaxDamaged
                /\ a >= HeaderLen(kind) /\ mem[a] # b
                /\ medium' = "bad" /\ mem' = [mem EXCEPT ![a] = b]
                /\ UNCHANGED <<kind, writer, written, starts, enc, calc, lval, read>>

(* RdbZipList::init and RdbListPack::init, on the header. *)
zlbytes == Length32(Little(mem, 0, 4))
zltail  == Length32(Little(mem, 4, 4))
zllen   == IF kind = "zip" THEN 256 * At(mem, 9) + At(mem, 8)
           ELSE 256 * At(mem, 5) + At(mem, 4)

(* first() and next(), as long as they return true. *)
Walk == /\ medium # "open" /\ lval.ok
        /\ lval' = next(kind, mem, zlbytes, lval)
        /\ read' = IF lval'.ok THEN Append(read, lval'.val) ELSE read
        /\ UNCHANGED <<kind, writer, written, starts, enc, calc, mem, medium>>

Next == \/ \E e \in Elements[kind][writer] : append(e)
        \/ End
        \/ \E a \in DOMAIN mem, b \in Damages : Damage(a, b)
        \/ Walk

Spec == Init /\ [][Next]_vars

-----------------------------------------------------------------------------
Ended == medium # "open" /\ ~ lval.ok

(* Type invariant. *)
TypeOK ==
  /\ kind \in Kinds /\ writer \in Writers /\ medium \in {"open", "whole", "bad"}
  /\ \A a \in DOMAIN mem : a \in Nat /\ mem[a] \in Byte
  /\ lval.ok \in BOOLEAN /\ lval.entry \in Nat /\ lval.entry_len \in Nat
  /\ \A i \in 1 .. Len(read) : \/ read[i][1] = "int" /\ read[i][2] \in Word
                               \/ read[i][1] = "str" /\ read[i][3] \in Nat

(* The elements read are those written: every integer with its value,      *)
(* every string at its place and of its length, in order.                  *)
ReadsBack == medium = "whole" => /\ Len(read) <= Len(written)
                                 /\ read = SubSeq(written, 1, Len(read))

(* A whole list is walked to its last element, and its header counts them. *)
AllRead == medium = "whole" /\ Ended => read = written /\ zllen = Len(written)

(* The size calculated before a list is built is the size it has: callers  *)
(* allocate with the first and write with the second.                      *)
RoomAgrees == writer = "repo" => calc.off = enc.off

(* From the last entry, the links lead back over every entry to the first. *)
(* In a ziplist the link is the first field of the entry; in a listpack it *)
(* is read from its last byte backwards, up to one that is not marked, but *)
(* no more than five.                                                      *)
ZipLink(a) == zlink_length(zlink_prev(At(mem, a)), mem, a)
LpLink(z) ==
  LET byte(i) == At(mem, z - i + 1)
      s == CHOOSE s \in 1 .. 5 : (byte(s) < 128 \/ s = 5) /\ \A i \in 1 .. s - 1 : byte(i) >= 128
      part(i) == IF i <= s THEN (byte(i) % 128) * Power128[i] ELSE 0
  IN  [size |-> s, len |-> part(1) + part(2) + part(3) + part(4) + part(5)]
LinksBack ==
  medium = "whole" /\ written # <<>> =>
    LET n == Len(starts)
        stop(i) == IF i < n THEN starts[i + 1] ELSE zlbytes - 1
    IN  IF kind = "zip"
        THEN /\ zltail = starts[n]
             /\ ZipLink(starts[1]) = 0
             /\ \A i \in 2 .. n : starts[i] - ZipLink(starts[i]) = starts[i - 1]
        ELSE \A i \in 1 .. n : LET l == LpLink(stop(i) - 1)
                               IN  stop(i) - l.size - l.len = starts[i]

(* Whatever the links say, no element is accepted that is not inside the   *)
(* list, as its header bounds it.                                          *)
Inside == medium # "open" /\ lval.ok =>
            /\ lval.entry >= HeaderLen(kind) /\ lval.entry + lval.entry_len <= zlbytes
            /\ lval.val[1] = "str" => lval.val[2] + lval.val[3] <= zlbytes

(* Nor is an element accepted twice: the walk always moves on, and ends.   *)
Advances == [][read # <<>> /\ read' # read => lval'.entry > lval.entry]_vars
=============================================================================
