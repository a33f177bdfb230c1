--------------------------- MODULE RdbPackedProofs ---------------------------
(***************************************************************************)
(* The room calculated for a list is the room it takes; and whatever bytes *)
(* a list holds, the walk over it moves on and stays inside.               *)
(***************************************************************************)
EXTENDS RdbPacked, SequenceTheorems, TLAPS

(* The bytes h are in memory from address a on. *)
HeldAt(m, a, h) == \A k \in 1 .. Len(h) : At(m, a + k - 1) = h[k]

(* A word is its eight bytes. *)
LEMMA WordBytes ==
  ASSUME NEW w \in Word
  PROVE  /\ \A k \in 1 .. 8 : w[k] \in Byte
         /\ w = [i \in 1 .. 8 |-> w[i]]
  BY DEF Word

(* The lower n bytes of a word. *)
LEMMA TailBytes ==
  ASSUME NEW w \in Word, NEW n \in 0 .. 8
  PROVE  /\ Len(Tail8(w, n)) = n
         /\ Tail8(w, n) \in Seq(Byte)
         /\ \A k \in 1 .. n : Tail8(w, n)[k] = w[8 - n + k]
  <1>1. \A k \in (9 - n) .. 8 : w[k] \in Byte
    BY WordBytes
  <1>2. /\ SubSeq(w, 9 - n, 8) \in Seq(Byte)
        /\ Len(SubSeq(w, 9 - n, 8)) = IF 9 - n <= 8 THEN 8 - (9 - n) + 1 ELSE 0
        /\ \A k \in 1 .. (8 - (9 - n) + 1) : SubSeq(w, 9 - n, 8)[k] = w[(9 - n) + k - 1]
    BY <1>1, 9 - n \in Int, 8 \in Int, SubSeqProperties
  <1> QED  BY <1>2 DEF Tail8

(* Bytes in the other order are as many, each at the other end. *)
LEMMA ReversedBytes ==
  ASSUME NEW S, NEW s \in Seq(S)
  PROVE  /\ Reversed(s) \in Seq(S) /\ Len(Reversed(s)) = Len(s)
         /\ \A k \in 1 .. Len(s) : Reversed(s)[k] = s[Len(s) + 1 - k]
  BY DEF Reversed

(* What is written backwards is read back by Little. *)
LEMMA LittleReadsBack ==
  ASSUME NEW S, NEW s \in Seq(S), NEW m, NEW a \in Int,
         HeldAt(m, a, Reversed(s))
  PROVE  Little(m, a, Len(s)) = s
  <1>1. \A i \in 1 .. Len(s) : At(m, a + Len(s) - i) = s[i]
    <2> SUFFICES ASSUME NEW i \in 1 .. Len(s) PROVE At(m, a + Len(s) - i) = s[i]
      OBVIOUS
    <2> DEFINE k == Len(s) + 1 - i
    <2>1. k \in 1 .. Len(s) /\ a + k - 1 = a + Len(s) - i /\ Len(s) + 1 - k = i
      OBVIOUS
    <2>2. Len(Reversed(s)) = Len(s) /\ Reversed(s)[k] = s[Len(s) + 1 - k]
      BY <2>1, ReversedBytes
    <2>3. At(m, a + k - 1) = Reversed(s)[k]
      BY <2>1, <2>2 DEF HeldAt
    <2> QED  BY <2>1, <2>2, <2>3
  <1>2. s = [i \in 1 .. Len(s) |-> s[i]]
    OBVIOUS
  <1> QED  BY <1>1, <1>2 DEF Little

-----------------------------------------------------------------------------
(* The sizes that are calculated are the sizes written. *)

(* The lower n bytes of a word, least significant first, are n bytes. *)
LEMMA ReversedTail ==
  ASSUME NEW w \in Word, NEW n \in 0 .. 8
  PROVE  Reversed(Tail8(w, n)) \in Seq(Byte) /\ Len(Reversed(Tail8(w, n))) = n
  BY TailBytes, ReversedBytes

(* The bytes that codes and marks are. *)
LEMMA CodeBytes ==
  {0, 128, 192, 208, 224, 240, 241, 242, 243, 244, 254, 255} \subseteq Byte
  BY DEF Byte

(* A few bytes. *)
LEMMA ByteSeqs ==
  \A x, y, z, u \in Byte : /\ <<x>> \in Seq(Byte) /\ Len(<<x>>) = 1
                           /\ <<x, y>> \in Seq(Byte) /\ Len(<<x, y>>) = 2
                           /\ <<x, y, z, u>> \in Seq(Byte) /\ Len(<<x, y, z, u>>) = 4
  OBVIOUS

(* A code of one byte and what follows it. *)
LEMMA HeadAndRest ==
  ASSUME NEW S, NEW h \in Seq(S), NEW s \in Seq(S), Len(h) = 1
  PROVE  h \o s \in Seq(S) /\ Len(h \o s) = 1 + Len(s)
  <1>1. h \o s \in Seq(S) /\ Len(h \o s) = Len(h) + Len(s)
    BY ConcatProperties, Zenon
  <1> QED  BY <1>1

(* A length of 32 bits is four bytes. *)
LEMMA Bytes32Seq ==
  ASSUME NEW n \in Nat
  PROVE  /\ Bytes32(n) \in Seq(Byte) /\ Len(Bytes32(n)) = 4
         /\ Reversed(Bytes32(n)) \in Seq(Byte) /\ Len(Reversed(Bytes32(n))) = 4
  <1>1. Bytes32(n) \in Seq(Byte) /\ Len(Bytes32(n)) = 4
    <2>1. CASE n >= Beyond
      <3>1. Bytes32(n) = <<255, 255, 255, 255>> /\ 255 \in Byte
        BY <2>1 DEF Bytes32, Byte
      <3> QED  BY <3>1, ByteSeqs
    <2>2. CASE ~ n >= Beyond
      <3> DEFINE x == n \div 65536
                 y == (n \div 256) % 256
                 z == n % 256
      <3>1. Bytes32(n) = <<0, x, y, z>>
        BY <2>2 DEF Bytes32
      <3>2. 0 \in Byte /\ x \in Byte /\ y \in Byte /\ z \in Byte
        BY <2>2 DEF Byte, Beyond
      <3> HIDE DEF x, y, z
      <3> QED  BY <3>1, <3>2, ByteSeqs
    <2> QED  BY <2>1, <2>2
  <1> QED  BY <1>1, ReversedBytes

(* RdbZipEncode::encode_next() writes for a string of any length as many   *)
(* bytes as zlink_size() says its code has.                                *)
THEOREM ZipStrSize ==
  ASSUME NEW n \in Nat
  PROVE  /\ zip_encode_next(znext_str_code(n), n) \in Seq(Byte)
         /\ Len(zip_encode_next(znext_str_code(n), n)) = zlink_size(znext_str_code(n))
  <1>1. CASE n < 64
    <2>1. znext_str_code(n) = "LEN_6" /\ n \in Byte
      BY <1>1 DEF znext_str_code, Byte
    <2>2. zip_encode_next("LEN_6", n) = <<n>> /\ zlink_size("LEN_6") = 1
      BY DEF zip_encode_next, zlink_size
    <2> QED  BY <2>1, <2>2, ByteSeqs
  <1>2. CASE 64 <= n /\ n < 16384
    <2> DEFINE x == 64 + (n \div 256)
               y == n % 256
    <2>1. znext_str_code(n) = "BIG_14" /\ x \in Byte /\ y \in Byte
      BY <1>2 DEF znext_str_code, Byte
    <2>2. zip_encode_next("BIG_14", n) = <<x, y>> /\ zlink_size("BIG_14") = 2
      BY DEF zip_encode_next, zlink_size
    <2> HIDE DEF x, y
    <2> QED  BY <2>1, <2>2, ByteSeqs
  <1>3. CASE ~ n < 16384
    <2>1. znext_str_code(n) = "BIG_32"
      BY <1>3 DEF znext_str_code
    <2>2. <<128>> \in Seq(Byte) /\ Len(<<128>>) = 1
      BY ByteSeqs, CodeBytes
    <2> DEFINE h == <<128>>
               t == Bytes32(n)
    <2>3. h \in Seq(Byte) /\ Len(h) = 1 /\ t \in Seq(Byte) /\ Len(t) = 4
      BY <2>2, Bytes32Seq
    <2>4. zip_encode_next("BIG_32", n) = h \o t /\ zlink_size("BIG_32") = 5
      BY DEF zip_encode_next, zlink_size
    <2> HIDE DEF h, t
    <2>5. h \o t \in Seq(Byte) /\ Len(h \o t) = 1 + Len(t)
      BY <2>3, HeadAndRest, Zenon
    <2>6. Len(h \o t) = 5
      BY <2>3, <2>5
    <2> QED  BY <2>1, <2>4, <2>5, <2>6, Zenon
  <1> QED  BY <1>1, <1>2, <1>3

(* What a ziplist holds for any 64 bit integer is of the size zlink_size() *)
(* says its code has.                                                      *)
THEOREM ZipIntSize ==
  ASSUME NEW w \in Word
  PROVE  LET c == zip_int_code(w)
             h == zip_int_head(c, w) \o Reversed(Tail8(w, zlink_size(c) - 1))
         IN  h \in Seq(Byte) /\ Len(h) = zlink_size(c)
  <1> DEFINE c == zip_int_code(w)
  <1>1. c \in {"IMMED_4", "IMMED_8", "IMMED_16", "IMMED_24", "IMMED_32", "IMMED_64"}
    BY DEF zip_int_code
  <1>2. zip_int_head(c, w) \in Seq(Byte) /\ Len(zip_int_head(c, w)) = 1
    <2>1. \E x \in Byte : zip_int_head(c, w) = <<x>>
      <3>1. w[8] \in Byte /\ (c = "IMMED_4" => w[8] <= 12)
        BY WordBytes DEF zip_int_code
      <3>2. c = "IMMED_4" => 241 + w[8] \in Byte
        BY <3>1 DEF Byte
      <3>3. 254 \in Byte /\ 192 \in Byte /\ 240 \in Byte /\ 208 \in Byte /\ 224 \in Byte
        BY DEF Byte
      <3> HIDE DEF c
      <3> QED  BY <1>1, <3>2, <3>3 DEF zip_int_head
    <2> QED  BY <2>1, ByteSeqs
  <1>3. zlink_size(c) - 1 \in 0 .. 8 /\ zlink_size(c) \in Int
    <2> HIDE DEF c
    <2> QED  BY <1>1 DEF zlink_size
  <1>4. /\ Reversed(Tail8(w, zlink_size(c) - 1)) \in Seq(Byte)
        /\ Len(Reversed(Tail8(w, zlink_size(c) - 1))) = zlink_size(c) - 1
    BY <1>3, ReversedTail
  <1> HIDE DEF c
  <1> DEFINE r == Reversed(Tail8(w, zlink_size(c) - 1))
  <1>5. zip_int_head(c, w) \o r \in Seq(Byte) /\ Len(zip_int_head(c, w) \o r) = 1 + Len(r)
    <2> HIDE DEF r
    <2>1. r \in Seq(Byte)
      BY <1>4 DEF r
    <2> QED  BY <1>2, <2>1, HeadAndRest, Zenon
  <1>6. 1 + Len(r) = zlink_size(c)
    <2> DEFINE n == zlink_size(c)
    <2>1. Len(r) = n - 1 /\ n \in Int
      BY <1>3, <1>4
    <2> HIDE DEF n, r
    <2>2. 1 + Len(r) = n
      BY <2>1
    <2> QED  BY <2>2 DEF n
  <1> QED  BY <1>5, <1>6 DEF c

(* RdbListPackEncode::encode_next() writes for a string of any length as   *)
(* many bytes as lp_size() says its code has.                              *)
THEOREM PackStrSize ==
  ASSUME NEW n \in Nat
  PROVE  /\ lp_encode_next(lpnext_str_code(n), n) \in Seq(Byte)
         /\ Len(lp_encode_next(lpnext_str_code(n), n)) = lp_size(lpnext_str_code(n))
  <1>1. CASE n < 64
    <2>1. lpnext_str_code(n) = "6BIT_STR" /\ 128 + n \in Byte
      BY <1>1 DEF lpnext_str_code, Byte
    <2>2. lp_encode_next("6BIT_STR", n) = <<128 + n>> /\ lp_size("6BIT_STR") = 1
      BY DEF lp_encode_next, lp_size
    <2>3. <<128 + n>> \in Seq(Byte) /\ Len(<<128 + n>>) = 1
      BY <2>1, ByteSeqs
    <2> QED  BY <2>1, <2>2, <2>3, Zenon
  <1>2. CASE 64 <= n /\ n < 4096
    <2> DEFINE x == 224 + (n \div 256)
               y == n % 256
    <2>1. lpnext_str_code(n) = "12BIT_STR" /\ x \in Byte /\ y \in Byte
      BY <1>2 DEF lpnext_str_code, Byte
    <2>2. lp_encode_next("12BIT_STR", n) = <<x, y>> /\ lp_size("12BIT_STR") = 2
      BY DEF lp_encode_next, lp_size
    <2> HIDE DEF x, y
    <2>3. <<x, y>> \in Seq(Byte) /\ Len(<<x, y>>) = 2
      BY <2>1, ByteSeqs
    <2> QED  BY <2>1, <2>2, <2>3, Zenon
  <1>3. CASE ~ n < 4096
    <2>1. lpnext_str_code(n) = "32BIT_STR"
      BY <1>3 DEF lpnext_str_code
    <2>2. <<240>> \in Seq(Byte) /\ Len(<<240>>) = 1
      BY ByteSeqs, CodeBytes
    <2> DEFINE h == <<240>>
               t == Bytes32(n)
    <2>3. h \o t \in Seq(Byte) /\ Len(h \o t) = 1 + Len(t)
      <3>1. h \in Seq(Byte) /\ Len(h) = 1 /\ t \in Seq(Byte)
        BY <2>2, Bytes32Seq
      <3> HIDE DEF h, t
      <3> QED  BY <3>1, HeadAndRest, Zenon
    <2>4. Len(t) = 4
      BY Bytes32Seq
    <2>5. lp_encode_next(lpnext_str_code(n), n) = h \o t
      <3>1. lp_encode_next("32BIT_STR", n) = <<240>> \o Bytes32(n)
        BY DEF lp_encode_next
      <3> QED  BY <2>1, <3>1, Zenon
    <2>6. lp_size(lpnext_str_code(n)) = 5
      BY <2>1 DEF lp_size
    <2> HIDE DEF h, t
    <2>7. Len(h \o t) = 5
      BY <2>3, <2>4
    <2> QED  BY <2>3, <2>5, <2>6, <2>7, Zenon
  <1> QED  BY <1>1, <1>2, <1>3

(* A word is a sequence of eight bytes. *)
LEMMA WordSeq ==
  ASSUME NEW w \in Word
  PROVE  w \in Seq(Byte) /\ Len(w) = 8
  <1>1. w \in Seq(Byte)
    <2>1. w = [i \in 1 .. 8 |-> w[i]] /\ \A i \in 1 .. 8 : w[i] \in Byte
      BY WordBytes
    <2>2. [i \in 1 .. 8 |-> w[i]] \in Seq(Byte)
      BY <2>1
    <2> QED  BY <2>1, <2>2
  <1>2. Len(w) = 8
    BY <1>1, LenProperties DEF Word
  <1> QED  BY <1>1, <1>2

(* Each integer code of a listpack, for any word. *)
LEMMA PackIntCodes ==
  ASSUME NEW w \in Word,
         NEW c \in {"7BIT_UINT", "13BIT_INT", "16BIT_INT", "24BIT_INT",
                    "32BIT_INT", "64BIT_INT"}
  PROVE  lp_encode_int(c, w) \in Seq(Byte) /\ Len(lp_encode_int(c, w)) = lp_size(c)
  <1>1. w[6] \in Byte /\ w[7] \in Byte /\ w[8] \in Byte
    BY WordBytes
  <1>3. CASE c \in {"7BIT_UINT", "13BIT_INT", "24BIT_INT"}
    <2>1. CASE c = "7BIT_UINT"
      <3>1. lp_encode_int("7BIT_UINT", w) = <<w[8]>> /\ lp_size("7BIT_UINT") = 1
        BY DEF lp_encode_int, lp_size
      <3> QED  BY <1>1, <2>1, <3>1, ByteSeqs
    <2>2. CASE c = "13BIT_INT"
      <3> DEFINE x == 192 + (w[7] % 16)
      <3>1. lp_encode_int("13BIT_INT", w) = <<x, w[8]>> /\ lp_size("13BIT_INT") = 2
        BY DEF lp_encode_int, lp_size
      <3>2. x \in Byte
        BY <1>1 DEF Byte
      <3> HIDE DEF x
      <3> QED  BY <1>1, <2>2, <3>1, <3>2, ByteSeqs
    <2>3. CASE c = "24BIT_INT"
      <3>1. lp_encode_int("24BIT_INT", w) = <<242, w[6], w[8], w[7]>> /\ lp_size("24BIT_INT") = 4
        BY DEF lp_encode_int, lp_size
      <3>2. 242 \in Byte
        BY CodeBytes
      <3>3. \A x \in Byte : /\ <<x, w[6], w[8], w[7]>> \in Seq(Byte)
                            /\ Len(<<x, w[6], w[8], w[7]>>) = 4
        BY <1>1, ByteSeqs
      <3> QED  BY <2>3, <3>1, <3>2, <3>3
    <2> QED  BY <1>3, <2>1, <2>2, <2>3
  <1>4. CASE c \in {"16BIT_INT", "32BIT_INT", "64BIT_INT"}
    <2> DEFINE Is(h, r) == /\ lp_encode_int(c, w) = <<h>> \o r
                           /\ r \in Seq(Byte) /\ lp_size(c) = 1 + Len(r)
    <2>1. \E h \in Byte, r \in Seq(Byte) : Is(h, r)
      <3>1. /\ Reversed(w) \in Seq(Byte) /\ Len(Reversed(w)) = 8
            /\ Reversed(Tail8(w, 2)) \in Seq(Byte) /\ Len(Reversed(Tail8(w, 2))) = 2
            /\ Reversed(Tail8(w, 4)) \in Seq(Byte) /\ Len(Reversed(Tail8(w, 4))) = 4
        BY WordSeq, ReversedBytes, ReversedTail
      <3>2. 241 \in Byte /\ 243 \in Byte /\ 244 \in Byte
        BY CodeBytes
      <3>3. CASE c = "16BIT_INT"
        <4>1. lp_encode_int(c, w) = <<241>> \o Reversed(Tail8(w, 2))
          BY <3>3 DEF lp_encode_int
        <4>2. lp_size(c) = 1 + Len(Reversed(Tail8(w, 2)))
          <5>1. lp_size(c) = 1 + 2
            BY <3>3 DEF lp_size
          <5> QED  BY <3>1, <5>1, Zenon
        <4>3. Is(241, Reversed(Tail8(w, 2)))
          BY <3>1, <4>1, <4>2, Zenon
        <4> HIDE DEF Is
        <4> QED  BY <4>3, <3>1, <3>2
      <3>4. CASE c = "32BIT_INT"
        <4>1. lp_encode_int(c, w) = <<243>> \o Reversed(Tail8(w, 4))
          BY <3>4 DEF lp_encode_int
        <4>2. lp_size(c) = 1 + Len(Reversed(Tail8(w, 4)))
          <5>1. lp_size(c) = 1 + 4
            BY <3>4 DEF lp_size
          <5> QED  BY <3>1, <5>1, Zenon
        <4>3. Is(243, Reversed(Tail8(w, 4)))
          BY <3>1, <4>1, <4>2, Zenon
        <4> HIDE DEF Is
        <4> QED  BY <4>3, <3>1, <3>2
      <3>5. CASE c = "64BIT_INT"
        <4>1. lp_encode_int(c, w) = <<244>> \o Reversed(w)
          BY <3>5 DEF lp_encode_int
        <4>2. lp_size(c) = 1 + Len(Reversed(w))
          BY <3>1, <3>5 DEF lp_size
        <4>3. Is(244, Reversed(w))
          BY <3>1, <4>1, <4>2, Zenon
        <4> HIDE DEF Is
        <4> QED  BY <4>3, <3>1, <3>2
      <3> QED  BY <1>4, <3>3, <3>4, <3>5
    <2>2. PICK h \in Byte, r \in Seq(Byte) : Is(h, r)
      BY <2>1, Zenon
    <2>3. <<h>> \in Seq(Byte) /\ Len(<<h>>) = 1
      BY ByteSeqs
    <2>4. <<h>> \o r \in Seq(Byte) /\ Len(<<h>> \o r) = 1 + Len(r)
      BY <2>3, HeadAndRest, Zenon
    <2> QED  BY <2>2, <2>4
  <1> QED  BY <1>3, <1>4

(* RdbListPackEncode::encode_immediate_int() writes for any 64 bit integer *)
(* as many bytes as lp_size() says its code has.                           *)
THEOREM PackIntSize ==
  ASSUME NEW w \in Word
  PROVE  /\ lp_encode_int(lpnext_imm_code(w), w) \in Seq(Byte)
         /\ Len(lp_encode_int(lpnext_imm_code(w), w)) = lp_size(lpnext_imm_code(w))
  BY PackIntCodes DEF lpnext_imm_code

(* The link to the entry before has the size of its code. *)
LEMMA PrevSize ==
  ASSUME NEW n \in Nat
  PROVE  /\ zprev_code(n) \in {"LEN_8", "LEN_32"}
         /\ encode_prev(zprev_code(n), n) \in Seq(Byte)
         /\ Len(encode_prev(zprev_code(n), n)) = zlink_size(zprev_code(n))
  <1>1. CASE zprev_code(n) = "LEN_8"
    <2>1. n \in Byte
      BY <1>1 DEF zprev_code, Byte
    <2>2. encode_prev("LEN_8", n) = <<n>> /\ zlink_size("LEN_8") = 1
      BY DEF encode_prev, zlink_size
    <2> QED  BY <1>1, <2>1, <2>2, ByteSeqs
  <1>2. CASE zprev_code(n) = "LEN_32"
    <2> DEFINE h == <<254>>
               t == Reversed(Bytes32(n))
    <2>1. h \in Seq(Byte) /\ Len(h) = 1
      BY ByteSeqs, CodeBytes
    <2>2. t \in Seq(Byte) /\ Len(t) = 4
      BY Bytes32Seq
    <2>3. encode_prev(zprev_code(n), n) = h \o t
      BY <1>2 DEF encode_prev
    <2>4. zlink_size(zprev_code(n)) = 5
      BY <1>2 DEF zlink_size
    <2> HIDE DEF h, t
    <2>5. h \o t \in Seq(Byte) /\ Len(h \o t) = 1 + Len(t)
      BY <2>1, <2>2, HeadAndRest, Zenon
    <2>6. Len(h \o t) = 5
      BY <2>2, <2>5
    <2> QED  BY <1>2, <2>3, <2>4, <2>5, <2>6, Zenon
  <1> QED  BY <1>1, <1>2 DEF zprev_code

(* The link behind an entry has the size calculated for it. *)
LEMMA BackSize ==
  ASSUME NEW n \in Nat
  PROVE  lpback_size(n) \in 1 .. 5 /\ Len(encode_back(n)) = lpback_size(n)
  <1>1. lpback_size(n) \in 1 .. 5
    BY DEF lpback_size
  <1> HIDE DEF lpback_size
  <1> QED  BY <1>1 DEF encode_back

-----------------------------------------------------------------------------
(* What is calculated is what is built. *)

(* The codes that Redis writes otherwise have the same length. *)
LEMMA RedisSize ==
  ASSUME NEW e,
         NEW c \in {"32BIT_STR", "13BIT_INT", "24BIT_INT"},
         c = "32BIT_STR" => e[2] \in Nat,
         c # "32BIT_STR" => e[2] \in Word
  PROVE  redis_encode(c, e) \in Seq(Byte) /\ Len(redis_encode(c, e)) = lp_size(c)
  <1>1. CASE c = "13BIT_INT"
    <2>1. e[2][7] \in Byte /\ e[2][8] \in Byte
      BY <1>1, WordBytes
    <2> DEFINE x == 192 + (e[2][7] % 32)
               y == e[2][8]
    <2>2. x \in Byte /\ y \in Byte
      BY <2>1 DEF Byte
    <2>3. redis_encode(c, e) = <<x, y>> /\ lp_size(c) = 2
      BY <1>1 DEF redis_encode, lp_size
    <2> HIDE DEF x, y
    <2> QED  BY <2>2, <2>3, ByteSeqs
  <1>2. CASE c \in {"32BIT_STR", "24BIT_INT"}
    <2> DEFINE Is(h, r, n) == /\ redis_encode(c, e) = <<h>> \o r /\ Len(r) = n
                              /\ lp_size(c) = 1 + n
    <2>1. \E h \in Byte, r \in Seq(Byte), n \in Nat : Is(h, r, n)
      <3>1. CASE c = "32BIT_STR"
        <4>1. Reversed(Bytes32(e[2])) \in Seq(Byte) /\ Len(Reversed(Bytes32(e[2]))) = 4
          BY <3>1, Bytes32Seq
        <4>2. redis_encode(c, e) = <<240>> \o Reversed(Bytes32(e[2])) /\ lp_size(c) = 1 + 4
          BY <3>1 DEF redis_encode, lp_size
        <4>3. Is(240, Reversed(Bytes32(e[2])), 4)
          BY <4>1, <4>2, Zenon
        <4> HIDE DEF Is
        <4> QED  BY <4>1, <4>3, CodeBytes, 4 \in Nat
      <3>2. CASE c = "24BIT_INT"
        <4>1. /\ Reversed(Tail8(e[2], 3)) \in Seq(Byte)
              /\ Len(Reversed(Tail8(e[2], 3))) = 3
          BY <3>2, ReversedTail, 3 \in 0 .. 8
        <4>2. redis_encode(c, e) = <<242>> \o Reversed(Tail8(e[2], 3)) /\ lp_size(c) = 1 + 3
          BY <3>2 DEF redis_encode, lp_size
        <4>3. Is(242, Reversed(Tail8(e[2], 3)), 3)
          BY <4>1, <4>2, Zenon
        <4> HIDE DEF Is
        <4> QED  BY <4>1, <4>3, CodeBytes, 3 \in Nat
      <3> QED  BY <1>2, <3>1, <3>2
    <2>2. PICK h \in Byte, r \in Seq(Byte), n \in Nat : Is(h, r, n)
      BY <2>1, Zenon
    <2>3. <<h>> \in Seq(Byte) /\ Len(<<h>>) = 1
      BY ByteSeqs
    <2>4. <<h>> \o r \in Seq(Byte) /\ Len(<<h>> \o r) = 1 + Len(r)
      BY <2>3, HeadAndRest, Zenon
    <2> QED  BY <2>2, <2>4
  <1> QED  BY <1>1, <1>2

(* An element of a list of this kind. *)
LEMMA ElementForms ==
  ASSUME NEW k \in Kinds, NEW w \in Writers, NEW e \in Elements[k][w]
  PROVE  /\ e = <<e[1], e[2]>>
         /\ \/ e[1] = "str" /\ e[2] \in Nat
            \/ e[1] = "int" /\ e[2] \in Word
  <1>1. e \in ({"str"} \X Nat) \cup ({"int"} \X Word)
    BY PackedAssumption
  <1> QED  BY <1>1

(* What is written ahead of the data of any element has the size of its    *)
(* code, whoever writes it.                                                *)
LEMMA SizesAgree ==
  ASSUME NEW k \in Kinds, NEW w \in Writers, NEW e \in Elements[k][w]
  PROVE  /\ SizeOf(k, e) \in Nat /\ DataLen(e) \in Nat
         /\ HeadOf(k, w, e) \in Seq(Byte) /\ Len(HeadOf(k, w, e)) = SizeOf(k, e)
  <1>1. DataLen(e) \in Nat
    BY ElementForms DEF DataLen
  <1>2. \A c \in {"LEN_6", "BIG_14", "BIG_32", "IMMED_4", "IMMED_8", "IMMED_16",
                 "IMMED_24", "IMMED_32", "IMMED_64"} : zlink_size(c) \in Nat
    BY DEF zlink_size
  <1>3. \A c \in {"7BIT_UINT", "6BIT_STR", "13BIT_INT", "12BIT_STR", "16BIT_INT",
                 "24BIT_INT", "32BIT_STR", "32BIT_INT", "64BIT_INT"} : lp_size(c) \in Nat
    BY DEF lp_size
  <1>4. CASE k = "zip" /\ e[1] = "str"
    <2>1. e[2] \in Nat
      BY <1>4, ElementForms
    <2>2. CodeOf(k, e) = znext_str_code(e[2])
      BY <1>4 DEF CodeOf
    <2>3. HeadOf(k, w, e) = zip_encode_next(znext_str_code(e[2]), e[2])
      BY <1>4, <2>2 DEF HeadOf
    <2>4. SizeOf(k, e) = zlink_size(znext_str_code(e[2]))
      BY <1>4, <2>2 DEF SizeOf
    <2>5. zlink_size(znext_str_code(e[2])) \in Nat
      BY <1>2 DEF znext_str_code
    <2> QED  BY <1>1, <2>1, <2>3, <2>4, <2>5, ZipStrSize, Zenon
  <1>5. CASE k = "zip" /\ e[1] = "int"
    <2>1. e[2] \in Word
      BY <1>5, ElementForms
    <2>2. CodeOf(k, e) = zip_int_code(e[2])
      BY <1>5 DEF CodeOf
    <2>3. HeadOf(k, w, e) = zip_int_head(zip_int_code(e[2]), e[2]) \o
                            Reversed(Tail8(e[2], zlink_size(zip_int_code(e[2])) - 1))
      BY <1>5, <2>2 DEF HeadOf
    <2>4. SizeOf(k, e) = zlink_size(zip_int_code(e[2]))
      BY <1>5, <2>2 DEF SizeOf
    <2>5. zlink_size(zip_int_code(e[2])) \in Nat
      BY <1>2 DEF zip_int_code
    <2> QED  BY <1>1, <2>1, <2>3, <2>4, <2>5, ZipIntSize, Zenon
  <1>6. CASE k = "pack" /\ e[1] = "str"
    <2>1. e[2] \in Nat
      BY <1>6, ElementForms
    <2>2. CodeOf(k, e) = lpnext_str_code(e[2])
      BY <1>6 DEF CodeOf
    <2>3. \/ HeadOf(k, w, e) = lp_encode_next(lpnext_str_code(e[2]), e[2])
          \/ /\ HeadOf(k, w, e) = redis_encode(lpnext_str_code(e[2]), e)
             /\ lpnext_str_code(e[2]) \in {"32BIT_STR", "13BIT_INT", "24BIT_INT"}
             /\ lpnext_str_code(e[2]) = "32BIT_STR"
      BY <1>6, <2>2 DEF HeadOf, lpnext_str_code
    <2>4. SizeOf(k, e) = lp_size(lpnext_str_code(e[2]))
      BY <1>6, <2>2 DEF SizeOf
    <2>5. lp_size(lpnext_str_code(e[2])) \in Nat
      BY <1>3 DEF lpnext_str_code
    <2> QED  BY <1>1, <2>1, <2>3, <2>4, <2>5, PackStrSize, RedisSize
  <1>7. CASE k = "pack" /\ e[1] = "int"
    <2>1. e[2] \in Word
      BY <1>7, ElementForms
    <2>2. CodeOf(k, e) = lpnext_imm_code(e[2])
      BY <1>7 DEF CodeOf
    <2>3. \/ HeadOf(k, w, e) = lp_encode_int(lpnext_imm_code(e[2]), e[2])
          \/ /\ HeadOf(k, w, e) = redis_encode(lpnext_imm_code(e[2]), e)
             /\ lpnext_imm_code(e[2]) \in {"32BIT_STR", "13BIT_INT", "24BIT_INT"}
             /\ lpnext_imm_code(e[2]) # "32BIT_STR"
      BY <1>7, <2>2 DEF HeadOf, lpnext_imm_code
    <2>4. SizeOf(k, e) = lp_size(lpnext_imm_code(e[2]))
      BY <1>7, <2>2 DEF SizeOf
    <2>5. lp_size(lpnext_imm_code(e[2])) \in Nat
      BY <1>3 DEF lpnext_imm_code
    <2> QED  BY <1>1, <2>1, <2>3, <2>4, <2>5, PackIntSize, RedisSize
  <1> QED  BY <1>4, <1>5, <1>6, <1>7, ElementForms DEF Kinds

(* The fields of an encoder that the next link is made from. *)
Encoder == [off : Nat, prev_off : Nat, link_sz : Nat,
            prev : {"ZIP_END", "LEN_8", "LEN_32"}, items : Nat]

(* Both encoders have come to the same offset and the same link. *)
RoomInv ==
  /\ kind \in Kinds /\ writer \in Writers
  /\ enc \in Encoder /\ calc \in Encoder
  /\ enc.link_sz = calc.link_sz /\ enc.prev = calc.prev
  /\ enc.off = calc.off

(* An encoder that moves on is still one. *)
LEMMA EncoderMoved ==
  ASSUME NEW c \in Encoder, NEW x \in Nat, NEW y \in Nat, NEW link \in Nat,
         NEW p \in {"ZIP_END", "LEN_8", "LEN_32"}
  PROVE  /\ [c EXCEPT !.prev_off = y, !.off = @ + x, !.prev = p, !.link_sz = link] \in Encoder
         /\ [c EXCEPT !.prev = p, !.link_sz = link, !.off = @ + x] \in Encoder
         /\ [c EXCEPT !.off = @ + x, !.items = @ + 1, !.link_sz = link] \in Encoder
         /\ [c EXCEPT !.link_sz = link, !.items = @ + 1, !.off = @ + x] \in Encoder
  <1>1. c.off + x \in Nat /\ c.items + 1 \in Nat
    BY DEF Encoder
  <1>2. \A o, i \in Nat :
          /\ [c EXCEPT !.prev_off = y, !.off = o, !.prev = p, !.link_sz = link] \in Encoder
          /\ [c EXCEPT !.prev = p, !.link_sz = link, !.off = o] \in Encoder
          /\ [c EXCEPT !.off = o, !.items = i, !.link_sz = link] \in Encoder
          /\ [c EXCEPT !.link_sz = link, !.items = i, !.off = o] \in Encoder
    BY DEF Encoder
  <1> QED  BY <1>1, <1>2

(* At first both encoders are at the first element. *)
LEMMA RoomInit == Init => RoomInv
  BY HeaderLen(kind) \in Nat DEF Init, RoomInv, NewEncode, Encoder, HeaderLen

(* An append moves both encoders by the same. *)
LEMMA RoomAppend ==
  ASSUME RoomInv, NEW e \in Elements[kind][writer], append(e)
  PROVE  RoomInv'
  <1> DEFINE data == enc.off + Len(Before(e))
             size == Len(Before(e)) + DataLen(e) + Len(After(e))
             link == SizeOf(kind, e) + DataLen(e)
             n    == enc.link_sz + zlink_size(enc.prev)
  <1>1. /\ kind \in Kinds /\ writer \in Writers
        /\ enc \in Encoder /\ calc \in Encoder
        /\ UNCHANGED <<kind, writer>>
    BY DEF RoomInv, append
  <1>2. /\ SizeOf(kind, e) \in Nat /\ DataLen(e) \in Nat /\ link \in Nat
        /\ HeadOf(kind, writer, e) \in Seq(Byte)
        /\ Len(HeadOf(kind, writer, e)) = SizeOf(kind, e)
    BY <1>1, SizesAgree
  <1>3. n \in Nat /\ n = calc.link_sz + zlink_size(calc.prev)
    <2>1. \A c \in {"ZIP_END", "LEN_8", "LEN_32"} : zlink_size(c) \in Nat
      BY DEF zlink_size
    <2> QED  BY <1>1, <2>1 DEF RoomInv, Encoder
  <1>4. CASE kind = "zip"
    <2> DEFINE p == zprev_code(n)
               room == zlink_size(p) + link
    <2>1. p \in {"LEN_8", "LEN_32"} /\ room \in Nat /\ zlink_size(p) \in Nat
      <3>1. p \in {"LEN_8", "LEN_32"}
        BY <1>3, PrevSize
      <3>2. zlink_size(p) \in Nat
        BY <3>1 DEF zlink_size
      <3> QED  BY <1>2, <3>1, <3>2
    <2>2. Len(Before(e)) = zlink_size(p) + SizeOf(kind, e) /\ Len(After(e)) = 0
      <3>1. /\ zip_prev(enc) \in Seq(Byte) /\ Len(zip_prev(enc)) = zlink_size(p)
        BY <1>3, PrevSize DEF zip_prev
      <3>2. Before(e) = zip_prev(enc) \o HeadOf(kind, writer, e)
        BY <1>4 DEF Before
      <3>3. Len(Before(e)) = Len(zip_prev(enc)) + Len(HeadOf(kind, writer, e))
        BY <1>2, <1>4, <3>1, <3>2, ConcatProperties, Zenon
      <3>4. After(e) = <<>>
        BY <1>4 DEF After
      <3> QED  BY <1>2, <1>4, <3>1, <3>3, <3>4
    <2>3. size = room
      BY <1>2, <2>1, <2>2
    <2>4. /\ enc' = [enc EXCEPT !.prev_off = enc.off, !.off = @ + size,
                                !.prev = p, !.link_sz = link]
          /\ calc' = [calc EXCEPT !.prev = p, !.link_sz = link, !.off = @ + room]
      <3>1. calc' = [calc EXCEPT !.prev = p, !.link_sz = link,
                                 !.off = @ + zlink_size(p) + link]
        BY <1>3, <1>4 DEF append, zip_calc
      <3>2. calc.off + zlink_size(p) + link = calc.off + room
        BY <1>1, <1>2, <2>1 DEF Encoder
      <3>3. enc' = [enc EXCEPT !.prev_off = enc.off, !.off = @ + size,
                               !.prev = p, !.link_sz = link]
        BY <1>4 DEF append, zip_append
      <3> HIDE DEF p, room, link, size
      <3> QED  BY <3>1, <3>2, <3>3
    <2> HIDE DEF p, room, link, size, n
    <2>5. enc' \in Encoder /\ calc' \in Encoder
      <3>1. enc.off \in Nat
        BY <1>1 DEF Encoder
      <3> QED  BY <1>1, <1>2, <2>1, <2>3, <2>4, <3>1, EncoderMoved
    <2> QED  BY <1>1, <2>3, <2>4, <2>5 DEF RoomInv, Encoder
  <1>5. CASE kind = "pack"
    <2> DEFINE b == lpback_size(link)
               room == b + link
    <2>1. b \in 1 .. 5 /\ room \in Nat /\ Len(After(e)) = b
      <3>1. After(e) = encode_back(link)
        BY <1>5 DEF After
      <3>2. b \in 1 .. 5 /\ Len(encode_back(link)) = b
        BY <1>2, BackSize
      <3> HIDE DEF b, link
      <3> QED  BY <1>2, <3>1, <3>2
    <2>2. size = room
      <3>1. Before(e) = HeadOf(kind, writer, e)
        BY <1>2, <1>5, ConcatEmptySeq DEF Before
      <3> QED  BY <1>2, <2>1, <3>1
    <2>4. /\ enc' = [enc EXCEPT !.off = @ + size, !.items = @ + 1, !.link_sz = link]
          /\ calc' = [calc EXCEPT !.link_sz = link, !.items = @ + 1, !.off = @ + room]
      <3>1. calc' = [calc EXCEPT !.link_sz = link, !.items = @ + 1,
                                 !.off = @ + lpback_size(link) + link]
        BY <1>5 DEF append, lp_calc
      <3>2. calc.off + lpback_size(link) + link = calc.off + room
        BY <1>1, <1>2, <2>1 DEF Encoder
      <3>3. enc' = [enc EXCEPT !.off = @ + size, !.items = @ + 1, !.link_sz = link]
        BY <1>5 DEF append, lp_append
      <3> HIDE DEF b, room, link, size
      <3> QED  BY <3>1, <3>2, <3>3
    <2> HIDE DEF b, room, link, size, n
    <2>5. enc' \in Encoder /\ calc' \in Encoder
      BY <1>1, <1>2, <2>1, <2>2, <2>4, EncoderMoved
    <2> QED  BY <1>1, <2>2, <2>4, <2>5 DEF RoomInv, Encoder
  <1> QED  BY <1>1, <1>4, <1>5 DEF Kinds

(* No step takes the two encoders apart. *)
LEMMA RoomStep == RoomInv /\ [Next]_vars => RoomInv'
  <1> SUFFICES ASSUME RoomInv, [Next]_vars PROVE RoomInv'
    OBVIOUS
  <1>1. ASSUME NEW e \in Elements[kind][writer], append(e) PROVE RoomInv'
    BY <1>1, RoomAppend
  <1>2. CASE End
    BY <1>2 DEF End, RoomInv, Encoder
  <1>3. ASSUME NEW a \in DOMAIN mem, NEW b \in Damages, Damage(a, b) PROVE RoomInv'
    BY <1>3 DEF Damage, RoomInv
  <1>4. CASE Walk
    BY <1>4 DEF Walk, RoomInv
  <1>5. CASE UNCHANGED vars
    BY <1>5 DEF vars, RoomInv
  <1> QED  BY <1>1, <1>2, <1>3, <1>4, <1>5 DEF Next

(* The room a caller of RdbZipEncode or RdbListPackEncode allocates, from  *)
(* calc_link(), calc_immediate_int() and calc_end(), is the room that      *)
(* append_link(), append_immediate_int() and append_end() fill, for lists  *)
(* of any elements and any length.                                         *)
THEOREM PackedRoom == Spec => []RoomAgrees
  <1>1. RoomInv => RoomAgrees
    BY DEF RoomInv, RoomAgrees
  <1> QED  BY <1>1, RoomInit, RoomStep, PTL DEF Spec

-----------------------------------------------------------------------------
(* The walk, over memory of any content. *)

Bytes(m) == \A a \in DOMAIN m : a \in Nat /\ m[a] \in Byte

(* A byte of memory is a number. *)
LEMMA AtNat ==
  ASSUME NEW m, Bytes(m), NEW a
  PROVE  At(m, a) \in Nat
  BY PackedAssumption DEF At, Bytes, Byte

(* So is a length of four bytes, whatever they are. *)
LEMMA Length32Nat ==
  ASSUME NEW m, Bytes(m), NEW a \in Nat
  PROVE  Length32(Big(m, a, 4)) \in Nat /\ Length32(Little(m, a, 4)) \in Nat
  <1>1. \A i \in 1 .. 4 : Big(m, a, 4)[i] \in Nat /\ Little(m, a, 4)[i] \in Nat
    BY AtNat DEF Big, Little
  <1>2. ASSUME NEW b, \A i \in 1 .. 4 : b[i] \in Nat PROVE Length32(b) \in Nat
    BY <1>2 DEF Length32, Beyond
  <1> QED  BY <1>1, <1>2

(* The length of the string of any entry is a number. *)
LEMMA StrLengths ==
  ASSUME NEW m, Bytes(m), NEW a \in Nat
  PROVE  /\ LET c == zlink_next(At(m, a))
            IN  ~ zip_immed(c) => zlink_length(c, m, a) \in Nat
         /\ LET c == lp_code(At(m, a))
            IN  ~ lp_immed(c) => lp_length(c, m, a) \in Nat
  <1> DEFINE x == At(m, a)
             y == At(m, a + 1)
             big == Length32(Big(m, a + 1, 4))
             little == Length32(Little(m, a + 1, 4))
  <1>1. x \in Nat /\ y \in Nat
    BY AtNat
  <1>2. big \in Nat /\ little \in Nat
    <2>1. a + 1 \in Nat
      OBVIOUS
    <2> QED  BY <2>1, Length32Nat
  <1> HIDE DEF x, y, big, little
  <1>3. x % 64 \in Nat /\ 256 * (x % 64) + y \in Nat /\ 256 * (x % 16) + y \in Nat
    BY <1>1
  <1> DEFINE c == zlink_next(x)
             d == lp_code(x)
  <1>4. ~ zip_immed(c) => c \in {"LEN_6", "BIG_14", "BIG_32", "ZIP_END"}
    BY DEF zlink_next, zip_immed
  <1>5. ~ lp_immed(d) => d \in {"6BIT_STR", "12BIT_STR", "32BIT_STR"}
    BY DEF lp_immed
  <1> HIDE DEF c, d
  <1>6. ~ zip_immed(c) => zlink_length(c, m, a) \in Nat
    BY <1>2, <1>3, <1>4 DEF zlink_length, x, y, big
  <1>7. ~ lp_immed(d) => lp_length(d, m, a) \in Nat
    BY <1>2, <1>3, <1>5 DEF lp_length, x, y, little
  <1> QED  BY <1>6, <1>7 DEF c, d, x

(* What one call of next() makes of the value l. *)
MovesOn(l, r, end) ==
  /\ r.entry \in Nat /\ r.entry_len \in Nat /\ r.entry >= l.entry + l.entry_len
  /\ r.ok => /\ r.entry + r.entry_len <= end
             /\ r.val[1] = "str" => r.val[2] + r.val[3] <= end
             /\ r.entry > l.entry + l.entry_len \/ r.entry_len > 0

(* The fields of a value of the walk. *)
LEMMA LvalFields ==
  ASSUME NEW e, NEW n, NEW v, NEW k
  PROVE  /\ Lval(e, n, v, k).entry = e /\ Lval(e, n, v, k).entry_len = n
         /\ Lval(e, n, v, k).val = v /\ Lval(e, n, v, k).ok = k
  BY DEF Lval

(* And of the one it starts from. *)
LEMMA FirstFields ==
  ASSUME NEW d
  PROVE  FirstLval(d).entry = d /\ FirstLval(d).entry_len = 0 /\ FirstLval(d).val = Null
  BY DEF FirstLval, Lval

(* An element taken moves the walk on. *)
LEMMA TakeMovesOn ==
  ASSUME NEW l, l.entry \in Nat, l.entry_len \in Nat,
         NEW a \in Nat, a >= l.entry + l.entry_len,
         NEW n \in Nat, NEW d \in Nat, NEW back \in Nat, NEW end \in Nat,
         NEW val, val[1] = "str" => val[2] = a + n /\ val[3] = d,
         a > l.entry + l.entry_len \/ back > 0
  PROVE  MovesOn(l, Take(a, n, d, back, val, end), end)
  <1> DEFINE r == Take(a, n, d, back, val, end)
  <1>2. /\ r.entry = a /\ r.entry_len = n + d + back /\ r.val = val
        /\ r.ok => a + n + d + back <= end
    <2> DEFINE k == a + n + d + back <= end
    <2>1. r = Lval(a, n + d + back, val, k)
      BY DEF Take
    <2>2. k => a + n + d + back <= end
      OBVIOUS
    <2> HIDE DEF k, r
    <2>3. r.entry = a /\ r.entry_len = n + d + back /\ r.val = val
      BY <2>1, LvalFields
    <2>4. r.ok = k
      BY <2>1, LvalFields
    <2> QED  BY <2>2, <2>3, <2>4
  <1>3. n + d + back \in Nat /\ a + (n + d + back) = a + n + d + back
    OBVIOUS
  <1>4. r.ok /\ r.val[1] = "str" => r.val[2] + r.val[3] <= end
    <2> SUFFICES ASSUME r.ok, r.val[1] = "str" PROVE r.val[2] + r.val[3] <= end
      OBVIOUS
    <2>1. r.val[2] = a + n /\ r.val[3] = d /\ a + n + d + back <= end
      BY <1>2
    <2> HIDE DEF r
    <2> QED  BY <2>1
  <1> HIDE DEF r
  <1>5. r.entry + r.entry_len <= end \/ ~ r.ok
    BY <1>2, <1>3
  <1>6. r.entry > l.entry + l.entry_len \/ r.entry_len > 0
    BY <1>2
  <1>7. r.entry \in Nat /\ r.entry_len \in Nat /\ r.entry >= l.entry + l.entry_len
    BY <1>2, <1>3
  <1>8. MovesOn(l, r, end)
    BY <1>4, <1>5, <1>6, <1>7, Zenon DEF MovesOn
  <1> QED  BY <1>8 DEF r

(* So does the end, if only by nothing. *)
LEMMA StopMovesOn ==
  ASSUME NEW l, l.entry \in Nat, l.entry_len \in Nat,
         NEW a \in Nat, a >= l.entry + l.entry_len, NEW end \in Nat
  PROVE  MovesOn(l, Stop(a), end)
  BY DEF MovesOn, Stop, Lval

(* zip_next() moves on over any bytes. *)
LEMMA ZipMovesOn ==
  ASSUME NEW m, Bytes(m), NEW end \in Nat,
         NEW l, l.entry \in Nat, l.entry_len \in Nat
  PROVE  /\ MovesOn(l, zip_next(m, end, l), end)
         /\ zip_next(m, end, l).ok => zip_next(m, end, l).entry > l.entry
  <1> DEFINE a == l.entry + l.entry_len
             p == zlink_prev(At(m, a))
             b == a + zlink_size(p)
             c == zlink_next(At(m, b))
             n == zlink_size(c)
             d == zlink_length(c, m, b)
  <1>1. a \in Nat
    OBVIOUS
  <1>2. CASE a >= end \/ p = "ZIP_END"
    <2>1. zip_next(m, end, l) = Stop(a)
      BY <1>2 DEF zip_next
    <2> HIDE DEF a
    <2>2. ~ Stop(a).ok
      BY DEF Stop, Lval
    <2> QED  BY <1>1, <2>1, <2>2, StopMovesOn DEF a
  <1>3. CASE ~ (a >= end \/ p = "ZIP_END")
    <2>1. zlink_size(p) \in Nat /\ zlink_size(p) > 0
      <3>1. p = "LEN_8" \/ p = "LEN_32"
        BY <1>3 DEF zlink_prev
      <3> HIDE DEF p
      <3> QED  BY <3>1 DEF zlink_size
    <2>2. b \in Nat /\ b > a
      <3> HIDE DEF p, a
      <3> QED  BY <1>1, <2>1
    <2>3. c \in {"LEN_6", "BIG_14", "BIG_32", "ZIP_END", "IMMED_4", "IMMED_8",
                 "IMMED_16", "IMMED_24", "IMMED_32", "IMMED_64"}
      <3> DEFINE x == At(m, b)
      <3> HIDE DEF x
      <3> QED  BY DEF x, zlink_next
    <2>4. n \in Nat
      <3> HIDE DEF c
      <3> QED  BY <2>3 DEF zlink_size
    <2>5. ~ zip_immed(c) => d \in Nat
      BY <2>2, StrLengths
    <2>6. zip_next(m, end, l) =
            IF b >= end \/ b + n > end THEN Stop(b)
            ELSE IF zip_immed(c) THEN Take(b, n, 0, 0, <<"int", zlink_int(c, m, b)>>, end)
            ELSE Take(b, n, d, 0, <<"str", b + n, d>>, end)
      BY <1>3, Zenon DEF zip_next
    <2> HIDE DEF a, p, b, c, n, d
    <2>7. MovesOn(l, Stop(b), end)
      BY <2>2, StopMovesOn DEF a
    <2>8. MovesOn(l, Take(b, n, 0, 0, <<"int", zlink_int(c, m, b)>>, end), end)
      BY <2>2, <2>4, TakeMovesOn DEF a
    <2>9. ~ zip_immed(c) => MovesOn(l, Take(b, n, d, 0, <<"str", b + n, d>>, end), end)
      <3> SUFFICES ASSUME ~ zip_immed(c)
                   PROVE  MovesOn(l, Take(b, n, d, 0, <<"str", b + n, d>>, end), end)
        OBVIOUS
      <3> DEFINE v == <<"str", b + n, d>>
      <3>1. v[2] = b + n /\ v[3] = d
        OBVIOUS
      <3> HIDE DEF v
      <3>2. /\ b \in Nat /\ b >= l.entry + l.entry_len /\ b > l.entry + l.entry_len
            /\ n \in Nat /\ d \in Nat /\ 0 \in Nat
        BY <2>2, <2>4, <2>5 DEF a
      <3>3. MovesOn(l, Take(b, n, d, 0, v, end), end)
        BY <3>1, <3>2, TakeMovesOn
      <3> QED  BY <3>3 DEF v
    <2>10. ~ Stop(b).ok
      BY DEF Stop, Lval
    <2>11. b > l.entry
      BY <2>2 DEF a
    <2>12. ASSUME NEW x, NEW v PROVE Take(b, n, x, 0, v, end).entry > l.entry
      <3>1. Take(b, n, x, 0, v, end).entry = b
        BY LvalFields DEF Take
      <3> QED  BY <2>11, <3>1
    <2> QED  BY <2>6, <2>7, <2>8, <2>9, <2>10, <2>12, Zenon
  <1> QED  BY <1>2, <1>3

(* The link behind an entry is never empty. *)
LEMMA LpBackSize ==
  ASSUME NEW n \in Nat
  PROVE  lpback_size(n) \in Nat /\ lpback_size(n) > 0
  BY DEF lpback_size

(* lp_next() moves on over any bytes. *)
LEMMA LpMovesOn ==
  ASSUME NEW m, Bytes(m), NEW end \in Nat,
         NEW l, l.entry \in Nat, l.entry_len \in Nat
  PROVE  /\ MovesOn(l, lp_next(m, end, l), end)
         /\ lp_next(m, end, l).ok => lp_next(m, end, l).entry_len > 0
  <1> DEFINE a == l.entry + l.entry_len
             c == lp_code(At(m, a))
             n == lp_size(c)
             d == lp_length(c, m, a)
  <1>1. a \in Nat /\ a >= l.entry + l.entry_len
    OBVIOUS
  <1>2. lp_next(m, end, l) =
          IF a >= end \/ c = "LP_END" \/ a + n > end THEN Stop(a)
          ELSE IF lp_immed(c)
          THEN Take(a, n, 0, lpback_size(n), <<"int", lp_int(c, m, a)>>, end)
          ELSE Take(a, n, d, lpback_size(n + d), <<"str", a + n, d>>, end)
    BY Zenon DEF lp_next
  <1>3. c \in {"7BIT_UINT", "6BIT_STR", "13BIT_INT", "12BIT_STR", "32BIT_STR", "16BIT_INT",
               "24BIT_INT", "32BIT_INT", "64BIT_INT", "LP_END", "LP_UNUSED"}
    <2> DEFINE x == At(m, a)
    <2> HIDE DEF x
    <2> QED  BY DEF x, lp_code
  <1>4. n \in Nat
    <2> HIDE DEF c
    <2> QED  BY <1>3 DEF lp_size
  <1>5. ~ lp_immed(c) => d \in Nat
    BY <1>1, StrLengths
  <1>6. ASSUME NEW e, NEW x \in Nat, NEW back \in Nat, back > 0, NEW v
        PROVE  Take(a, n, x, back, v, end).entry_len > 0
    <2>1. Take(a, n, x, back, v, end).entry_len = n + x + back
      BY LvalFields DEF Take
    <2> HIDE DEF n
    <2> QED  BY <1>4, <1>6, <2>1
  <1>7. /\ ~ Stop(a).ok
        /\ MovesOn(l, Stop(a), end)
    <2>1. ~ Stop(a).ok
      BY DEF Stop, Lval
    <2> HIDE DEF a
    <2> QED  BY <1>1, <2>1, StopMovesOn DEF a
  <1> DEFINE t == Take(a, n, 0, lpback_size(n), <<"int", lp_int(c, m, a)>>, end)
             u == Take(a, n, d, lpback_size(n + d), <<"str", a + n, d>>, end)
  <1>8. lpback_size(n) \in Nat /\ lpback_size(n) > 0
    BY <1>4, LpBackSize
  <1>9. ~ lp_immed(c) => lpback_size(n + d) \in Nat /\ lpback_size(n + d) > 0
    <2>1. ~ lp_immed(c) => n + d \in Nat
      <3> HIDE DEF n, d, c
      <3> QED  BY <1>4, <1>5
    <2> HIDE DEF n, d, c
    <2> QED  BY <2>1, LpBackSize
  <1>10. MovesOn(l, t, end) /\ t.entry_len > 0
    <2> DEFINE v == <<"int", lp_int(c, m, a)>>
    <2>1. v[1] # "str"
      OBVIOUS
    <2> HIDE DEF v, n, c
    <2>2. MovesOn(l, Take(a, n, 0, lpback_size(n), v, end), end)
      <3> DEFINE back == lpback_size(n)
      <3> HIDE DEF a, back
      <3>1. back \in Nat /\ back > 0
        BY <1>8 DEF back
      <3>2. MovesOn(l, Take(a, n, 0, back, v, end), end)
        BY <1>1, <1>4, <2>1, <3>1, TakeMovesOn
      <3> QED  BY <3>2 DEF back
    <2>3. Take(a, n, 0, lpback_size(n), v, end).entry_len > 0
      BY <1>6, <1>8
    <2> QED  BY <2>2, <2>3 DEF v
  <1>11. ~ lp_immed(c) => MovesOn(l, u, end) /\ u.entry_len > 0
    <2> SUFFICES ASSUME ~ lp_immed(c) PROVE MovesOn(l, u, end) /\ u.entry_len > 0
      OBVIOUS
    <2> DEFINE v == <<"str", a + n, d>>
    <2>1. v[2] = a + n /\ v[3] = d
      OBVIOUS
    <2> HIDE DEF v, n, c, d
    <2>2. MovesOn(l, Take(a, n, d, lpback_size(n + d), v, end), end)
      <3> DEFINE back == lpback_size(n + d)
      <3> HIDE DEF a, back
      <3>1. back \in Nat /\ back > 0
        BY <1>9 DEF back
      <3>2. MovesOn(l, Take(a, n, d, back, v, end), end)
        BY <1>1, <1>4, <1>5, <2>1, <3>1, TakeMovesOn
      <3> QED  BY <3>2 DEF back
    <2>3. Take(a, n, d, lpback_size(n + d), v, end).entry_len > 0
      BY <1>5, <1>6, <1>9
    <2> QED  BY <2>2, <2>3 DEF v
  <1> HIDE DEF a, c, n, d, t, u
  <1> QED  BY <1>2, <1>7, <1>10, <1>11, Zenon DEF t, u

-----------------------------------------------------------------------------
(* Memory as the encoder leaves it. *)

(* What is read back from memory after a store. *)
LEMMA StoreAt ==
  ASSUME NEW m, NEW a \in Int, NEW s \in Seq(Byte), NEW i \in Int
  PROVE  At(Store(m, a, s), i) =
           IF i \in a .. (a + Len(s) - 1) THEN s[i - a + 1] ELSE At(m, i)
  BY DEF At, Store

(* Bytes stored in memory of bytes. *)
LEMMA StoreBytes ==
  ASSUME NEW m, Bytes(m), NEW a \in Nat, NEW s \in Seq(Byte)
  PROVE  Bytes(Store(m, a, s))
  <1> SUFFICES ASSUME NEW i \in DOMAIN Store(m, a, s)
               PROVE  i \in Nat /\ Store(m, a, s)[i] \in Byte
    BY DEF Bytes
  <1>1. CASE i \in a .. (a + Len(s) - 1)
    <2>1. i \in Nat /\ Store(m, a, s)[i] = s[i - a + 1]
      BY <1>1 DEF Store
    <2>2. i - a + 1 \in 1 .. Len(s)
      BY <1>1
    <2> QED  BY <2>1, <2>2, ElementOfSeq
  <1>2. CASE i \notin a .. (a + Len(s) - 1)
    BY <1>2 DEF Store, Bytes
  <1> QED  BY <1>1, <1>2

(* What four bytes tell of a length; and a list whose length they tell. *)
Told(n) == IF n >= Beyond THEN Beyond ELSE n
Short == enc.off <= Beyond

LEMMA ToldNat ==
  ASSUME NEW n \in Nat
  PROVE  Told(n) \in Nat
  BY DEF Told, Beyond

LEMMA ToldAll ==
  ASSUME NEW n \in Nat, n <= Beyond
  PROVE  Told(n) = n
  BY DEF Told, Beyond

(* What is told of a length is read back. *)
LEMMA LengthReadsBack ==
  ASSUME NEW n \in Nat
  PROVE  Length32(Bytes32(n)) = Told(n)
  <1>1. CASE n >= Beyond
    BY <1>1 DEF Length32, Bytes32, Told
  <1>2. CASE ~ n >= Beyond
    BY <1>2 DEF Length32, Bytes32, Told, Beyond
  <1> QED  BY <1>1, <1>2

(* The length in front of a header is read back. *)
LEMMA HeaderReadsBack ==
  ASSUME NEW m, NEW n \in Nat, NEW rest \in Seq(Byte)
  PROVE  Length32(Little(Store(m, 0, Reversed(Bytes32(n)) \o rest), 0, 4)) = Told(n)
  <1> DEFINE b == Bytes32(n)
             h == Reversed(b) \o rest
             s == Store(m, 0, h)
  <1>1. b \in Seq(Byte) /\ Len(b) = 4 /\ Reversed(b) \in Seq(Byte) /\ Len(Reversed(b)) = 4
    BY Bytes32Seq
  <1>2. /\ h \in Seq(Byte) /\ Len(h) = 4 + Len(rest)
        /\ \A i \in 1 .. 4 : h[i] = Reversed(b)[i]
    <2> HIDE DEF b
    <2>1. /\ h \in Seq(Byte) /\ Len(h) = Len(Reversed(b)) + Len(rest)
          /\ \A i \in 1 .. Len(Reversed(b)) + Len(rest) :
                h[i] = IF i <= Len(Reversed(b)) THEN Reversed(b)[i]
                       ELSE rest[i - Len(Reversed(b))]
      BY <1>1, ConcatProperties, Zenon
    <2>2. Len(rest) \in Nat
      BY LenProperties
    <2> HIDE DEF h
    <2> QED  BY <1>1, <2>1, <2>2
  <1> HIDE DEF b, h
  <1>3. \A k \in 1 .. 4 : At(s, 0 + k - 1) = Reversed(b)[k]
    <2> TAKE k \in 1 .. 4
    <2> DEFINE i == 0 + k - 1
    <2>1. i \in 0 .. (0 + Len(h) - 1) /\ i - 0 + 1 = k /\ i \in Int
      BY <1>2
    <2> HIDE DEF i
    <2>2. At(s, i) = h[i - 0 + 1]
      BY <1>2, <2>1, StoreAt
    <2> QED  BY <1>2, <2>1, <2>2 DEF i
  <1> HIDE DEF s
  <1>4. Little(s, 0, Len(b)) = b
    <2>1. HeldAt(s, 0, Reversed(b))
      BY <1>1, <1>3 DEF HeldAt
    <2>2. b \in Seq(Byte) /\ 0 \in Int
      BY <1>1
    <2> QED  BY <2>1, <2>2, LittleReadsBack, Zenon
  <1>5. Little(s, 0, 4) = b
    BY <1>1, <1>4
  <1> QED  BY <1>5, LengthReadsBack, Zenon DEF b, h, s

(* What is left of a number when groups of seven bits are shifted out. *)
LEMMA Shifted ==
  ASSUME NEW n \in Nat, NEW k \in 1 .. 5
  PROVE  n \div Power128[k] \in Nat
  <1>1. /\ n \div 1 \in Nat /\ n \div 128 \in Nat /\ n \div 16384 \in Nat
        /\ n \div 2097152 \in Nat /\ n \div 268435456 \in Nat
    OBVIOUS
  <1>2. k = 1 \/ k = 2 \/ k = 3 \/ k = 4 \/ k = 5
    OBVIOUS
  <1> QED  BY <1>1, <1>2 DEF Power128

(* The link behind an entry is made of numbers. *)
LEMMA BackBytes ==
  ASSUME NEW n \in Nat
  PROVE  encode_back(n) \in Seq(Byte)
  <1> DEFINE s == lpback_size(n)
             v(i) == n \div Power128[s + 1 - i]
  <1>1. s \in 1 .. 5
    BY BackSize
  <1>2. \A i \in 1 .. s : (IF i = 1 THEN v(i) % 256 ELSE 128 + (v(i) % 128)) \in Byte
    <2> HIDE DEF s
    <2> TAKE i \in 1 .. s
    <2>1. s + 1 - i \in 1 .. 5
      BY <1>1
    <2>2. v(i) \in Nat
      BY <2>1, Shifted
    <2> HIDE DEF v
    <2> QED  BY <2>2 DEF Byte
  <1>3. encode_back(n) \in [1 .. s -> Byte]
    BY <1>2, Zenon DEF encode_back
  <1> HIDE DEF s
  <1>4. s \in Nat
    BY <1>1
  <1> QED  BY <1>3, <1>4, SeqDef, Zenon

-----------------------------------------------------------------------------
(* The walk stays inside the list and moves on.                            *)

WalkInv ==
  /\ RoomInv /\ Bytes(mem)
  /\ \E S : written \in Seq(S)
  /\ enc.off >= HeaderLen(kind)
  /\ lval.entry \in Nat /\ lval.entry_len \in Nat /\ lval.entry >= HeaderLen(kind)
  /\ medium = "open" => lval = FirstLval(HeaderLen(kind)) /\ read = <<>>
  /\ medium # "open" => zlbytes = Told(enc.off)
  /\ Inside
  /\ kind = "pack" /\ read # <<>> /\ lval.ok => lval.entry_len > 0

(* A header has six bytes or more. *)
LEMMA HeaderLens ==
  ASSUME NEW k
  PROVE  HeaderLen(k) \in Nat /\ HeaderLen(k) >= 6
  BY DEF HeaderLen

(* At first nothing is walked. *)
LEMMA WalkInit == Init => WalkInv
  <1> SUFFICES ASSUME Init PROVE WalkInv
    OBVIOUS
  <1>1. RoomInv
    BY RoomInit
  <1>2. Bytes(mem)
    BY DEF Init, Bytes
  <1>3. enc.off = HeaderLen(kind)
    BY DEF Init, NewEncode
  <1>4. lval = FirstLval(HeaderLen(kind)) /\ read = <<>> /\ medium = "open"
    BY DEF Init
  <1>5. lval.entry = HeaderLen(kind) /\ lval.entry_len = 0
    BY <1>4, FirstFields, Zenon
  <1>6. \E S : written \in Seq(S)
    BY EmptySeq DEF Init
  <1> QED  BY <1>1, <1>2, <1>3, <1>4, <1>5, <1>6, HeaderLens DEF WalkInv, Inside

(* What append() writes are numbers, of a length that is one. *)
LEMMA AppendWrites ==
  ASSUME RoomInv, NEW e \in Elements[kind][writer]
  PROVE  Before(e) \in Seq(Byte) /\ After(e) \in Seq(Byte) /\ DataLen(e) \in Nat
  <1>1. /\ SizeOf(kind, e) \in Nat /\ DataLen(e) \in Nat
        /\ HeadOf(kind, writer, e) \in Seq(Byte)
    BY SizesAgree DEF RoomInv
  <1>2. (IF kind = "zip" THEN zip_prev(enc) ELSE <<>>) \in Seq(Byte)
    <2>1. \A c \in {"ZIP_END", "LEN_8", "LEN_32"} : zlink_size(c) \in Nat
      BY DEF zlink_size
    <2>2. enc.link_sz + zlink_size(enc.prev) \in Nat
      BY <2>1 DEF RoomInv, Encoder
    <2>3. zip_prev(enc) \in Seq(Byte)
      BY <2>2, PrevSize DEF zip_prev
    <2> QED  BY <2>3, EmptySeq
  <1>3. Before(e) \in Seq(Byte)
    BY <1>1, <1>2, ConcatProperties, Zenon DEF Before
  <1>4. After(e) \in Seq(Byte)
    <2>1. CASE kind = "zip"
      BY <2>1, EmptySeq DEF After
    <2>2. CASE kind # "zip"
      <3>1. After(e) = encode_back(SizeOf(kind, e) + DataLen(e))
        BY <2>2 DEF After, RoomInv, Kinds
      <3> QED  BY <1>1, <3>1, BackBytes
    <2> QED  BY <2>1, <2>2
  <1> QED  BY <1>1, <1>3, <1>4

(* An append leaves the walk alone. *)
LEMMA WalkAppend ==
  ASSUME WalkInv, NEW e \in Elements[kind][writer], append(e)
  PROVE  WalkInv'
  <1>1. RoomInv /\ RoomInv'
    BY RoomAppend DEF WalkInv
  <1>2. Before(e) \in Seq(Byte) /\ After(e) \in Seq(Byte) /\ DataLen(e) \in Nat
    BY <1>1, AppendWrites
  <1> DEFINE tail == enc.off + Len(Before(e)) + DataLen(e)
             size == Len(Before(e)) + DataLen(e) + Len(After(e))
  <1>3. enc.off \in Nat /\ tail \in Nat /\ size \in Nat
    <2>1. enc.off \in Nat /\ Len(Before(e)) \in Nat /\ Len(After(e)) \in Nat
      BY <1>1, <1>2, LenProperties DEF RoomInv, Encoder
    <2> QED  BY <1>2, <2>1
  <1>4. Bytes(mem')
    <2>1. mem' = Store(Store(mem, enc.off, Before(e)), tail, After(e))
      BY DEF append
    <2>2. Bytes(Store(mem, enc.off, Before(e)))
      BY <1>2, <1>3, StoreBytes DEF WalkInv
    <2> HIDE DEF tail
    <2> QED  BY <1>2, <1>3, <2>1, <2>2, StoreBytes
  <1>5. enc'.off = enc.off + size
    <2>1. enc' = IF kind = "zip" THEN zip_append(enc, e, size) ELSE lp_append(enc, e, size)
      BY DEF append
    <2> HIDE DEF size
    <2> QED  BY <1>1, <2>1 DEF zip_append, lp_append, RoomInv, Encoder
  <1>6. enc'.off >= HeaderLen(kind)
    <2> HIDE DEF size
    <2> QED  BY <1>3, <1>5, HeaderLens DEF WalkInv
  <1>7. UNCHANGED <<kind, lval, read, medium>> /\ medium = "open"
    BY DEF append
  <1>8. Inside'
    BY <1>7 DEF Inside
  <1>9. \E S : written' \in Seq(S)
    <2>1. PICK S : written \in Seq(S)
      BY DEF WalkInv
    <2>2. PICK x : written' = Append(written, x)
      BY DEF append
    <2>3. written \in Seq(S \cup {x})
      BY <2>1, SeqMonotonic, S \subseteq S \cup {x}
    <2>4. written' \in Seq(S \cup {x})
      BY <2>2, <2>3, AppendProperties, x \in S \cup {x}, Zenon
    <2> QED  BY <2>4
  <1> QED  BY <1>1, <1>4, <1>6, <1>7, <1>8, <1>9 DEF WalkInv

(* A count of 16 bits is two bytes. *)
LEMMA Count16Seq ==
  ASSUME NEW n \in Nat
  PROVE  Count16(n) \in Seq(Byte) /\ Len(Count16(n)) = 2
  <1>1. Capped(n) % 256 \in Byte /\ Capped(n) \div 256 \in Byte
    BY DEF Capped, Byte
  <1> QED  BY <1>1, ByteSeqs DEF Count16

(* The header that append_end() writes bounds the walk. *)
LEMMA WalkEnd ==
  ASSUME WalkInv, End
  PROVE  WalkInv'
  <1>1. RoomInv /\ RoomInv'
    <2>1. [Next]_vars
      BY DEF Next
    <2> QED  BY <2>1, RoomStep DEF WalkInv
  <1>2. enc.off \in Nat /\ enc'.off = enc.off + 1 /\ enc'.off \in Nat
    BY <1>1 DEF End, RoomInv, Encoder
  <1>3. PICK rest \in Seq(Byte) : Header(enc') = Reversed(Bytes32(enc'.off)) \o rest
    <2> DEFINE zip  == Reversed(Bytes32(enc'.prev_off)) \o Count16(Len(written))
               pack == Count16(enc'.items)
    <2>1. enc'.prev_off \in Nat /\ enc'.items \in Nat
      BY <1>1 DEF RoomInv, Encoder
    <2>2. Len(written) \in Nat
      BY LenProperties DEF WalkInv
    <2>3. zip \in Seq(Byte)
      <3>1. Reversed(Bytes32(enc'.prev_off)) \in Seq(Byte)
        BY <2>1, Bytes32Seq
      <3>2. Count16(Len(written)) \in Seq(Byte)
        BY <2>2, Count16Seq
      <3> QED  BY <3>1, <3>2, ConcatProperties, Zenon
    <2>4. pack \in Seq(Byte)
      BY <2>1, Count16Seq
    <2>5. Header(enc') = Reversed(Bytes32(enc'.off)) \o IF kind = "zip" THEN zip ELSE pack
      BY Zenon DEF Header
    <2> HIDE DEF zip, pack
    <2>6. (IF kind = "zip" THEN zip ELSE pack) \in Seq(Byte)
      BY <2>3, <2>4
    <2> QED  BY <2>5, <2>6, Zenon
  <1>4. Header(enc') \in Seq(Byte)
    <2>1. Reversed(Bytes32(enc'.off)) \in Seq(Byte)
      BY <1>2, Bytes32Seq
    <2> QED  BY <1>3, <2>1, ConcatProperties, Zenon
  <1>5. Bytes(mem') /\ Length32(Little(mem', 0, 4)) = Told(enc'.off)
    <2> DEFINE m == Store(mem, enc.off, <<255>>)
    <2>1. mem' = Store(m, 0, Header(enc'))
      BY DEF End
    <2>2. <<255>> \in Seq(Byte)
      BY ByteSeqs, CodeBytes
    <2>3. Bytes(m)
      <3>1. Bytes(mem) /\ enc.off \in Nat
        BY <1>2 DEF WalkInv
      <3> QED  BY <2>2, <3>1, StoreBytes, Zenon
    <2> HIDE DEF m
    <2>4. Bytes(mem')
      BY <1>4, <2>1, <2>3, StoreBytes, 0 \in Nat
    <2>5. Length32(Little(Store(m, 0, Reversed(Bytes32(enc'.off)) \o rest), 0, 4)) = Told(enc'.off)
      BY <1>2, HeaderReadsBack
    <2> QED  BY <1>3, <2>1, <2>4, <2>5, Zenon
  <1>6. /\ UNCHANGED <<kind, lval, read>> /\ medium = "open"
        /\ lval = FirstLval(HeaderLen(kind)) /\ read = <<>>
    BY DEF End, WalkInv
  <1>7. /\ lval.entry = HeaderLen(kind) /\ lval.entry_len = 0 /\ lval.val = Null
    BY <1>6, FirstFields, Zenon
  <1>8. zlbytes' = Told(enc'.off) /\ Told(enc'.off) \in Nat
    BY <1>2, <1>5, ToldNat DEF zlbytes
  <1>9. enc'.off >= HeaderLen(kind)
    BY <1>2, HeaderLens DEF WalkInv
  <1>10. Inside'
    <2>1. lval.val[1] # "str"
      BY <1>7 DEF Null
    <2>2. HeaderLen(kind) <= zlbytes'
      <3>1. HeaderLen(kind) <= 10 /\ HeaderLen(kind) \in Nat
        BY DEF HeaderLen
      <3>2. HeaderLen(kind) <= Beyond
        BY <3>1 DEF Beyond
      <3> QED  BY <1>2, <1>8, <1>9, <3>1, <3>2 DEF Told
    <2> QED  BY <1>2, <1>6, <1>7, <1>8, <1>9, <2>1, <2>2, HeaderLens DEF Inside
  <1>11. medium' # "open"
    BY DEF End
  <1>12. \E S : written' \in Seq(S)
    BY DEF End, WalkInv
  <1> QED  BY <1>1, <1>5, <1>6, <1>7, <1>8, <1>9, <1>10, <1>11, <1>12, HeaderLens DEF WalkInv

(* Damage behind the header does not move the bounds. *)
LEMMA WalkDamage ==
  ASSUME WalkInv, NEW a \in DOMAIN mem, NEW b \in Damages, Damage(a, b)
  PROVE  WalkInv'
  <1>1. RoomInv /\ RoomInv'
    BY DEF WalkInv, RoomInv, Damage
  <1>2. /\ mem' = [mem EXCEPT ![a] = b] /\ a >= HeaderLen(kind)
        /\ UNCHANGED <<kind, written, enc, lval, read>> /\ medium = "whole" /\ medium' = "bad"
    BY DEF Damage
  <1>3. Bytes(mem')
    <2>1. b \in Byte
      BY PackedAssumption
    <2>2. Bytes(mem)
      BY DEF WalkInv
    <2> QED  BY <1>2, <2>1, <2>2 DEF Bytes
  <1>4. zlbytes' = zlbytes
    <2>1. \A i \in 1 .. 4 : At(mem', 0 + 4 - i) = At(mem, 0 + 4 - i)
      BY <1>2, HeaderLens DEF At
    <2>2. Little(mem', 0, 4) = Little(mem, 0, 4)
      BY <2>1 DEF Little
    <2> QED  BY <2>2 DEF zlbytes
  <1>5. Inside'
    BY <1>2, <1>4 DEF WalkInv, Inside
  <1> QED  BY <1>1, <1>2, <1>3, <1>4, <1>5 DEF WalkInv

(* The length that was read is a number. *)
LEMMA BoundNat ==
  ASSUME WalkInv, medium # "open"
  PROVE  zlbytes \in Nat
  <1>1. enc.off \in Nat /\ zlbytes = Told(enc.off)
    BY DEF WalkInv, RoomInv, Encoder
  <1> QED  BY <1>1, ToldNat

(* A call of next() within the list. *)
LEMMA NextMovesOn ==
  ASSUME WalkInv, medium # "open"
  PROVE  /\ MovesOn(lval, next(kind, mem, zlbytes, lval), zlbytes)
         /\ kind = "pack" /\ next(kind, mem, zlbytes, lval).ok =>
               next(kind, mem, zlbytes, lval).entry_len > 0
  <1>1. zlbytes \in Nat
    BY BoundNat
  <1>2. kind \in {"zip", "pack"}
    BY DEF WalkInv, RoomInv, Kinds
  <1>3. CASE kind = "zip"
    <2>1. next(kind, mem, zlbytes, lval) = zip_next(mem, zlbytes, lval)
      BY <1>3 DEF next
    <2>2. MovesOn(lval, zip_next(mem, zlbytes, lval), zlbytes)
      BY <1>1, ZipMovesOn DEF WalkInv
    <2> QED  BY <1>3, <2>1, <2>2
  <1>4. CASE kind = "pack"
    <2>1. next(kind, mem, zlbytes, lval) = lp_next(mem, zlbytes, lval)
      BY <1>4 DEF next
    <2>2. /\ MovesOn(lval, lp_next(mem, zlbytes, lval), zlbytes)
          /\ lp_next(mem, zlbytes, lval).ok => lp_next(mem, zlbytes, lval).entry_len > 0
      BY <1>1, LpMovesOn DEF WalkInv
    <2> QED  BY <2>1, <2>2
  <1> QED  BY <1>2, <1>3, <1>4

(* A next() stays within the bounds. *)
LEMMA WalkWalk ==
  ASSUME WalkInv, Walk
  PROVE  WalkInv'
  <1>1. RoomInv /\ RoomInv'
    BY DEF WalkInv, RoomInv, Walk
  <1>2. /\ UNCHANGED <<kind, written, enc, mem, medium>> /\ medium # "open"
        /\ lval' = next(kind, mem, zlbytes, lval)
        /\ read' = IF lval'.ok THEN Append(read, lval'.val) ELSE read
    BY DEF Walk
  <1>3. zlbytes' = zlbytes /\ zlbytes \in Nat
    BY <1>2, BoundNat DEF zlbytes
  <1>4. /\ MovesOn(lval, lval', zlbytes)
        /\ kind = "pack" /\ lval'.ok => lval'.entry_len > 0
    BY <1>2, NextMovesOn
  <1>5. /\ lval'.entry \in Nat /\ lval'.entry_len \in Nat
        /\ lval'.entry >= HeaderLen(kind)
    BY <1>4, HeaderLens DEF MovesOn, WalkInv
  <1>6. Inside'
    BY <1>2, <1>3, <1>4, <1>5 DEF MovesOn, Inside
  <1> QED  BY <1>1, <1>2, <1>3, <1>4, <1>5, <1>6 DEF WalkInv

(* No step breaks the invariant of the walk. *)
LEMMA WalkStep == WalkInv /\ [Next]_vars => WalkInv'
  <1> SUFFICES ASSUME WalkInv, [Next]_vars PROVE WalkInv'
    OBVIOUS
  <1>1. ASSUME NEW e \in Elements[kind][writer], append(e) PROVE WalkInv'
    BY <1>1, WalkAppend
  <1>2. CASE End
    BY <1>2, WalkEnd
  <1>3. ASSUME NEW a \in DOMAIN mem, NEW b \in Damages, Damage(a, b) PROVE WalkInv'
    BY <1>3, WalkDamage
  <1>4. CASE Walk
    BY <1>4, WalkWalk
  <1>5. CASE UNCHANGED vars
    BY <1>5 DEF vars, WalkInv, RoomInv, Bytes, Inside, zlbytes
  <1> QED  BY <1>1, <1>2, <1>3, <1>4, <1>5 DEF Next

(* RdbZipList::next() and RdbListPack::next() accept no element that does  *)
(* not lie between the header and the end the header gives, however many   *)
(* elements the list has and whichever byte behind the header is damaged.  *)
THEOREM PackedInside == Spec => []Inside
  <1>1. WalkInv => Inside
    BY DEF WalkInv
  <1> QED  BY <1>1, WalkInit, WalkStep, PTL DEF Spec

(* An element that is accepted lies behind the one accepted before: the    *)
(* loops over first() and next() cannot go round in a list.                *)
THEOREM PackedAdvances == Spec => Advances
  <1>1. WalkInv /\ [Next]_vars => [read # <<>> /\ read' # read => lval'.entry > lval.entry]_vars
    <2> SUFFICES ASSUME WalkInv, [Next]_vars, read # <<>>, read' # read
                 PROVE  lval'.entry > lval.entry
      OBVIOUS
    <2>1. Walk
      BY DEF Next, append, End, Damage, vars
    <2>2. lval.ok /\ medium # "open" /\ lval'.ok /\ lval' = next(kind, mem, zlbytes, lval)
      BY <2>1 DEF Walk
    <2>3. MovesOn(lval, lval', zlbytes)
      BY <2>2, NextMovesOn
    <2>4. lval.entry \in Nat /\ lval.entry_len \in Nat /\ lval'.entry \in Nat
      BY <2>3 DEF WalkInv, MovesOn
    <2>5. CASE kind = "pack"
      <3>1. lval.entry_len > 0
        BY <2>2, <2>5 DEF WalkInv
      <3> QED  BY <2>3, <2>4, <3>1 DEF MovesOn
    <2>6. CASE kind = "zip"
      <3>1. lval' = zip_next(mem, zlbytes, lval)
        BY <2>2, <2>6 DEF next
      <3> QED  BY <2>2, <3>1, BoundNat, ZipMovesOn DEF WalkInv
    <2> QED  BY <2>5, <2>6 DEF WalkInv, RoomInv, Kinds
  <1> QED  BY <1>1, WalkInit, WalkStep, PTL DEF Spec, Advances

-----------------------------------------------------------------------------
(* The types of what is read. *)

(* A byte of memory is a byte. *)
LEMMA AtByte ==
  ASSUME NEW m, Bytes(m), NEW a
  PROVE  At(m, a) \in Byte
  BY PackedAssumption DEF At, Bytes

(* One to eight bytes are extended to a word. *)
LEMMA ExtendedWord ==
  ASSUME NEW b \in Seq(Byte), Len(b) \in 1 .. 8
  PROVE  Extended(b) \in Word
  <1>1. \A i \in 1 .. 8 : (IF i > 8 - Len(b) THEN b[i - 8 + Len(b)]
                           ELSE IF b[1] >= 128 THEN 255 ELSE 0) \in Byte
    <2> TAKE i \in 1 .. 8
    <2>1. CASE i > 8 - Len(b)
      <3>1. i - 8 + Len(b) \in 1 .. Len(b)
        BY <2>1
      <3> QED  BY <2>1, <3>1, ElementOfSeq
    <2>2. CASE ~ i > 8 - Len(b)
      BY <2>2, CodeBytes
    <2> QED  BY <2>1, <2>2
  <1> QED  BY <1>1, Zenon DEF Extended, Word

(* Little reads as many bytes as it is told to. *)
LEMMA LittleSeq ==
  ASSUME NEW m, Bytes(m), NEW a \in Nat, NEW n \in Nat
  PROVE  Little(m, a, n) \in Seq(Byte) /\ Len(Little(m, a, n)) = n
  <1>1. \A i \in 1 .. n : At(m, a + n - i) \in Byte
    BY AtByte
  <1>2. Little(m, a, n) \in [1 .. n -> Byte]
    BY <1>1, Zenon DEF Little
  <1> QED  BY <1>2

(* s13() makes a word of any two bytes. *)
LEMMA S13Word ==
  ASSUME NEW m, Bytes(m), NEW a \in Nat
  PROVE  s13(m, a) \in Word
  <1> DEFINE b == At(m, a)
             y == At(m, a + 1)
             x == 16 - (b % 16)
             z == b % 32
  <1>1. b \in Byte /\ y \in Byte
    BY AtByte
  <1>2. x \in Byte /\ z \in Byte
    <2> HIDE DEF b
    <2> QED  BY <1>1 DEF Byte
  <1>3. \/ s13(m, a) = <<255, 255, 255, 255, 0, 0, x, y>>
        \/ s13(m, a) = <<0, 0, 0, 0, 0, 0, z, y>>
    BY DEF s13
  <1> HIDE DEF b, y, x, z
  <1>4. 255 \in Byte /\ 0 \in Byte
    BY CodeBytes
  <1>5. \A f, o \in Byte : /\ <<f, f, f, f, o, o, x, y>> \in Word
                           /\ <<o, o, o, o, o, o, z, y>> \in Word
    BY <1>1, <1>2 DEF Word
  <1>6. /\ <<255, 255, 255, 255, 0, 0, x, y>> \in Word
        /\ <<0, 0, 0, 0, 0, 0, z, y>> \in Word
    BY <1>4, <1>5, Zenon
  <1> QED  BY <1>3, <1>6, Zenon

(* The integer of any entry of a ziplist is a word. *)
LEMMA ZlinkIntWord ==
  ASSUME NEW m, Bytes(m), NEW a \in Nat, zip_immed(zlink_next(At(m, a)))
  PROVE  zlink_int(zlink_next(At(m, a)), m, a) \in Word
  <1> DEFINE x == At(m, a)
             c == zlink_next(x)
  <1>1. x \in Byte
    BY AtByte
  <1>2. CASE c = "IMMED_4"
    <2> DEFINE v == (x % 16) - 1
    <2>1. v \in Byte
      <3> HIDE DEF x
      <3>1. x # 240 /\ x # 224 /\ x \in 241 .. 253
        BY <1>1, <1>2 DEF zlink_next, Byte
      <3> QED  BY <3>1 DEF Byte
    <2>2. zlink_int(c, m, a) = Extended(<<v>>)
      BY <1>2 DEF zlink_int
    <2> HIDE DEF v
    <2>3. <<v>> \in Seq(Byte) /\ Len(<<v>>) = 1
      BY <2>1, ByteSeqs
    <2>4. Extended(<<v>>) \in Word
      <3> DEFINE s == <<v>>
      <3>1. s \in Seq(Byte) /\ Len(s) \in 1 .. 8
        BY <2>3
      <3> HIDE DEF s
      <3>2. Extended(s) \in Word
        BY <3>1, ExtendedWord
      <3> QED  BY <3>2 DEF s
    <2> QED  BY <2>2, <2>4
  <1>3. CASE c # "IMMED_4"
    <2> DEFINE n == zlink_size(c) - 1
    <2>1. c \in {"IMMED_16", "IMMED_32", "IMMED_64", "IMMED_24", "IMMED_8"}
      BY <1>3 DEF zip_immed
    <2>2. n \in 1 .. 8 /\ n \in Nat
      <3> HIDE DEF c
      <3> QED  BY <2>1 DEF zlink_size
    <2>3. zlink_int(c, m, a) = Extended(Little(m, a + 1, n))
      <3> HIDE DEF c
      <3> QED  BY <1>3 DEF zlink_int
    <2> HIDE DEF n, c, x
    <2>4. Little(m, a + 1, n) \in Seq(Byte) /\ Len(Little(m, a + 1, n)) = n
      BY <2>2, LittleSeq
    <2>5. Extended(Little(m, a + 1, n)) \in Word
      BY <2>2, <2>4, ExtendedWord
    <2> QED  BY <2>3, <2>5 DEF c, x
  <1> QED  BY <1>2, <1>3

(* So is that of any entry of a listpack, the unused codes included. *)
LEMMA LpIntWord ==
  ASSUME NEW m, Bytes(m), NEW a \in Nat,
         lp_immed(lp_code(At(m, a))), lp_code(At(m, a)) # "LP_END"
  PROVE  lp_int(lp_code(At(m, a)), m, a) \in Word
  <1> DEFINE x == At(m, a)
             c == lp_code(x)
  <1>1. x \in Byte
    BY AtByte
  <1>2. c \in {"7BIT_UINT", "13BIT_INT", "16BIT_INT", "24BIT_INT", "32BIT_INT",
               "64BIT_INT", "LP_UNUSED"}
    <2> HIDE DEF x
    <2> QED  BY DEF lp_code, lp_immed, x
  <1> HIDE DEF c
  <1>3. CASE c = "7BIT_UINT"
    <2> DEFINE v == x % 128
    <2>1. 0 \in Byte /\ v \in Byte
      <3> HIDE DEF x
      <3> QED  BY <1>1 DEF Byte
    <2>2. lp_int(c, m, a) = Extended(<<0, v>>)
      BY <1>3 DEF lp_int
    <2> HIDE DEF v
    <2>3. <<0, v>> \in Seq(Byte) /\ Len(<<0, v>>) = 2
      BY <2>1, ByteSeqs
    <2>4. Extended(<<0, v>>) \in Word
      <3> DEFINE s == <<0, v>>
      <3>1. s \in Seq(Byte) /\ Len(s) \in 1 .. 8
        BY <2>3
      <3> HIDE DEF s
      <3>2. Extended(s) \in Word
        BY <3>1, ExtendedWord
      <3> QED  BY <3>2 DEF s
    <2> QED  BY <2>2, <2>4 DEF c
  <1>4. CASE c = "13BIT_INT"
    <2>1. lp_int(c, m, a) = s13(m, a)
      BY <1>4 DEF lp_int
    <2> QED  BY <2>1, S13Word DEF c
  <1>5. CASE c = "LP_UNUSED"
    <2>1. lp_int(c, m, a) = Extended(<<0>>)
      BY <1>5 DEF lp_int
    <2>2. <<0>> \in Seq(Byte) /\ Len(<<0>>) = 1
      BY ByteSeqs, CodeBytes
    <2>3. Extended(<<0>>) \in Word
      <3> DEFINE s == <<0>>
      <3>1. s \in Seq(Byte) /\ Len(s) \in 1 .. 8
        BY <2>2
      <3> HIDE DEF s
      <3>2. Extended(s) \in Word
        BY <3>1, ExtendedWord
      <3> QED  BY <3>2 DEF s
    <2> QED  BY <2>1, <2>3 DEF c
  <1>6. CASE c \in {"16BIT_INT", "24BIT_INT", "32BIT_INT", "64BIT_INT"}
    <2> DEFINE n == lp_size(c) - 1
    <2>1. n \in 1 .. 8 /\ n \in Nat
      BY <1>6 DEF lp_size
    <2>2. lp_int(c, m, a) = Extended(Little(m, a + 1, n))
      BY <1>6 DEF lp_int
    <2> HIDE DEF n
    <2>3. Little(m, a + 1, n) \in Seq(Byte) /\ Len(Little(m, a + 1, n)) = n
      BY <2>1, LittleSeq
    <2>4. Extended(Little(m, a + 1, n)) \in Word
      BY <2>1, <2>3, ExtendedWord
    <2> QED  BY <2>2, <2>4 DEF c
  <1> QED  BY <1>2, <1>3, <1>4, <1>5, <1>6

(* An element, as the walk gives it. *)
Typed(v) == \/ v[1] = "int" /\ v[2] \in Word
            \/ v[1] = "str" /\ v[3] \in Nat

LEMMA TypedForms ==
  /\ \A w \in Word : Typed(<<"int", w>>)
  /\ \A a, n \in Nat : Typed(<<"str", a, n>>)
  BY DEF Typed

(* What one call of next() gives, over any bytes. *)
NextTyped(r) == r.ok \in BOOLEAN /\ (r.ok => Typed(r.val))

LEMMA StopTyped ==
  ASSUME NEW a
  PROVE  NextTyped(Stop(a))
  BY DEF NextTyped, Stop, Lval

LEMMA TakeTyped ==
  ASSUME NEW a, NEW n, NEW d, NEW back, NEW v, Typed(v), NEW end
  PROVE  NextTyped(Take(a, n, d, back, v, end))
  <1> DEFINE k == a + n + d + back <= end
             r == Take(a, n, d, back, v, end)
  <1>1. r = Lval(a, n + d + back, v, k) /\ k \in BOOLEAN
    BY DEF Take
  <1> HIDE DEF k, r
  <1>2. r.val = v /\ r.ok = k
    BY <1>1, LvalFields
  <1> QED  BY <1>1, <1>2 DEF NextTyped, r

LEMMA ZipNextTyped ==
  ASSUME NEW m, Bytes(m), NEW end \in Nat,
         NEW l, l.entry \in Nat, l.entry_len \in Nat
  PROVE  NextTyped(zip_next(m, end, l))
  <1> DEFINE a == l.entry + l.entry_len
             p == zlink_prev(At(m, a))
             b == a + zlink_size(p)
             c == zlink_next(At(m, b))
             n == zlink_size(c)
             d == zlink_length(c, m, b)
             i == zlink_int(c, m, b)
  <1>1. b \in Nat
    <2>1. p = "LEN_8" \/ p = "LEN_32" \/ p = "ZIP_END"
      BY DEF zlink_prev
    <2>2. zlink_size(p) \in Nat
      <3> HIDE DEF p
      <3> QED  BY <2>1 DEF zlink_size
    <2>3. a \in Nat
      OBVIOUS
    <2> HIDE DEF a, p
    <2> QED  BY <2>2, <2>3
  <1>2. n \in Nat
    <2>1. c \in {"LEN_6", "BIG_14", "BIG_32", "ZIP_END", "IMMED_4", "IMMED_8",
                 "IMMED_16", "IMMED_24", "IMMED_32", "IMMED_64"}
      <3> DEFINE x == At(m, b)
      <3> HIDE DEF x
      <3> QED  BY DEF x, zlink_next
    <2> HIDE DEF c
    <2> QED  BY <2>1 DEF zlink_size
  <1>3. zip_next(m, end, l) =
          IF a >= end \/ p = "ZIP_END" THEN Stop(a)
          ELSE IF b >= end \/ b + n > end THEN Stop(b)
          ELSE IF zip_immed(c) THEN Take(b, n, 0, 0, <<"int", i>>, end)
          ELSE Take(b, n, d, 0, <<"str", b + n, d>>, end)
    BY Zenon DEF zip_next
  <1> HIDE DEF a, p, b
  <1>4. zip_immed(c) => i \in Word
    BY <1>1, ZlinkIntWord
  <1>5. ~ zip_immed(c) => d \in Nat
    BY <1>1, StrLengths
  <1> HIDE DEF c, n, d, i
  <1>6. b + n \in Nat
    BY <1>1, <1>2
  <1>7. zip_immed(c) => NextTyped(Take(b, n, 0, 0, <<"int", i>>, end))
    BY <1>4, TypedForms, TakeTyped
  <1>8. ~ zip_immed(c) => NextTyped(Take(b, n, d, 0, <<"str", b + n, d>>, end))
    BY <1>5, <1>6, TypedForms, TakeTyped
  <1> QED  BY <1>3, <1>7, <1>8, StopTyped, Zenon

LEMMA LpNextTyped ==
  ASSUME NEW m, Bytes(m), NEW end \in Nat,
         NEW l, l.entry \in Nat, l.entry_len \in Nat
  PROVE  NextTyped(lp_next(m, end, l))
  <1> DEFINE a == l.entry + l.entry_len
             c == lp_code(At(m, a))
             n == lp_size(c)
             d == lp_length(c, m, a)
             i == lp_int(c, m, a)
             j == lpback_size(n)
             k == lpback_size(n + d)
  <1>1. a \in Nat
    OBVIOUS
  <1>2. n \in Nat
    <2>1. c \in {"7BIT_UINT", "6BIT_STR", "13BIT_INT", "12BIT_STR", "32BIT_STR", "16BIT_INT",
                 "24BIT_INT", "32BIT_INT", "64BIT_INT", "LP_END", "LP_UNUSED"}
      <3> DEFINE x == At(m, a)
      <3> HIDE DEF x
      <3> QED  BY DEF x, lp_code
    <2> HIDE DEF c
    <2> QED  BY <2>1 DEF lp_size
  <1>3. lp_next(m, end, l) =
          IF a >= end \/ c = "LP_END" \/ a + n > end THEN Stop(a)
          ELSE IF lp_immed(c) THEN Take(a, n, 0, j, <<"int", i>>, end)
          ELSE Take(a, n, d, k, <<"str", a + n, d>>, end)
    BY Zenon DEF lp_next
  <1> HIDE DEF a
  <1>4. lp_immed(c) /\ c # "LP_END" => i \in Word
    BY <1>1, LpIntWord
  <1>5. ~ lp_immed(c) => d \in Nat
    BY <1>1, StrLengths
  <1> HIDE DEF c, n, d, i, j, k
  <1>6. a + n \in Nat
    BY <1>1, <1>2
  <1>7. lp_immed(c) /\ c # "LP_END" => NextTyped(Take(a, n, 0, j, <<"int", i>>, end))
    BY <1>4, TypedForms, TakeTyped
  <1>8. ~ lp_immed(c) => NextTyped(Take(a, n, d, k, <<"str", a + n, d>>, end))
    BY <1>5, <1>6, TypedForms, TakeTyped
  <1> QED  BY <1>3, <1>7, <1>8, StopTyped, Zenon

TypeInv ==
  /\ WalkInv /\ medium \in {"open", "whole", "bad"} /\ lval.ok \in BOOLEAN
  /\ \E S : read \in Seq(S) /\ \A v \in S : Typed(v)

(* RdbZipList::next() and RdbListPack::next() make of any bytes, damaged   *)
(* ones and unused codes included, a 64 bit integer or a string of some    *)
(* length; and what the encoders leave in memory for elements of any value *)
(* and any length are bytes.                                               *)
THEOREM PackedTypes == Spec => []TypeOK
  <1>1. TypeInv => TypeOK
    <2> SUFFICES ASSUME TypeInv PROVE TypeOK
      OBVIOUS
    <2>1. PICK S : read \in Seq(S) /\ \A v \in S : Typed(v)
      BY DEF TypeInv
    <2>2. \A i \in 1 .. Len(read) : Typed(read[i])
      BY <2>1, ElementOfSeq
    <2>3. \A i \in 1 .. Len(read) : \/ read[i][1] = "int" /\ read[i][2] \in Word
                                    \/ read[i][1] = "str" /\ read[i][3] \in Nat
      BY <2>2, Zenon DEF Typed
    <2> QED  BY <2>3 DEF TypeInv, WalkInv, RoomInv, Bytes, TypeOK
  <1>2. Init => TypeInv
    <2> SUFFICES ASSUME Init PROVE TypeInv
      OBVIOUS
    <2>1. lval.ok = TRUE
      BY DEF Init, FirstLval, Lval
    <2>2. \E S : read \in Seq(S) /\ \A v \in S : Typed(v)
      <3> DEFINE S == {}
      <3>1. read \in Seq(S)
        BY EmptySeq DEF Init
      <3>2. \A v \in S : Typed(v)
        OBVIOUS
      <3> HIDE DEF S
      <3> QED  BY <3>1, <3>2
    <2> QED  BY <2>1, <2>2, WalkInit DEF Init, TypeInv
  <1>3. TypeInv /\ [Next]_vars => TypeInv'
    <2> SUFFICES ASSUME TypeInv, [Next]_vars PROVE TypeInv'
      OBVIOUS
    <2>1. WalkInv /\ WalkInv'
      BY WalkStep DEF TypeInv
    <2>2. PICK S : read \in Seq(S) /\ \A v \in S : Typed(v)
      BY DEF TypeInv
    <2>3. ASSUME NEW e \in Elements[kind][writer], append(e) PROVE TypeInv'
      BY <2>1, <2>2, <2>3 DEF append, TypeInv
    <2>4. CASE End
      BY <2>1, <2>2, <2>4 DEF End, TypeInv
    <2>5. ASSUME NEW a \in DOMAIN mem, NEW b \in Damages, Damage(a, b) PROVE TypeInv'
      BY <2>1, <2>2, <2>5 DEF Damage, TypeInv
    <2>6. CASE Walk
      <3>1. /\ UNCHANGED medium /\ medium # "open" /\ lval' = next(kind, mem, zlbytes, lval)
            /\ read' = IF lval'.ok THEN Append(read, lval'.val) ELSE read
        BY <2>6 DEF Walk
      <3>2. NextTyped(lval')
        <4>1. zlbytes \in Nat
          BY <2>1, <3>1, BoundNat
        <4>2. Bytes(mem) /\ lval.entry \in Nat /\ lval.entry_len \in Nat
          BY <2>1 DEF WalkInv
        <4> QED  BY <3>1, <4>1, <4>2, ZipNextTyped, LpNextTyped DEF next
      <3>3. \E T : read' \in Seq(T) /\ \A v \in T : Typed(v)
        <4>1. CASE lval'.ok
          <5> DEFINE x == lval'.val
                     T == S \cup {x}
          <5>1. \A v \in T : Typed(v)
            BY <2>2, <3>2, <4>1 DEF NextTyped
          <5>2. read \in Seq(T) /\ x \in T
            BY <2>2, SeqMonotonic, S \subseteq T
          <5>3. read' \in Seq(T)
            BY <3>1, <4>1, <5>2, AppendProperties, Zenon
          <5> QED  BY <5>1, <5>3
        <4>2. CASE ~ lval'.ok
          BY <2>2, <3>1, <4>2
        <4> QED  BY <4>1, <4>2
      <3> QED  BY <2>1, <3>1, <3>2, <3>3 DEF NextTyped, TypeInv
    <2>7. CASE UNCHANGED vars
      BY <2>1, <2>2, <2>7 DEF vars, TypeInv
    <2> QED  BY <2>3, <2>4, <2>5, <2>6, <2>7 DEF Next
  <1> QED  BY <1>1, <1>2, <1>3, PTL DEF Spec

=============================================================================
