---------------------------- MODULE RdbPackedReads ----------------------------
(***************************************************************************)
(* Every integer and every length comes back from its code, in both kinds  *)
(* of list, and so does every list of them whose own length its header     *)
(* tells.                                                                  *)
(***************************************************************************)
EXTENDS RdbPackedProofs

(* What is written for a code is in memory from a on. *)
LEMMA HeldTail ==
  ASSUME NEW m, NEW a \in Int, NEW x \in Nat, NEW s \in Seq(Byte),
         HeldAt(m, a, <<x>> \o s)
  PROVE  At(m, a) = x /\ HeldAt(m, a + 1, s)
  <1> DEFINE h == <<x>> \o s
  <1>1. /\ Len(h) = 1 + Len(s) /\ h[1] = x
        /\ \A k \in 1 .. Len(s) : h[k + 1] = s[k]
    OBVIOUS
  <1>2. \A k \in 1 .. 1 + Len(s) : At(m, a + k - 1) = h[k]
    BY <1>1 DEF HeldAt
  <1> HIDE DEF h
  <1>3. At(m, a) = x
    BY <1>1, <1>2
  <1>4. ASSUME NEW k \in 1 .. Len(s) PROVE At(m, a + 1 + k - 1) = s[k]
    <2>1. k + 1 \in 1 .. 1 + Len(s) /\ a + (k + 1) - 1 = a + 1 + k - 1
      OBVIOUS
    <2> QED  BY <1>1, <1>2, <2>1
  <1> QED  BY <1>3, <1>4 DEF HeldAt

(* Two bytes held. *)
LEMMA HeldTwo ==
  ASSUME NEW m, NEW a \in Int, NEW x, NEW y, HeldAt(m, a, <<x, y>>)
  PROVE  At(m, a) = x /\ At(m, a + 1) = y
  <1>1. \A k \in 1 .. 2 : At(m, a + k - 1) = <<x, y>>[k]
    BY DEF HeldAt
  <1> QED  BY <1>1

(* One byte held. *)
LEMMA HeldOne ==
  ASSUME NEW m, NEW a \in Int, NEW x, HeldAt(m, a, <<x>>)
  PROVE  At(m, a) = x
  <1>1. \A k \in 1 .. 1 : At(m, a + k - 1) = <<x>>[k]
    BY DEF HeldAt
  <1> QED  BY <1>1

(* The lower n bytes of a word that fits in them are read back as the word.*)
LEMMA TailReadsBack ==
  ASSUME NEW m, NEW a \in Int, NEW w \in Word, NEW n \in 1 .. 8,
         HeldAt(m, a, Reversed(Tail8(w, n))), Fits(w, n)
  PROVE  Extended(Little(m, a, n)) = w
  <1>1. Tail8(w, n) \in Seq(Byte) /\ Len(Tail8(w, n)) = n
    BY n \in 0 .. 8, TailBytes
  <1>2. Little(m, a, Len(Tail8(w, n))) = Tail8(w, n)
    BY <1>1, LittleReadsBack, Zenon
  <1>3. Little(m, a, n) = Tail8(w, n)
    BY <1>1, <1>2, Zenon
  <1> QED  BY <1>3, Zenon DEF Fits

(* The lower eight bytes of a word are the word. *)
LEMMA FullTail ==
  ASSUME NEW w \in Word
  PROVE  Tail8(w, 8) = w
  <1>1. w \in Seq(Byte) /\ Len(w) = 8
    BY WordSeq
  <1>2. SubSeq(w, 1, 8) = w
    BY <1>1, SubSeqFull, Zenon
  <1>3. 9 - 8 = 1
    OBVIOUS
  <1> QED  BY <1>2, <1>3, Zenon DEF Tail8

(* Any word fits in eight bytes. *)
LEMMA FitsAll ==
  ASSUME NEW w \in Word
  PROVE  Fits(w, 8)
  <1> DEFINE t == Tail8(w, 8)
  <1>1. Len(t) = 8 /\ \A k \in 1 .. 8 : t[k] = w[k]
    BY TailBytes
  <1> HIDE DEF t
  <1>2. Extended(t) = [i \in 1 .. 8 |-> w[i]]
    BY <1>1 DEF Extended
  <1> QED  BY <1>2, WordBytes DEF Fits, t

(* A word of one byte and of two bytes. *)
LEMMA ShortWords ==
  ASSUME NEW x \in Nat, NEW y \in Nat, x < 128
  PROVE  /\ Extended(<<x>>) = <<0, 0, 0, 0, 0, 0, 0, x>>
         /\ Extended(<<x, y>>) = <<0, 0, 0, 0, 0, 0, x, y>>
  <1>1. Extended(<<x>>) = [i \in 1 .. 8 |-> IF i > 7 THEN x ELSE 0]
    BY DEF Extended
  <1>2. Extended(<<x, y>>) = [i \in 1 .. 8 |-> IF i > 7 THEN y ELSE IF i > 6 THEN x ELSE 0]
    BY DEF Extended
  <1> QED  BY <1>1, <1>2

-----------------------------------------------------------------------------
(* The codes of a ziplist. *)

(* Every integer is read back from the code Redis writes it in. *)
THEOREM ZipIntReads ==
  ASSUME NEW w \in Word, NEW m, NEW a \in Int,
         HeldAt(m, a, zip_int_head(zip_int_code(w), w) \o
                      Reversed(Tail8(w, zlink_size(zip_int_code(w)) - 1)))
  PROVE  /\ zlink_next(At(m, a)) = zip_int_code(w)
         /\ zlink_int(zip_int_code(w), m, a) = w
         /\ zip_immed(zip_int_code(w))
  <1> DEFINE c == zip_int_code(w)
             n == zlink_size(c) - 1
  <1>1. /\ c \in {"IMMED_4", "IMMED_8", "IMMED_16", "IMMED_24", "IMMED_32", "IMMED_64"}
        /\ c = "IMMED_4" => w = Extended(<<0, w[8]>>) /\ w[8] <= 12
    BY DEF zip_int_code
  <1>2. /\ c = "IMMED_8" => Fits(w, 1)
        /\ c = "IMMED_16" => Fits(w, 2)
        /\ c = "IMMED_24" => Fits(w, 3)
        /\ c = "IMMED_32" => Fits(w, 4)
        /\ c = "IMMED_64" => Fits(w, 8)
    BY FitsAll DEF zip_int_code
  <1>3. w[8] \in 0 .. 255
    BY WordBytes DEF Byte
  <1>4. zip_immed(c)
    BY <1>1 DEF zip_immed
  <1> DEFINE r == Reversed(Tail8(w, n))
  <1>5. HeldAt(m, a, zip_int_head(c, w) \o r)
    OBVIOUS
  <1>6. CASE c = "IMMED_4"
    <2>1. n = 0 /\ zip_int_head(c, w) = <<241 + w[8]>>
      BY <1>6 DEF zlink_size, zip_int_head
    <2>2. r \in Seq(Byte) /\ 241 + w[8] \in Nat
      <3>1. r \in Seq(Byte)
        BY <2>1, ReversedTail, 0 \in 0 .. 8
      <3>2. 0 .. 255 \subseteq Nat /\ 241 + w[8] \in Nat
        BY <1>3
      <3> HIDE DEF r
      <3> QED  BY <3>1, <3>2, SeqMonotonic, Zenon
    <2> HIDE DEF c, r, n
    <2>3. At(m, a) = 241 + w[8]
      BY <1>5, <2>1, <2>2, HeldTail
    <2>4. w[8] \in 0 .. 12
      BY <1>1, <1>3, <1>6
    <2>5. zlink_next(At(m, a)) = "IMMED_4"
      BY <2>3, <2>4 DEF zlink_next
    <2>6. (At(m, a) % 16) - 1 = w[8]
      BY <2>3, <2>4
    <2>7. zlink_int(c, m, a) = Extended(<<w[8]>>)
      BY <1>6, <2>6 DEF zlink_int
    <2>8. Extended(<<w[8]>>) = Extended(<<0, w[8]>>)
      <3>1. /\ Extended(<<w[8]>>) = <<0, 0, 0, 0, 0, 0, 0, w[8]>>
            /\ Extended(<<0, w[8]>>) = <<0, 0, 0, 0, 0, 0, 0, w[8]>>
        <4> DEFINE v == w[8]
        <4>1. v \in Nat /\ v < 128 /\ 0 \in Nat /\ 0 < 128
          BY <2>4
        <4> HIDE DEF v
        <4>2. Extended(<<v>>) = <<0, 0, 0, 0, 0, 0, 0, v>>
          BY <4>1, ShortWords
        <4>3. Extended(<<0, v>>) = <<0, 0, 0, 0, 0, 0, 0, v>>
          BY <4>1, ShortWords
        <4> QED  BY <4>2, <4>3 DEF v
      <3> QED  BY <3>1, Zenon
    <2>9. zlink_int(c, m, a) = w
      BY <1>1, <1>6, <2>7, <2>8, Zenon
    <2> QED  BY <1>4, <1>6, <2>5, <2>9 DEF c
  <1>7. CASE c # "IMMED_4"
    <2>1. PICK x \in Nat : /\ zip_int_head(c, w) = <<x>> /\ zlink_next(x) = c
                          /\ n \in 1 .. 8 /\ Fits(w, n)
      <3>1. CASE c = "IMMED_8"
        BY <1>2, <3>1, zlink_next(254) = "IMMED_8" DEF zlink_size, zip_int_head, zlink_next
      <3>2. CASE c = "IMMED_16"
        BY <1>2, <3>2 DEF zlink_size, zip_int_head, zlink_next
      <3>3. CASE c = "IMMED_24"
        BY <1>2, <3>3 DEF zlink_size, zip_int_head, zlink_next
      <3>4. CASE c = "IMMED_32"
        BY <1>2, <3>4 DEF zlink_size, zip_int_head, zlink_next
      <3>5. CASE c = "IMMED_64"
        BY <1>2, <3>5 DEF zlink_size, zip_int_head, zlink_next
      <3> HIDE DEF c
      <3> QED  BY <1>1, <1>7, <3>1, <3>2, <3>3, <3>4, <3>5
    <2>2. r \in Seq(Byte)
      BY <2>1, ReversedTail, SeqMonotonic, 0 .. 255 \subseteq Nat, n \in 0 .. 8
    <2> HIDE DEF c, n
    <2>3. At(m, a) = x /\ HeldAt(m, a + 1, r)
      <3> HIDE DEF r
      <3> QED  BY <1>5, <2>1, <2>2, HeldTail
    <2>4. Extended(Little(m, a + 1, n)) = w
      BY <2>1, <2>3, TailReadsBack
    <2>5. zlink_int(c, m, a) = w
      BY <1>7, <2>4, Zenon DEF zlink_int, n
    <2> QED  BY <1>4, <2>1, <2>3, <2>5 DEF c
  <1> QED  BY <1>6, <1>7

(* So is every length that four bytes tell. *)
THEOREM ZipStrReads ==
  ASSUME NEW n \in Nat, n < Beyond, NEW m, NEW a \in Int,
         HeldAt(m, a, zip_encode_next(znext_str_code(n), n))
  PROVE  /\ zlink_next(At(m, a)) = znext_str_code(n)
         /\ zlink_length(znext_str_code(n), m, a) = n
         /\ ~ zip_immed(znext_str_code(n))
  <1> DEFINE c == znext_str_code(n)
  <1>1. c \in {"LEN_6", "BIG_14", "BIG_32"} /\ ~ zip_immed(c)
    BY DEF znext_str_code, zip_immed
  <1>3. CASE c = "LEN_6"
    <2>1. At(m, a) = n /\ n \in 0 .. 63
      <3>1. n < 64 /\ HeldAt(m, a, <<n>>)
        BY <1>3 DEF znext_str_code, zip_encode_next
      <3> QED  BY <3>1, HeldOne
    <2> HIDE DEF c
    <2>2. zlink_next(At(m, a)) = "LEN_6"
      BY <2>1 DEF zlink_next
    <2>3. zlink_length("LEN_6", m, a) = n
      BY <2>1 DEF zlink_length
    <2> QED  BY <1>1, <1>3, <2>2, <2>3 DEF c
  <1>4. CASE c = "BIG_14"
    <2> DEFINE q == n \div 256
               r == n % 256
    <2>1. n < 16384 /\ HeldAt(m, a, <<64 + q, r>>)
      BY <1>4 DEF znext_str_code, zip_encode_next
    <2>2. q \in 0 .. 63 /\ r \in 0 .. 255 /\ n = 256 * q + r
      BY <2>1
    <2> HIDE DEF c, q, r
    <2>3. At(m, a) = 64 + q /\ At(m, a + 1) = r
      BY <2>1, HeldTwo
    <2>4. zlink_next(At(m, a)) = "BIG_14"
      BY <2>2, <2>3 DEF zlink_next
    <2>5. zlink_length("BIG_14", m, a) = n
      BY <2>2, <2>3 DEF zlink_length
    <2> QED  BY <1>1, <1>4, <2>4, <2>5 DEF c
  <1>5. CASE c = "BIG_32"
    <2> DEFINE b == Bytes32(n)
    <2>1. HeldAt(m, a, <<128>> \o b)
      BY <1>5 DEF zip_encode_next
    <2>2. b \in Seq(Byte) /\ Len(b) = 4
      BY Bytes32Seq
    <2>3. b = [i \in 1 .. 4 |-> b[i]]
      BY <2>2
    <2> HIDE DEF b, c
    <2>4. At(m, a) = 128 /\ HeldAt(m, a + 1, b)
      BY <2>1, <2>2, 128 \in Nat, HeldTail
    <2>5. Big(m, a + 1, 4) = b
      BY <2>2, <2>3, <2>4 DEF HeldAt, Big
    <2>6. zlink_next(At(m, a)) = "BIG_32"
      BY <2>4 DEF zlink_next
    <2>7. Length32(Big(m, a + 1, 4)) = n
      <3>1. Told(n) = n
        BY ToldAll, n <= Beyond DEF Beyond
      <3> QED  BY <2>5, <3>1, LengthReadsBack, Zenon DEF b
    <2>8. zlink_length("BIG_32", m, a) = n
      BY <2>7 DEF zlink_length
    <2> QED  BY <1>1, <1>5, <2>6, <2>8 DEF c
  <1> QED  BY <1>1, <1>3, <1>4, <1>5

(* And the length of the entry before is passed over. *)
LEMMA PrevReads ==
  ASSUME NEW n \in Nat, NEW m, NEW a \in Int,
         HeldAt(m, a, encode_prev(zprev_code(n), n))
  PROVE  zlink_prev(At(m, a)) = zprev_code(n)
  <1>1. CASE n < 254
    <2>1. zprev_code(n) = "LEN_8" /\ encode_prev("LEN_8", n) = <<n>>
      BY <1>1 DEF zprev_code, encode_prev
    <2>2. At(m, a) = n
      <3>1. HeldAt(m, a, <<n>>)
        BY <2>1, Zenon
      <3> QED  BY <3>1, HeldOne
    <2> QED  BY <1>1, <2>1, <2>2 DEF zlink_prev
  <1>2. CASE ~ n < 254
    <2> DEFINE b == Reversed(Bytes32(n))
    <2>1. zprev_code(n) = "LEN_32" /\ encode_prev("LEN_32", n) = <<254>> \o b
      BY <1>2 DEF zprev_code, encode_prev
    <2>2. b \in Seq(Byte)
      BY Bytes32Seq
    <2> HIDE DEF b
    <2>3. HeldAt(m, a, <<254>> \o b)
      BY <2>1, Zenon
    <2>4. At(m, a) = 254
      BY <2>2, <2>3, 254 \in Nat, HeldTail
    <2> QED  BY <2>1, <2>4 DEF zlink_prev
  <1> QED  BY <1>1, <1>2

-----------------------------------------------------------------------------
(* The codes of a listpack.  s13() gets negative integers wrong, and the   *)
(* encoder of the repository three codes: of 24 bit integers, of strings   *)
(* of 4096 bytes and more, and of negative integers of 13 bits.            *)

Reads13(w) == lpnext_imm_code(w) = "13BIT_INT" => w[7] < 16

(* lp_next() reads any integer back from the code and the bytes written    *)
(* for it, but for the codes the encoders disagree on.                     *)
LEMMA PackIntReads ==
  ASSUME NEW w \in Word, NEW m, NEW a \in Int, NEW h, HeldAt(m, a, h),
         NEW e, e[2] = w, Reads13(w),
         \/ /\ lpnext_imm_code(w) # "24BIT_INT"
            /\ h = lp_encode_int(lpnext_imm_code(w), w)
         \/ /\ lpnext_imm_code(w) \in {"13BIT_INT", "24BIT_INT"}
            /\ h = redis_encode(lpnext_imm_code(w), e)
  PROVE  /\ lp_code(At(m, a)) = lpnext_imm_code(w)
         /\ lp_int(lpnext_imm_code(w), m, a) = w
         /\ lp_immed(lpnext_imm_code(w))
  <1> DEFINE c == lpnext_imm_code(w)
  <1>1. /\ c \in {"7BIT_UINT", "13BIT_INT", "16BIT_INT", "24BIT_INT", "32BIT_INT", "64BIT_INT"}
        /\ c = "7BIT_UINT" => w = Extended(<<0, w[8] % 128>>)
        /\ c = "13BIT_INT" => Fits(w, 2)
    BY DEF lpnext_imm_code
  <1>2. /\ c = "16BIT_INT" => Fits(w, 2)
        /\ c = "24BIT_INT" => Fits(w, 3)
        /\ c = "32BIT_INT" => Fits(w, 4)
        /\ c = "64BIT_INT" => Fits(w, 8)
    BY FitsAll DEF lpnext_imm_code
  <1>3. w[8] \in 0 .. 255 /\ w[7] \in 0 .. 255
    BY WordBytes DEF Byte
  <1>4. lp_immed(c)
    BY <1>1 DEF lp_immed
  <1>5. CASE c = "7BIT_UINT"
    <2> DEFINE v == w[8] % 128
    <2>1. v \in 0 .. 127
      BY <1>3
    <2>2. w[8] = v
      <3>1. w = <<0, 0, 0, 0, 0, 0, 0, v>>
        <4> HIDE DEF v
        <4>1. v \in Nat /\ 0 \in Nat /\ 0 < 128
          BY <2>1
        <4>2. Extended(<<0, v>>) = <<0, 0, 0, 0, 0, 0, 0, v>>
          BY <4>1, ShortWords
        <4>3. w = Extended(<<0, v>>)
          BY <1>1, <1>5 DEF v
        <4> QED  BY <4>2, <4>3, Zenon
      <3> HIDE DEF v
      <3> QED  BY <3>1
    <2>3. HeldAt(m, a, <<w[8]>>)
      BY <1>5 DEF lp_encode_int
    <2>4. At(m, a) = v
      BY <2>2, <2>3, HeldOne
    <2>5. lp_code(At(m, a)) = "7BIT_UINT"
      <3> HIDE DEF v
      <3> QED  BY <2>1, <2>4 DEF lp_code
    <2>6. lp_int("7BIT_UINT", m, a) = Extended(<<0, v>>)
      <3> HIDE DEF v
      <3>1. At(m, a) % 128 = v
        BY <2>1, <2>4
      <3> QED  BY <3>1 DEF lp_int
    <2> HIDE DEF c
    <2> QED  BY <1>1, <1>4, <1>5, <2>5, <2>6 DEF c
  <1>6. CASE c = "13BIT_INT"
    <2>1. w[7] \in 0 .. 15
      BY <1>3, <1>6 DEF Reads13
    <2>2. HeldAt(m, a, <<192 + w[7], w[8]>>)
      <3>1. w[7] % 16 = w[7] /\ w[7] % 32 = w[7]
        BY <2>1
      <3>2. \/ h = <<192 + (w[7] % 16), w[8]>>
            \/ h = <<192 + (w[7] % 32), w[8]>>
        BY <1>6 DEF lp_encode_int, redis_encode
      <3> QED  BY <3>1, <3>2
    <2>3. At(m, a) = 192 + w[7] /\ At(m, a + 1) = w[8]
      BY <2>2, HeldTwo
    <2>4. lp_code(At(m, a)) = "13BIT_INT"
      BY <2>1, <2>3 DEF lp_code
    <2>5. lp_int("13BIT_INT", m, a) = <<0, 0, 0, 0, 0, 0, w[7], w[8]>>
      <3>1. (At(m, a) \div 16) % 2 = 0 /\ At(m, a) % 32 = w[7]
        BY <2>1, <2>3
      <3> QED  BY <2>3, <3>1 DEF lp_int, s13
    <2>6. w = <<0, 0, 0, 0, 0, 0, w[7], w[8]>>
      <3> DEFINE t == Tail8(w, 2)
      <3>1. Len(t) = 2 /\ t \in Seq(Byte) /\ t[1] = w[7] /\ t[2] = w[8]
        BY TailBytes, 2 \in 0 .. 8
      <3>2. w = Extended(t)
        BY <1>1, <1>6 DEF Fits
      <3> HIDE DEF t
      <3>3. t = <<w[7], w[8]>>
        BY <3>1
      <3> DEFINE x == w[7]
                 y == w[8]
      <3>4. x \in Nat /\ y \in Nat /\ x < 128
        BY <1>3, <2>1
      <3>5. t = <<x, y>>
        BY <3>3
      <3> HIDE DEF x, y
      <3>6. Extended(<<x, y>>) = <<0, 0, 0, 0, 0, 0, x, y>>
        BY <3>4, ShortWords
      <3>7. w = <<0, 0, 0, 0, 0, 0, x, y>>
        BY <3>2, <3>5, <3>6, Zenon
      <3> QED  BY <3>7, Zenon DEF x, y
    <2> HIDE DEF c
    <2> QED  BY <1>1, <1>4, <1>6, <2>4, <2>5, <2>6, Zenon DEF c
  <1>7. CASE c \notin {"7BIT_UINT", "13BIT_INT"}
    <2> DEFINE n == lp_size(c) - 1
               r == Reversed(Tail8(w, n))
    <2>1. PICK x \in Nat : h = <<x>> \o r /\ lp_code(x) = c /\ n \in 1 .. 8 /\ Fits(w, n)
      <3>1. CASE c = "16BIT_INT"
        <4>1. n = 2 /\ Fits(w, 2)
          BY <1>2, <3>1 DEF lp_size
        <4>2. h = <<241>> \o Reversed(Tail8(w, 2))
          BY <3>1 DEF lp_encode_int
        <4>3. lp_code(241) = c
          BY <3>1 DEF lp_code
        <4> HIDE DEF c, n
        <4>4. h = <<241>> \o r /\ Fits(w, n)
          BY <4>1, <4>2, Zenon
        <4> QED  BY <4>1, <4>3, <4>4, 241 \in Nat
      <3>2. CASE c = "24BIT_INT"
        <4>1. n = 3 /\ Fits(w, 3)
          BY <1>2, <3>2 DEF lp_size
        <4>2. h = <<242>> \o Reversed(Tail8(w, 3))
          BY <3>2 DEF redis_encode
        <4>3. lp_code(242) = c
          BY <3>2 DEF lp_code
        <4> HIDE DEF c, n
        <4>4. h = <<242>> \o r /\ Fits(w, n)
          BY <4>1, <4>2, Zenon
        <4> QED  BY <4>1, <4>3, <4>4, 242 \in Nat
      <3>3. CASE c = "32BIT_INT"
        <4>1. n = 4 /\ Fits(w, 4)
          BY <1>2, <3>3 DEF lp_size
        <4>2. h = <<243>> \o Reversed(Tail8(w, 4))
          BY <3>3 DEF lp_encode_int
        <4>3. lp_code(243) = c
          BY <3>3 DEF lp_code
        <4> HIDE DEF c, n
        <4>4. h = <<243>> \o r /\ Fits(w, n)
          BY <4>1, <4>2, Zenon
        <4> QED  BY <4>1, <4>3, <4>4, 243 \in Nat
      <3>4. CASE c = "64BIT_INT"
        <4>1. n = 8 /\ Fits(w, 8)
          BY <1>2, <3>4 DEF lp_size
        <4>2. h = <<244>> \o Reversed(Tail8(w, 8))
          BY <3>4, FullTail DEF lp_encode_int
        <4>3. lp_code(244) = c
          BY <3>4 DEF lp_code
        <4> HIDE DEF c, n
        <4>4. h = <<244>> \o r /\ Fits(w, n)
          BY <4>1, <4>2, Zenon
        <4> QED  BY <4>1, <4>3, <4>4, 244 \in Nat
      <3> HIDE DEF c
      <3> QED  BY <1>1, <1>7, <3>1, <3>2, <3>3, <3>4
    <2>2. r \in Seq(Byte)
      BY <2>1, ReversedTail, SeqMonotonic, 0 .. 255 \subseteq Nat, n \in 0 .. 8
    <2> HIDE DEF c, n
    <2>3. At(m, a) = x /\ HeldAt(m, a + 1, r)
      <3> HIDE DEF r
      <3> QED  BY <2>1, <2>2, HeldTail
    <2>4. Extended(Little(m, a + 1, n)) = w
      BY <2>1, <2>3, TailReadsBack
    <2>5. lp_int(c, m, a) = w
      <3>1. c # "LP_UNUSED"
        BY <1>1
      <3> QED  BY <1>7, <2>4, <3>1, Zenon DEF lp_int, n
    <2> QED  BY <1>4, <2>1, <2>3, <2>5 DEF c
  <1> QED  BY <1>5, <1>6, <1>7

(* And any length of a string that four bytes tell. *)
LEMMA PackStrReads ==
  ASSUME NEW n \in Nat, n < Beyond, NEW m, NEW a \in Int, NEW h, HeldAt(m, a, h),
         NEW e, e[2] = n,
         \/ /\ lpnext_str_code(n) # "32BIT_STR"
            /\ h = lp_encode_next(lpnext_str_code(n), n)
         \/ /\ lpnext_str_code(n) = "32BIT_STR"
            /\ h = redis_encode("32BIT_STR", e)
  PROVE  /\ lp_code(At(m, a)) = lpnext_str_code(n)
         /\ lp_length(lpnext_str_code(n), m, a) = n
         /\ ~ lp_immed(lpnext_str_code(n))
  <1> DEFINE c == lpnext_str_code(n)
  <1>1. c \in {"6BIT_STR", "12BIT_STR", "32BIT_STR"} /\ ~ lp_immed(c)
    BY DEF lpnext_str_code, lp_immed
  <1>2. CASE c = "6BIT_STR"
    <2>1. At(m, a) = 128 + n /\ n \in 0 .. 63
      <3>1. n < 64 /\ HeldAt(m, a, <<128 + n>>)
        BY <1>2 DEF lpnext_str_code, lp_encode_next
      <3> QED  BY <3>1, HeldOne
    <2> HIDE DEF c
    <2>2. lp_code(At(m, a)) = "6BIT_STR"
      BY <2>1 DEF lp_code
    <2>3. lp_length("6BIT_STR", m, a) = n
      BY <2>1 DEF lp_length
    <2> QED  BY <1>1, <1>2, <2>2, <2>3 DEF c
  <1>3. CASE c = "12BIT_STR"
    <2> DEFINE q == n \div 256
               r == n % 256
    <2>1. n < 4096 /\ HeldAt(m, a, <<224 + q, r>>)
      BY <1>3 DEF lpnext_str_code, lp_encode_next
    <2>2. q \in 0 .. 15 /\ r \in 0 .. 255 /\ n = 256 * q + r
      BY <2>1
    <2> HIDE DEF c, q, r
    <2>3. At(m, a) = 224 + q /\ At(m, a + 1) = r
      BY <2>1, HeldTwo
    <2>4. lp_code(At(m, a)) = "12BIT_STR"
      BY <2>2, <2>3 DEF lp_code
    <2>5. lp_length("12BIT_STR", m, a) = n
      BY <2>2, <2>3 DEF lp_length
    <2> QED  BY <1>1, <1>3, <2>4, <2>5 DEF c
  <1>4. CASE c = "32BIT_STR"
    <2> DEFINE b == Bytes32(n)
    <2>1. HeldAt(m, a, <<240>> \o Reversed(b))
      BY <1>4 DEF redis_encode
    <2>2. b \in Seq(Byte) /\ Len(b) = 4 /\ Reversed(b) \in Seq(Byte)
      BY Bytes32Seq
    <2> HIDE DEF b, c
    <2>3. At(m, a) = 240 /\ HeldAt(m, a + 1, Reversed(b))
      BY <2>1, <2>2, 240 \in Nat, HeldTail
    <2>4. Little(m, a + 1, 4) = b
      <3>1. a + 1 \in Int
        OBVIOUS
      <3>2. Little(m, a + 1, Len(b)) = b
        BY <2>2, <2>3, <3>1, LittleReadsBack, Zenon
      <3> QED  BY <2>2, <3>2, Zenon
    <2>5. lp_code(At(m, a)) = "32BIT_STR"
      BY <2>3 DEF lp_code
    <2>6. Length32(Little(m, a + 1, 4)) = n
      <3>1. Told(n) = n
        BY ToldAll, n <= Beyond DEF Beyond
      <3> QED  BY <2>4, <3>1, LengthReadsBack, Zenon DEF b
    <2>7. lp_length("32BIT_STR", m, a) = n
      BY <2>6 DEF lp_length
    <2> QED  BY <1>1, <1>4, <2>5, <2>7 DEF c
  <1> QED  BY <1>1, <1>2, <1>3, <1>4

-----------------------------------------------------------------------------
(* An entry, and what next() makes of it. *)

(* The elements that are read as they were meant: strings of less than     *)
(* 2^24 bytes, and in a listpack what the four codes named above leave.    *)
Readable(k, wr, e) ==
  /\ e[1] = "str" => e[2] < Beyond
  /\ k = "pack" /\ e[1] = "int" => Reads13(e[2])
  /\ k = "pack" /\ wr = "repo" => CodeOf("pack", e) \notin {"24BIT_INT", "32BIT_STR"}

(* The bytes of structure before the data of element e, if the entry       *)
(* before has n bytes; the bytes behind them; and the value that is read.  *)
EntryOf(k, wr, e, n) ==
  (IF k = "zip" THEN encode_prev(zprev_code(n), n) ELSE <<>>) \o HeadOf(k, wr, e)
RestOf(k, e) ==
  DataLen(e) + IF k = "zip" THEN 0 ELSE lpback_size(SizeOf("pack", e) + DataLen(e))
ValueOf(e, data) == IF e[1] = "int" THEN e ELSE <<"str", data, e[2]>>

(* An element that ends in time is accepted. *)
LEMMA TakeReads ==
  ASSUME NEW a \in Nat, NEW n \in Nat, NEW d \in Nat, NEW back \in Nat, NEW val,
         NEW end \in Nat, a + n + d + back <= end
  PROVE  LET r == Take(a, n, d, back, val, end)
         IN  r.ok /\ r.val = val /\ r.entry = a /\ r.entry_len = n + d + back
  <1> DEFINE k == a + n + d + back <= end
             r == Take(a, n, d, back, val, end)
  <1>1. r = Lval(a, n + d + back, val, k)
    BY DEF Take
  <1>5. k
    OBVIOUS
  <1> HIDE DEF k, r
  <1>2. r.entry = a /\ r.entry_len = n + d + back /\ r.val = val
    BY <1>1, LvalFields
  <1>3. r.ok = k
    BY <1>1, LvalFields
  <1>4. r.ok
    BY <1>3, <1>5
  <1> QED  BY <1>2, <1>4 DEF r

(* And one with nothing behind its data. *)
LEMMA TakeReadsZip ==
  ASSUME NEW a \in Nat, NEW n \in Nat, NEW d \in Nat, NEW val,
         NEW end \in Nat, a + n + d <= end
  PROVE  LET r == Take(a, n, d, 0, val, end)
         IN  r.ok /\ r.val = val /\ r.entry = a /\ r.entry_len = n + d
  <1> DEFINE back == 0
  <1>1. back \in Nat /\ a + n + d + back <= end /\ n + d + back = n + d
    OBVIOUS
  <1> HIDE DEF back
  <1> DEFINE r == Take(a, n, d, back, val, end)
  <1>2. r.ok /\ r.val = val /\ r.entry = a /\ r.entry_len = n + d + back
    BY <1>1, TakeReads
  <1> HIDE DEF r
  <1>3. r.ok /\ r.val = val /\ r.entry = a /\ r.entry_len = n + d
    BY <1>1, <1>2
  <1> QED  BY <1>3 DEF r, back

(* lp_next() reads an entry back. *)
LEMMA PackEntryReads ==
  ASSUME NEW wr \in Writers, NEW e \in Elements["pack"][wr], Readable("pack", wr, e),
         NEW m, NEW a \in Nat, NEW end \in Nat,
         NEW l, l.entry + l.entry_len = a,
         HeldAt(m, a, HeadOf("pack", wr, e)),
         a + SizeOf("pack", e) + RestOf("pack", e) <= end,
         a < end
  PROVE  LET r == lp_next(m, end, l)
         IN  /\ r.ok /\ r.val = ValueOf(e, a + SizeOf("pack", e))
             /\ r.entry = a /\ r.entry_len = SizeOf("pack", e) + RestOf("pack", e)
  <1> DEFINE c == lp_code(At(m, a))
             n == lp_size(c)
             d == lp_length(c, m, a)
             x == DataLen(e)
             back == lpback_size(n + x)
  <1>0. "pack" \in Kinds
    BY DEF Kinds
  <1>1. /\ SizeOf("pack", e) \in Nat /\ x \in Nat
        /\ e = <<e[1], e[2]>>
        /\ \/ e[1] = "str" /\ e[2] \in Nat
           \/ e[1] = "int" /\ e[2] \in Word
    BY <1>0, SizesAgree, ElementForms
  <1>2. lp_next(m, end, l) =
          IF a >= end \/ c = "LP_END" \/ a + n > end THEN Stop(a)
          ELSE IF lp_immed(c)
          THEN Take(a, n, 0, lpback_size(n), <<"int", lp_int(c, m, a)>>, end)
          ELSE Take(a, n, d, lpback_size(n + d), <<"str", a + n, d>>, end)
    BY Zenon DEF lp_next
  <1>3. /\ c = CodeOf("pack", e) /\ c # "LP_END"
        /\ \/ e[1] = "int" /\ lp_immed(c) /\ lp_int(c, m, a) = e[2]
           \/ e[1] = "str" /\ ~ lp_immed(c) /\ d = e[2]
    <2>1. CASE e[1] = "str"
      <3> DEFINE s == lpnext_str_code(e[2])
      <3>1. CodeOf("pack", e) = s
        BY <2>1 DEF CodeOf
      <3>2. s \in {"6BIT_STR", "12BIT_STR", "32BIT_STR"}
        BY DEF lpnext_str_code
      <3>3. \/ s # "32BIT_STR" /\ HeadOf("pack", wr, e) = lp_encode_next(s, e[2])
            \/ s = "32BIT_STR" /\ HeadOf("pack", wr, e) = redis_encode("32BIT_STR", e)
        <4> HIDE DEF s
        <4> QED  BY <2>1, <3>1, <3>2 DEF HeadOf, Readable, Writers
      <3>4. /\ lp_code(At(m, a)) = s /\ lp_length(s, m, a) = e[2]
            /\ ~ lp_immed(s)
        BY <1>1, <2>1, <3>3, PackStrReads DEF Readable
      <3> HIDE DEF s
      <3> QED  BY <2>1, <3>1, <3>2, <3>4, Zenon
    <2>2. CASE e[1] = "int"
      <3> DEFINE s == lpnext_imm_code(e[2])
      <3>1. CodeOf("pack", e) = s
        BY <2>2 DEF CodeOf
      <3>2. s \in {"7BIT_UINT", "13BIT_INT", "16BIT_INT", "24BIT_INT", "32BIT_INT", "64BIT_INT"}
        BY DEF lpnext_imm_code
      <3>3. \/ s # "24BIT_INT" /\ HeadOf("pack", wr, e) = lp_encode_int(s, e[2])
            \/ /\ s \in {"13BIT_INT", "24BIT_INT"}
               /\ HeadOf("pack", wr, e) = redis_encode(s, e)
        <4> HIDE DEF s
        <4> QED  BY <2>2, <3>1, <3>2 DEF HeadOf, Readable, Writers
      <3>4. /\ lp_code(At(m, a)) = s /\ lp_int(s, m, a) = e[2]
            /\ lp_immed(s)
        BY <1>1, <2>2, <3>3, PackIntReads DEF Readable
      <3> HIDE DEF s
      <3> QED  BY <2>2, <3>1, <3>2, <3>4, Zenon
    <2> QED  BY <1>1, <2>1, <2>2
  <1>4. SizeOf("pack", e) = n /\ RestOf("pack", e) = x + back
    <2>1. SizeOf("pack", e) = n
      BY <1>3 DEF SizeOf
    <2> QED  BY <2>1 DEF RestOf
  <1>5. n \in Nat /\ back \in Nat /\ a + n + x + back <= end
    <2>1. n \in Nat
      BY <1>1, <1>4
    <2>2. back \in Nat
      <3> HIDE DEF n, x
      <3>1. n + x \in Nat
        BY <1>1, <2>1
      <3> QED  BY <3>1, LpBackSize
    <2> HIDE DEF n, x, back
    <2> QED  BY <1>1, <1>4, <2>1, <2>2
  <1>6. CASE e[1] = "int"
    <2>1. x = 0
      BY <1>6 DEF DataLen
    <2>2. back = lpback_size(n)
      <3> HIDE DEF n, x
      <3>1. n + x = n
        BY <1>5, <2>1
      <3> QED  BY <3>1
    <2> DEFINE v == <<"int", lp_int(c, m, a)>>
    <2>3. v = ValueOf(e, a + SizeOf("pack", e))
      BY <1>1, <1>3, <1>6 DEF ValueOf
    <2> HIDE DEF c, n, d, x, back, v
    <2>4. lp_next(m, end, l) = Take(a, n, x, back, v, end)
      <3>1. ~ (a >= end \/ a + n > end)
        BY <1>1, <1>5
      <3> QED  BY <1>2, <1>3, <1>6, <2>1, <2>2, <3>1, Zenon DEF v
    <2>5. /\ Take(a, n, x, back, v, end).ok /\ Take(a, n, x, back, v, end).val = v
          /\ Take(a, n, x, back, v, end).entry = a
          /\ Take(a, n, x, back, v, end).entry_len = n + x + back
      BY <1>1, <1>5, TakeReads
    <2>6. n + x + back = n + (x + back)
      BY <1>1, <1>5
    <2> QED  BY <1>4, <2>3, <2>4, <2>5, <2>6, Zenon
  <1>7. CASE e[1] = "str"
    <2>1. x = d /\ back = lpback_size(n + d)
      BY <1>3, <1>7 DEF DataLen
    <2> DEFINE v == <<"str", a + n, d>>
    <2>3. v = ValueOf(e, a + SizeOf("pack", e))
      BY <1>3, <1>4, <1>7 DEF ValueOf
    <2> HIDE DEF c, n, d, x, back, v
    <2>4. lp_next(m, end, l) = Take(a, n, x, back, v, end)
      <3>1. ~ (a >= end \/ a + n > end)
        BY <1>1, <1>5
      <3> QED  BY <1>2, <1>3, <1>7, <2>1, <3>1, Zenon DEF v
    <2>5. /\ Take(a, n, x, back, v, end).ok /\ Take(a, n, x, back, v, end).val = v
          /\ Take(a, n, x, back, v, end).entry = a
          /\ Take(a, n, x, back, v, end).entry_len = n + x + back
      BY <1>1, <1>5, TakeReads
    <2>6. n + x + back = n + (x + back)
      BY <1>1, <1>5
    <2> QED  BY <1>4, <2>3, <2>4, <2>5, <2>6, Zenon
  <1> QED  BY <1>1, <1>6, <1>7

(* Memory that holds two sequences holds each. *)
LEMMA HeldConcat ==
  ASSUME NEW m, NEW a \in Int, NEW s \in Seq(Byte), NEW t \in Seq(Byte),
         HeldAt(m, a, s \o t)
  PROVE  HeldAt(m, a, s) /\ HeldAt(m, a + Len(s), t)
  <1> DEFINE h == s \o t
  <1>1. /\ Len(h) = Len(s) + Len(t) /\ Len(s) \in Nat /\ Len(t) \in Nat
        /\ \A i \in 1 .. Len(s) + Len(t) : h[i] = IF i <= Len(s) THEN s[i] ELSE t[i - Len(s)]
    BY ConcatProperties, LenProperties
  <1>2. \A k \in 1 .. Len(s) + Len(t) : At(m, a + k - 1) = h[k]
    BY <1>1 DEF HeldAt
  <1> HIDE DEF h
  <1>3. ASSUME NEW k \in 1 .. Len(s) PROVE At(m, a + k - 1) = s[k]
    <2>1. k \in 1 .. Len(s) + Len(t) /\ k <= Len(s)
      BY <1>1
    <2>2. At(m, a + k - 1) = h[k] /\ h[k] = s[k]
      BY <1>1, <1>2, <2>1
    <2> QED  BY <2>2
  <1>4. ASSUME NEW k \in 1 .. Len(t) PROVE At(m, a + Len(s) + k - 1) = t[k]
    <2>1. /\ k + Len(s) \in 1 .. Len(s) + Len(t) /\ ~ k + Len(s) <= Len(s)
          /\ (k + Len(s)) - Len(s) = k /\ a + (k + Len(s)) - 1 = a + Len(s) + k - 1
      BY <1>1
    <2> QED  BY <1>1, <1>2, <2>1
  <1> QED  BY <1>3, <1>4 DEF HeldAt

(* zip_next() reads an entry back. *)
LEMMA ZipEntryReads ==
  ASSUME NEW wr \in Writers, NEW e \in Elements["zip"][wr], Readable("zip", wr, e),
         NEW prev \in Nat, NEW m, NEW a \in Nat, NEW end \in Nat,
         NEW l, l.entry + l.entry_len = a,
         HeldAt(m, a, encode_prev(zprev_code(prev), prev) \o HeadOf("zip", wr, e)),
         a + zlink_size(zprev_code(prev)) + SizeOf("zip", e) + DataLen(e) <= end,
         a + zlink_size(zprev_code(prev)) < end
  PROVE  LET r == zip_next(m, end, l)
             b == a + zlink_size(zprev_code(prev))
         IN  /\ r.ok /\ r.val = ValueOf(e, b + SizeOf("zip", e))
             /\ r.entry = b /\ r.entry_len = SizeOf("zip", e) + DataLen(e)
  <1> DEFINE p == zlink_prev(At(m, a))
             b == a + zlink_size(p)
             c == zlink_next(At(m, b))
             n == zlink_size(c)
             d == zlink_length(c, m, b)
             x == DataLen(e)
  <1>0. "zip" \in Kinds
    BY DEF Kinds
  <1>1. /\ SizeOf("zip", e) \in Nat /\ x \in Nat /\ HeadOf("zip", wr, e) \in Seq(Byte)
        /\ e = <<e[1], e[2]>>
        /\ \/ e[1] = "str" /\ e[2] \in Nat
           \/ e[1] = "int" /\ e[2] \in Word
    BY <1>0, SizesAgree, ElementForms
  <1>2. zip_next(m, end, l) =
          IF a >= end \/ p = "ZIP_END" THEN Stop(a)
          ELSE IF b >= end \/ b + n > end THEN Stop(b)
          ELSE IF zip_immed(c) THEN Take(b, n, 0, 0, <<"int", zlink_int(c, m, b)>>, end)
          ELSE Take(b, n, d, 0, <<"str", b + n, d>>, end)
    BY Zenon DEF zip_next
  <1> DEFINE h == encode_prev(zprev_code(prev), prev)
  <1>3. /\ h \in Seq(Byte) /\ Len(h) = zlink_size(zprev_code(prev))
        /\ zprev_code(prev) \in {"LEN_8", "LEN_32"}
    BY PrevSize
  <1>4. HeldAt(m, a, h) /\ HeldAt(m, a + Len(h), HeadOf("zip", wr, e))
    <2> HIDE DEF h
    <2> QED  BY <1>1, <1>3, HeldConcat DEF h
  <1>5. p = zprev_code(prev) /\ p # "ZIP_END"
    <2>1. p = zprev_code(prev)
      BY <1>4, PrevReads
    <2> HIDE DEF p
    <2> QED  BY <1>3, <2>1
  <1>6. b = a + Len(h) /\ b \in Nat /\ HeldAt(m, b, HeadOf("zip", wr, e)) /\ a < end
    <2>1. b = a + Len(h)
      BY <1>3, <1>5, Zenon
    <2> HIDE DEF b, h
    <2>2. Len(h) \in Nat
      BY <1>3, LenProperties
    <2>3. a < end
      BY <1>3, <2>2
    <2> QED  BY <1>4, <2>1, <2>2, <2>3
  <1>7. /\ c = CodeOf("zip", e)
        /\ \/ e[1] = "int" /\ zip_immed(c) /\ zlink_int(c, m, b) = e[2]
           \/ e[1] = "str" /\ ~ zip_immed(c) /\ d = e[2]
    <2> HIDE DEF p, b
    <2>1. CASE e[1] = "str"
      <3> DEFINE s == znext_str_code(e[2])
      <3>1. CodeOf("zip", e) = s
        BY <2>1 DEF CodeOf
      <3>2. HeadOf("zip", wr, e) = zip_encode_next(s, e[2])
        BY <2>1, <3>1 DEF HeadOf
      <3>3. HeldAt(m, b, zip_encode_next(s, e[2]))
        BY <1>6, <3>2, Zenon
      <3>4. /\ zlink_next(At(m, b)) = s /\ zlink_length(s, m, b) = e[2]
            /\ ~ zip_immed(s)
        <4>1. e[2] \in Nat /\ e[2] < Beyond /\ b \in Int
          BY <1>1, <1>6, <2>1 DEF Readable
        <4> HIDE DEF s
        <4> QED  BY <3>3, <4>1, ZipStrReads DEF s
      <3> HIDE DEF s
      <3> QED  BY <2>1, <3>1, <3>4, Zenon
    <2>2. CASE e[1] = "int"
      <3> DEFINE s == zip_int_code(e[2])
      <3>1. CodeOf("zip", e) = s
        BY <2>2 DEF CodeOf
      <3>2. HeadOf("zip", wr, e) = zip_int_head(s, e[2]) \o
                                   Reversed(Tail8(e[2], zlink_size(s) - 1))
        BY <2>2, <3>1 DEF HeadOf
      <3>3. HeldAt(m, b, zip_int_head(s, e[2]) \o Reversed(Tail8(e[2], zlink_size(s) - 1)))
        BY <1>6, <3>2, Zenon
      <3>4. /\ zlink_next(At(m, b)) = s /\ zlink_int(s, m, b) = e[2]
            /\ zip_immed(s)
        BY <1>1, <1>6, <2>2, <3>3, ZipIntReads
      <3> HIDE DEF s
      <3> QED  BY <2>2, <3>1, <3>4, Zenon
    <2> QED  BY <1>1, <2>1, <2>2
  <1>8. SizeOf("zip", e) = n
    BY <1>7 DEF SizeOf
  <1>9. n \in Nat /\ b + n + x <= end /\ ~ (a >= end) /\ ~ (b >= end \/ b + n > end)
    <2>1. b = a + zlink_size(zprev_code(prev))
      BY <1>5
    <2>2. b + n + x <= end /\ b < end
      BY <1>8, <2>1
    <2> HIDE DEF n, x, b
    <2> QED  BY <1>1, <1>6, <1>8, <2>2
  <1>10. CASE e[1] = "int"
    <2>1. x = 0
      BY <1>10 DEF DataLen
    <2> DEFINE v == <<"int", zlink_int(c, m, b)>>
    <2>3. v = ValueOf(e, b + SizeOf("zip", e))
      BY <1>1, <1>7, <1>10 DEF ValueOf
    <2> HIDE DEF c, n, d, x, b, v, p
    <2>4. zip_next(m, end, l) = Take(b, n, x, 0, v, end)
      BY <1>2, <1>5, <1>7, <1>9, <1>10, <2>1, Zenon DEF v
    <2>5. /\ Take(b, n, x, 0, v, end).ok /\ Take(b, n, x, 0, v, end).val = v
          /\ Take(b, n, x, 0, v, end).entry = b
          /\ Take(b, n, x, 0, v, end).entry_len = n + x
      <3>1. b \in Nat /\ n \in Nat /\ x \in Nat /\ end \in Nat /\ b + n + x <= end
        BY <1>1, <1>6, <1>9
      <3> DEFINE t == Take(b, n, x, 0, v, end)
      <3>2. t.ok /\ t.val = v /\ t.entry = b /\ t.entry_len = n + x
        BY <3>1, TakeReadsZip
      <3> QED  BY <3>2 DEF t
    <2> QED  BY <1>5, <1>8, <2>3, <2>4, <2>5, Zenon DEF b, x
  <1>11. CASE e[1] = "str"
    <2>1. x = d
      BY <1>7, <1>11 DEF DataLen
    <2> DEFINE v == <<"str", b + n, d>>
    <2>3. v = ValueOf(e, b + SizeOf("zip", e))
      BY <1>7, <1>8, <1>11 DEF ValueOf
    <2> HIDE DEF c, n, d, x, b, v, p
    <2>4. zip_next(m, end, l) = Take(b, n, x, 0, v, end)
      BY <1>2, <1>5, <1>7, <1>9, <1>11, <2>1, Zenon DEF v
    <2>5. /\ Take(b, n, x, 0, v, end).ok /\ Take(b, n, x, 0, v, end).val = v
          /\ Take(b, n, x, 0, v, end).entry = b
          /\ Take(b, n, x, 0, v, end).entry_len = n + x
      <3>1. b \in Nat /\ n \in Nat /\ x \in Nat /\ end \in Nat /\ b + n + x <= end
        BY <1>1, <1>6, <1>9
      <3> DEFINE t == Take(b, n, x, 0, v, end)
      <3>2. t.ok /\ t.val = v /\ t.entry = b /\ t.entry_len = n + x
        BY <3>1, TakeReadsZip
      <3> QED  BY <3>2 DEF t
    <2> QED  BY <1>5, <1>8, <2>3, <2>4, <2>5, Zenon DEF b, x
  <1> QED  BY <1>1, <1>10, <1>11

(* Both kinds of list in one: from the entry at a to the one behind it.    *)
LEMMA EntryReads ==
  ASSUME NEW k \in Kinds, NEW wr \in Writers, NEW e \in Elements[k][wr],
         Readable(k, wr, e), NEW prev \in Nat,
         NEW m, NEW a \in Nat, NEW end \in Nat,
         NEW l, l.entry + l.entry_len = a,
         HeldAt(m, a, EntryOf(k, wr, e, prev)),
         a + Len(EntryOf(k, wr, e, prev)) + RestOf(k, e) < end
  PROVE  LET r == next(k, m, end, l)
             data == a + Len(EntryOf(k, wr, e, prev))
         IN  r.ok /\ r.val = ValueOf(e, data) /\ r.entry + r.entry_len = data + RestOf(k, e)
  <1> DEFINE size == SizeOf(k, e)
             rest == RestOf(k, e)
             head == HeadOf(k, wr, e)
  <1>1. /\ size \in Nat /\ DataLen(e) \in Nat
        /\ head \in Seq(Byte) /\ Len(head) = size
    BY SizesAgree
  <1>2. CASE k = "pack"
    <2>1. EntryOf(k, wr, e, prev) = head
      <3>1. EntryOf(k, wr, e, prev) = <<>> \o head
        BY <1>2 DEF EntryOf
      <3> HIDE DEF head
      <3> QED  BY <1>1, <3>1, ConcatEmptySeq
    <2>2. rest \in Nat
      <3> DEFINE x == SizeOf("pack", e) + DataLen(e)
      <3>1. x \in Nat
        BY <1>1, <1>2
      <3>2. lpback_size(x) \in Nat
        <4> HIDE DEF x
        <4> QED  BY <3>1, LpBackSize
      <3>3. rest = DataLen(e) + lpback_size(x)
        BY <1>2 DEF RestOf
      <3> HIDE DEF x, rest
      <3> QED  BY <1>1, <3>2, <3>3
    <2>3. Len(EntryOf(k, wr, e, prev)) = size /\ HeldAt(m, a, head)
      BY <1>1, <2>1, Zenon
    <2> DEFINE r == lp_next(m, end, l)
    <2>4. a + size + rest <= end /\ a < end
      <3> HIDE DEF size, rest
      <3> QED  BY <1>1, <2>2, <2>3 DEF rest
    <2>5. /\ r.ok /\ r.val = ValueOf(e, a + size) /\ r.entry = a /\ r.entry_len = size + rest
      BY <1>2, <2>3, <2>4, PackEntryReads
    <2>6. next(k, m, end, l) = r
      BY <1>2 DEF next
    <2> HIDE DEF size, rest, head, r
    <2>7. r.entry + r.entry_len = a + size + rest
      BY <1>1, <2>2, <2>5
    <2> QED  BY <2>3, <2>5, <2>6, <2>7, Zenon DEF rest
  <1>3. CASE k = "zip"
    <2> DEFINE h == encode_prev(zprev_code(prev), prev)
               z == zlink_size(zprev_code(prev))
    <2>1. EntryOf(k, wr, e, prev) = h \o head /\ rest = DataLen(e)
      <3>1. EntryOf(k, wr, e, prev) = h \o head
        BY <1>3 DEF EntryOf
      <3>2. rest = DataLen(e) + 0
        BY <1>3 DEF RestOf
      <3> HIDE DEF h, head, rest
      <3> QED  BY <1>1, <3>1, <3>2
    <2>2. h \in Seq(Byte) /\ Len(h) = z /\ z \in Nat
      BY PrevSize, LenProperties
    <2>3. Len(EntryOf(k, wr, e, prev)) = z + size
      <3> HIDE DEF h, head, size, z
      <3>1. Len(h \o head) = Len(h) + Len(head)
        BY <1>1, <2>2, ConcatProperties, Zenon
      <3> QED  BY <1>1, <2>1, <2>2, <3>1, Zenon
    <2>4. HeldAt(m, a, h \o head)
      BY <2>1, Zenon
    <2>5. a + z + size + DataLen(e) <= end /\ a + z < end
      <3>1. a + Len(EntryOf(k, wr, e, prev)) + rest < end
        OBVIOUS
      <3> HIDE DEF size, rest, z
      <3> QED  BY <1>1, <2>1, <2>2, <2>3, <3>1
    <2> DEFINE r == zip_next(m, end, l)
    <2>6. /\ r.ok /\ r.val = ValueOf(e, a + z + size) /\ r.entry = a + z
          /\ r.entry_len = size + DataLen(e)
      BY <1>3, <2>4, <2>5, ZipEntryReads
    <2>7. next(k, m, end, l) = r
      BY <1>3 DEF next
    <2> HIDE DEF size, rest, head, h, z, r
    <2>8. r.entry + r.entry_len = a + (z + size) + rest /\ a + z + size = a + (z + size)
      BY <1>1, <2>1, <2>2, <2>6
    <2> QED  BY <2>3, <2>6, <2>7, <2>8, Zenon DEF rest
  <1> QED  BY <1>2, <1>3 DEF Kinds

-----------------------------------------------------------------------------
(* Where the entries of a list lie. *)

(* The entry at a, of value v, ends at b. *)
EntryIs(k, wr, m, a, v, b) ==
  \E e \in Elements[k][wr], prev \in Nat :
    /\ HeldAt(m, a, EntryOf(k, wr, e, prev))
    /\ v = ValueOf(e, a + Len(EntryOf(k, wr, e, prev)))
    /\ b = a + Len(EntryOf(k, wr, e, prev)) + RestOf(k, e)

(* The mark is here, or will be. *)
ListEnd == IF medium = "open" THEN enc.off ELSE enc.off - 1
StartOf(i) == IF i \in 1 .. Len(starts) THEN starts[i] ELSE ListEnd

Laid == /\ StartOf(1) = HeaderLen(kind)
        /\ \A i \in 1 .. Len(written) :
              /\ starts[i] >= HeaderLen(kind) /\ StartOf(i + 1) <= ListEnd
              /\ EntryIs(kind, writer, mem, starts[i], written[i], StartOf(i + 1))

(* The walk is at the entry behind those it has read, or has read all. *)
AtEntry == /\ At(mem, ListEnd) = 255
           /\ Len(read) \in 0 .. Len(written) /\ read = SubSeq(written, 1, Len(read))
           /\ lval.ok => lval.entry + lval.entry_len = StartOf(Len(read) + 1)
           /\ ~ lval.ok => read = written

ReadInv == /\ WalkInv
           /\ starts \in Seq(Nat) /\ Len(starts) = Len(written)
           /\ Len(written) <= MaxElements
           /\ kind = "pack" => enc.items = Len(written)
           /\ medium # "bad" => Laid
           /\ medium = "whole" => zllen = Capped(Len(written))
           /\ medium = "whole" /\ Short => AtEntry

(* An entry is made of numbers. *)
LEMMA EntryBytes ==
  ASSUME NEW k \in Kinds, NEW wr \in Writers, NEW e \in Elements[k][wr], NEW prev \in Nat
  PROVE  /\ EntryOf(k, wr, e, prev) \in Seq(Byte) /\ Len(EntryOf(k, wr, e, prev)) \in Nat
         /\ RestOf(k, e) \in Nat
  <1>1. /\ SizeOf(k, e) \in Nat /\ DataLen(e) \in Nat
        /\ HeadOf(k, wr, e) \in Seq(Byte)
    BY SizesAgree
  <1>2. (IF k = "zip" THEN encode_prev(zprev_code(prev), prev) ELSE <<>>) \in Seq(Byte)
    BY PrevSize, EmptySeq
  <1>3. EntryOf(k, wr, e, prev) \in Seq(Byte)
    BY <1>1, <1>2, ConcatProperties, Zenon DEF EntryOf
  <1>4. RestOf(k, e) \in Nat
    <2>1. CASE k = "zip"
      BY <1>1, <2>1 DEF RestOf
    <2>2. CASE k = "pack"
      <3> DEFINE x == SizeOf("pack", e) + DataLen(e)
      <3>1. x \in Nat
        BY <1>1, <2>2
      <3>2. RestOf(k, e) = DataLen(e) + lpback_size(x)
        BY <2>2 DEF RestOf
      <3> HIDE DEF x
      <3>3. lpback_size(x) \in Nat
        BY <3>1, LpBackSize
      <3> QED  BY <1>1, <3>2, <3>3
    <2> QED  BY <2>1, <2>2 DEF Kinds
  <1> QED  BY <1>3, <1>4, LenProperties

(* What is stored is held. *)
LEMMA StoreHeld ==
  ASSUME NEW m, NEW a \in Int, NEW s \in Seq(Byte)
  PROVE  HeldAt(Store(m, a, s), a, s)
  <1> SUFFICES ASSUME NEW k \in 1 .. Len(s) PROVE At(Store(m, a, s), a + k - 1) = s[k]
    BY DEF HeldAt
  <1>1. Len(s) \in Nat
    BY LenProperties
  <1> DEFINE i == a + k - 1
  <1>2. i \in Int /\ i \in a .. (a + Len(s) - 1) /\ i - a + 1 = k
    BY <1>1
  <1> HIDE DEF i
  <1>3. At(Store(m, a, s), i) = s[k]
    BY <1>2, StoreAt
  <1> QED  BY <1>3 DEF i

(* A store elsewhere keeps what is held. *)
LEMMA StoreKeeps ==
  ASSUME NEW m, NEW a \in Int, NEW s \in Seq(Byte), NEW b \in Int, NEW h \in Seq(Byte),
         a >= b + Len(h) \/ a + Len(s) <= b, HeldAt(m, b, h)
  PROVE  HeldAt(Store(m, a, s), b, h)
  <1> SUFFICES ASSUME NEW k \in 1 .. Len(h) PROVE At(Store(m, a, s), b + k - 1) = h[k]
    BY DEF HeldAt
  <1>1. Len(s) \in Nat /\ Len(h) \in Nat
    BY LenProperties
  <1>2. At(m, b + k - 1) = h[k]
    BY DEF HeldAt
  <1> DEFINE i == b + k - 1
  <1>3. i \in Int /\ i \notin a .. (a + Len(s) - 1)
    BY <1>1
  <1> HIDE DEF i
  <1>4. At(Store(m, a, s), i) = At(m, i)
    BY <1>3, StoreAt
  <1> QED  BY <1>2, <1>4 DEF i

(* A store elsewhere keeps an entry. *)
LEMMA EntryKept ==
  ASSUME NEW k \in Kinds, NEW wr \in Writers, NEW m, NEW a \in Nat, NEW v, NEW b,
         EntryIs(k, wr, m, a, v, b),
         NEW c \in Int, NEW s \in Seq(Byte), c >= b \/ c + Len(s) <= a
  PROVE  EntryIs(k, wr, Store(m, c, s), a, v, b)
  <1>1. PICK e \in Elements[k][wr], prev \in Nat :
          /\ HeldAt(m, a, EntryOf(k, wr, e, prev))
          /\ v = ValueOf(e, a + Len(EntryOf(k, wr, e, prev)))
          /\ b = a + Len(EntryOf(k, wr, e, prev)) + RestOf(k, e)
    BY DEF EntryIs
  <1> DEFINE h == EntryOf(k, wr, e, prev)
  <1>2. h \in Seq(Byte) /\ Len(h) \in Nat /\ RestOf(k, e) \in Nat
    BY EntryBytes
  <1>3. HeldAt(Store(m, c, s), a, h)
    <2>1. HeldAt(m, a, h) /\ b = a + Len(h) + RestOf(k, e)
      BY <1>1
    <2> HIDE DEF h
    <2>2. c >= a + Len(h) \/ c + Len(s) <= a
      BY <1>2, <2>1
    <2> QED  BY <1>2, <2>1, <2>2, StoreKeeps
  <1> QED  BY <1>1, <1>3 DEF EntryIs

(* Of n bytes, the last two are x, the least significant first. *)
EndsIn(s, n, x) ==
  s \in Seq(Byte) /\ Len(s) = n /\ s[n - 1] = x % 256 /\ s[n] = x \div 256

(* Four bytes in front do not change the end. *)
LEMMA EndOfConcat ==
  ASSUME NEW s \in Seq(Byte), Len(s) = 4, NEW r, NEW x \in Nat,
         NEW n \in Nat, n > 1, EndsIn(r, n, x)
  PROVE  EndsIn(s \o r, n + 4, x)
  <1> DEFINE h == s \o r
  <1>1. /\ h \in Seq(Byte) /\ Len(h) = Len(s) + Len(r)
        /\ \A i \in 1 .. Len(s) + Len(r) : h[i] = IF i <= Len(s) THEN s[i] ELSE r[i - Len(s)]
    <2>1. s \in Seq(Byte) /\ r \in Seq(Byte)
      BY DEF EndsIn
    <2> QED  BY <2>1, ConcatProperties, Zenon
  <1> HIDE DEF h
  <1>2. Len(r) = n /\ r[n - 1] = x % 256 /\ r[n] = x \div 256
    BY DEF EndsIn
  <1>3. /\ n + 4 \in 1 .. Len(s) + Len(r) /\ ~ n + 4 <= Len(s) /\ (n + 4) - Len(s) = n
        /\ n + 3 \in 1 .. Len(s) + Len(r) /\ ~ n + 3 <= Len(s) /\ (n + 3) - Len(s) = n - 1
    BY <1>2
  <1>4. h[n + 4] = x \div 256 /\ h[n + 3] = x % 256 /\ Len(h) = n + 4 /\ (n + 4) - 1 = n + 3
    BY <1>1, <1>2, <1>3
  <1> QED  BY <1>1, <1>4 DEF EndsIn, h

(* A header ends in the count of the elements. *)
LEMMA HeaderShape ==
  ASSUME NEW c, c.off \in Nat, c.prev_off \in Nat, c.items \in Nat, Len(written) \in Nat
  PROVE  EndsIn(Header(c), HeaderLen(kind),
                Capped(IF kind = "zip" THEN Len(written) ELSE c.items))
  <1> DEFINE b == Reversed(Bytes32(c.off))
             t == Reversed(Bytes32(c.prev_off))
             y == IF kind = "zip" THEN Len(written) ELSE c.items
             x == Capped(y)
             r == Count16(y)
  <1>1. b \in Seq(Byte) /\ Len(b) = 4 /\ t \in Seq(Byte) /\ Len(t) = 4
    BY Bytes32Seq
  <1>2. y \in Nat /\ x \in Nat
    BY DEF Capped
  <1>3. EndsIn(r, 2, x)
    <2> HIDE DEF y
    <2>1. r \in Seq(Byte) /\ Len(r) = 2
      BY <1>2, Count16Seq
    <2>2. r = <<x % 256, x \div 256>>
      BY DEF Count16
    <2> HIDE DEF x, r
    <2>3. r[2 - 1] = x % 256 /\ r[2] = x \div 256
      BY <1>2, <2>2
    <2> QED  BY <2>1, <2>3 DEF EndsIn
  <1>4. 2 \in Nat /\ 2 > 1 /\ 2 + 4 = 6 /\ 6 \in Nat /\ 6 > 1 /\ 6 + 4 = 10
    OBVIOUS
  <1> HIDE DEF x, r, t, b, y
  <1>5. EndsIn(t \o r, 6, x) /\ EndsIn(b \o r, 6, x)
    BY <1>1, <1>2, <1>3, <1>4, EndOfConcat, Zenon
  <1>6. EndsIn(b \o (t \o r), 10, x)
    BY <1>1, <1>2, <1>4, <1>5, EndOfConcat, Zenon
  <1>7. CASE kind = "zip"
    <2>1. Header(c) = b \o (t \o r) /\ HeaderLen(kind) = 10
      BY <1>7, Zenon DEF Header, HeaderLen, b, t, r, y
    <2> QED  BY <1>6, <2>1, Zenon DEF x, y
  <1>8. CASE kind # "zip"
    <2>1. Header(c) = b \o r /\ HeaderLen(kind) = 6
      BY <1>8, Zenon DEF Header, HeaderLen, b, r, y
    <2> QED  BY <1>5, <2>1, Zenon DEF x, y
  <1> QED  BY <1>7, <1>8

-----------------------------------------------------------------------------
(* The layout is kept by every step. *)

(* What the lists may hold are such elements only. *)
AllReadable == \A k \in Kinds, w \in Writers : \A e \in Elements[k][w] : Readable(k, w, e)

(* At first nothing is laid out. *)
LEMMA ReadInit == Init => ReadInv
  <1> SUFFICES ASSUME Init PROVE ReadInv
    OBVIOUS
  <1>1. WalkInv
    BY WalkInit
  <1>2. starts = <<>> /\ written = <<>> /\ medium = "open"
    BY DEF Init
  <1>3. starts \in Seq(Nat) /\ Len(starts) = 0 /\ Len(written) = 0
    BY <1>2
  <1>4. enc.off = HeaderLen(kind) /\ enc.items = 0
    BY DEF Init, NewEncode
  <1>5. Laid
    BY <1>2, <1>3, <1>4 DEF Laid, StartOf, ListEnd
  <1>6. 0 <= MaxElements
    BY PackedAssumption
  <1> QED  BY <1>1, <1>2, <1>3, <1>4, <1>5, <1>6 DEF ReadInv

(* An append lays an entry behind the last one. *)
LEMMA ReadAppend ==
  ASSUME ReadInv, NEW e \in Elements[kind][writer], append(e)
  PROVE  ReadInv'
  <1>0. PICK N \in Nat : N = Len(written)
    <2>1. Len(written) \in Nat
      BY LenProperties DEF ReadInv, WalkInv
    <2> QED  BY <2>1
  <1> DEFINE data == enc.off + Len(Before(e))
             tail == data + DataLen(e)
             size == Len(Before(e)) + DataLen(e) + Len(After(e))
  <1>1. /\ WalkInv /\ WalkInv' /\ RoomInv /\ kind \in Kinds /\ writer \in Writers
        /\ medium = "open" /\ medium' = "open" /\ UNCHANGED <<kind, writer>>
        /\ N < MaxElements
    BY <1>0, WalkAppend DEF ReadInv, WalkInv, RoomInv, append
  <1>2. /\ Before(e) \in Seq(Byte) /\ After(e) \in Seq(Byte) /\ DataLen(e) \in Nat
        /\ Len(Before(e)) \in Nat /\ Len(After(e)) \in Nat
    BY <1>1, AppendWrites, LenProperties
  <1>3. enc.off \in Nat /\ enc.off >= HeaderLen(kind) /\ enc.items \in Nat
    BY <1>1 DEF WalkInv, RoomInv, Encoder
  <1>4. /\ starts \in Seq(Nat) /\ Len(starts) = N /\ Laid
    BY <1>0, <1>1 DEF ReadInv
  <1>5. /\ starts' = Append(starts, enc.off)
        /\ starts' \in Seq(Nat) /\ Len(starts') = N + 1
        /\ \A i \in 1 .. N : starts'[i] = starts[i]
        /\ starts'[N + 1] = enc.off
    BY <1>3, <1>4, AppendProperties DEF append
  <1> DEFINE v == IF e[1] = "int" THEN e ELSE <<"str", data, e[2]>>
  <1>6. /\ Len(written') = N + 1
        /\ \A i \in 1 .. N : written'[i] = written[i]
        /\ written'[N + 1] = v
    <2>1. PICK S : written \in Seq(S)
      BY <1>1 DEF WalkInv
    <2>2. written' = Append(written, v)
      BY DEF append
    <2>3. written \in Seq(S \cup {v})
      BY <2>1, SeqMonotonic, S \subseteq S \cup {v}
    <2> HIDE DEF v
    <2>4. v \in S \cup {v}
      OBVIOUS
    <2> QED  BY <1>0, <2>2, <2>3, <2>4, AppendProperties
  <1>7. enc'.off = enc.off + size /\ (kind = "pack" => enc'.items = enc.items + 1)
    <2>1. enc' = IF kind = "zip" THEN zip_append(enc, e, size) ELSE lp_append(enc, e, size)
      BY DEF append
    <2> HIDE DEF size
    <2> QED  BY <1>1, <2>1 DEF zip_append, lp_append, RoomInv, Encoder
  <1>8. mem' = Store(Store(mem, enc.off, Before(e)), tail, After(e))
    BY DEF append
  <1>9. /\ ListEnd = enc.off /\ ListEnd' = enc.off + size /\ ListEnd \in Nat /\ ListEnd' \in Nat
        /\ ListEnd <= ListEnd'
    <2>1. ListEnd = enc.off /\ ListEnd' = enc.off + size
      BY <1>1, <1>7 DEF ListEnd
    <2>2. size \in Nat
      BY <1>2
    <2> HIDE DEF size
    <2> QED  BY <1>3, <2>1, <2>2
  <1>10. \A i \in 1 .. N + 1 : StartOf(i)' = StartOf(i)
    <2> TAKE i \in 1 .. N + 1
    <2>1. StartOf(i)' = starts'[i]
      BY <1>5 DEF StartOf
    <2>2. CASE i \in 1 .. N
      BY <1>4, <1>5, <2>1, <2>2 DEF StartOf
    <2>3. CASE i = N + 1
      BY <1>4, <1>5, <1>9, <2>1, <2>3 DEF StartOf
    <2> QED  BY <1>4, <2>2, <2>3
  <1>11. StartOf(N + 2)' = ListEnd'
    <2>1. N + 2 \notin 1 .. Len(starts')
      BY <1>4, <1>5
    <2> QED  BY <2>1 DEF StartOf
  <1>12. StartOf(1)' = HeaderLen(kind)
    BY <1>4, <1>10 DEF Laid
  <1>13. ASSUME NEW i \in 1 .. N
         PROVE  /\ starts'[i] >= HeaderLen(kind) /\ StartOf(i + 1)' <= ListEnd'
                /\ EntryIs(kind, writer, mem', starts'[i], written'[i], StartOf(i + 1)')
    <2>1. /\ starts[i] >= HeaderLen(kind) /\ StartOf(i + 1) <= ListEnd
          /\ EntryIs(kind, writer, mem, starts[i], written[i], StartOf(i + 1))
      BY <1>0, <1>4 DEF Laid
    <2>2. starts'[i] = starts[i] /\ written'[i] = written[i] /\ starts[i] \in Nat
      BY <1>4, <1>5, <1>6, ElementOfSeq
    <2>3. StartOf(i + 1)' = StartOf(i + 1)
      BY <1>10
    <2> DEFINE b == StartOf(i + 1)
    <2>4. enc.off >= b /\ tail >= b /\ tail \in Int /\ b <= ListEnd'
      <3>1. b \in Int
        BY <1>4, <1>9, ElementOfSeq DEF StartOf
      <3>2. b <= ListEnd
        BY <2>1
      <3> HIDE DEF b
      <3> QED  BY <1>2, <1>3, <1>9, <3>1, <3>2
    <2> HIDE DEF b, tail
    <2> DEFINE m == Store(mem, enc.off, Before(e))
    <2>5. EntryIs(kind, writer, m, starts[i], written[i], b)
      BY <1>1, <1>2, <1>3, <2>1, <2>2, <2>4, EntryKept DEF b
    <2> HIDE DEF m
    <2>6. EntryIs(kind, writer, Store(m, tail, After(e)), starts[i], written[i], b)
      BY <1>1, <1>2, <2>2, <2>4, <2>5, EntryKept
    <2>7. EntryIs(kind, writer, mem', starts[i], written[i], b)
      BY <1>8, <2>6, Zenon DEF m
    <2> QED  BY <2>1, <2>2, <2>3, <2>4, <2>7, Zenon DEF b
  <1>14. /\ starts'[N + 1] >= HeaderLen(kind) /\ StartOf(N + 2)' <= ListEnd'
         /\ EntryIs(kind, writer, mem', starts'[N + 1], written'[N + 1], StartOf(N + 2)')
    <2> DEFINE prev == enc.link_sz + zlink_size(enc.prev)
               h == EntryOf(kind, writer, e, prev)
               m == Store(mem, enc.off, h)
    <2>1. prev \in Nat
      <3>1. \A c \in {"ZIP_END", "LEN_8", "LEN_32"} : zlink_size(c) \in Nat
        BY DEF zlink_size
      <3> QED  BY <1>1, <3>1 DEF RoomInv, Encoder
    <2>2. Before(e) = h
      BY DEF Before, EntryOf, zip_prev
    <2>3. HeldAt(Store(m, tail, After(e)), enc.off, h)
      <3>1. HeldAt(m, enc.off, h)
        BY <1>2, <1>3, <2>2, StoreHeld
      <3>2. tail \in Int /\ tail >= enc.off + Len(h)
        <4>1. tail \in Int /\ tail >= enc.off + Len(Before(e))
          BY <1>2, <1>3
        <4> QED  BY <2>2, <4>1, Zenon
      <3>3. h \in Seq(Byte)
        BY <1>2, <2>2, Zenon
      <3> HIDE DEF m, h, tail
      <3> QED  BY <1>2, <1>3, <3>1, <3>2, <3>3, StoreKeeps
    <2>4. HeldAt(mem', enc.off, h)
      BY <1>8, <2>2, <2>3, Zenon
    <2>5. v = ValueOf(e, enc.off + Len(h))
      BY <2>2 DEF ValueOf
    <2>6. enc.off + size = enc.off + Len(h) + RestOf(kind, e)
      <3>1. RestOf(kind, e) = DataLen(e) + Len(After(e))
        <4>1. CASE kind = "zip"
          BY <4>1 DEF RestOf, After
        <4>2. CASE kind = "pack"
          <5> DEFINE x == SizeOf("pack", e) + DataLen(e)
          <5>1. x \in Nat
            BY <1>1, <4>2, SizesAgree
          <5>2. After(e) = encode_back(x) /\ RestOf(kind, e) = DataLen(e) + lpback_size(x)
            BY <4>2 DEF After, RestOf
          <5> HIDE DEF x
          <5>3. Len(encode_back(x)) = lpback_size(x)
            BY <5>1, BackSize
          <5> QED  BY <5>2, <5>3, Zenon
        <4> QED  BY <1>1, <4>1, <4>2 DEF Kinds
      <3>2. size = Len(h) + RestOf(kind, e)
        <4>1. Len(Before(e)) = Len(h)
          BY <2>2, Zenon
        <4> HIDE DEF h
        <4> QED  BY <1>2, <3>1, <4>1
      <3>3. Len(h) \in Nat /\ RestOf(kind, e) \in Nat
        <4>1. Len(h) \in Nat
          BY <1>2, <2>2, Zenon
        <4>2. RestOf(kind, e) \in Nat
          BY <1>2, <3>1
        <4> QED  BY <4>1, <4>2
      <3> HIDE DEF size, h
      <3> QED  BY <1>3, <3>2, <3>3
    <2> HIDE DEF h, v, size, prev
    <2>7. EntryIs(kind, writer, mem', enc.off, v, enc.off + size)
      <3> SUFFICES \E f \in Elements[kind][writer], p \in Nat :
                     /\ HeldAt(mem', enc.off, EntryOf(kind, writer, f, p))
                     /\ v = ValueOf(f, enc.off + Len(EntryOf(kind, writer, f, p)))
                     /\ enc.off + size
                          = enc.off + Len(EntryOf(kind, writer, f, p)) + RestOf(kind, f)
        BY Zenon DEF EntryIs
      <3> WITNESS e \in Elements[kind][writer]
      <3> USE <2>1
      <3> WITNESS prev \in Nat
      <3> QED  BY <2>4, <2>5, <2>6, Zenon DEF h
    <2>8. enc.off >= HeaderLen(kind) /\ ListEnd' <= ListEnd'
      BY <1>3, <1>9
    <2> QED  BY <1>5, <1>6, <1>9, <1>11, <2>7, <2>8, Zenon
  <1>15. Laid'
    <2> SUFFICES ASSUME NEW i \in 1 .. N + 1
                 PROVE  /\ starts'[i] >= HeaderLen(kind) /\ StartOf(i + 1)' <= ListEnd'
                        /\ EntryIs(kind, writer, mem', starts'[i], written'[i], StartOf(i + 1)')
      BY <1>1, <1>6, <1>12 DEF Laid
    <2>1. CASE i \in 1 .. N
      BY <1>13, <2>1
    <2>2. CASE i = N + 1
      <3>1. i + 1 = N + 2
        BY <2>2
      <3> QED  BY <1>14, <2>2, <3>1, Zenon
    <2> QED  BY <2>1, <2>2
  <1>16. Len(written') <= MaxElements /\ (kind = "pack" => enc'.items = Len(written'))
    <2>1. kind = "pack" => enc.items = N
      BY <1>0 DEF ReadInv
    <2> QED  BY <1>1, <1>3, <1>6, <1>7, <2>1, PackedAssumption
  <1> QED  BY <1>1, <1>5, <1>6, <1>15, <1>16 DEF ReadInv

(* append_end() sets the mark and the count. *)
LEMMA ReadEnd ==
  ASSUME ReadInv, End
  PROVE  ReadInv'
  <1>0. PICK N \in Nat : N = Len(written)
    <2>1. Len(written) \in Nat
      BY LenProperties DEF ReadInv, WalkInv
    <2> QED  BY <2>1
  <1>1. /\ WalkInv /\ WalkInv' /\ RoomInv /\ RoomInv' /\ kind \in Kinds /\ writer \in Writers
        /\ medium = "open" /\ medium' = "whole"
        /\ UNCHANGED <<kind, writer, written, starts, lval, read>>
    BY WalkEnd DEF ReadInv, WalkInv, RoomInv, End
  <1>2. /\ enc.off \in Nat /\ enc.off >= HeaderLen(kind)
        /\ enc'.off = enc.off + 1 /\ enc'.items = enc.items /\ enc'.prev_off = enc.prev_off
        /\ enc.prev_off \in Nat /\ enc.items \in Nat
    BY <1>1 DEF End, WalkInv, RoomInv, Encoder
  <1> DEFINE a == HeaderLen(kind)
             h == Header(enc')
             m == Store(mem, enc.off, <<255>>)
  <1>3. EndsIn(h, a, Capped(N))
    <2>1. EndsIn(h, a, Capped(IF kind = "zip" THEN Len(written) ELSE enc'.items))
      BY <1>0, <1>2, HeaderShape
    <2>2. (IF kind = "zip" THEN Len(written) ELSE enc'.items) = N
      BY <1>0, <1>1, <1>2 DEF ReadInv, Kinds
    <2> HIDE DEF a, h
    <2> QED  BY <2>1, <2>2, Zenon
  <1>4. h \in Seq(Byte) /\ Len(h) = a /\ a \in Nat /\ a >= 6
    BY <1>3, HeaderLens DEF EndsIn
  <1>5. mem' = Store(m, 0, h) /\ <<255>> \in Seq(Byte) /\ Len(<<255>>) = 1
    BY ByteSeqs, CodeBytes DEF End
  <1>6. ListEnd' = ListEnd /\ ListEnd = enc.off
    BY <1>1, <1>2 DEF ListEnd
  <1>7. \A i \in Nat : StartOf(i)' = StartOf(i)
    BY <1>1, <1>6 DEF StartOf
  <1>8. Len(starts) = N /\ starts \in Seq(Nat) /\ Laid
    BY <1>0, <1>1 DEF ReadInv
  <1>9. ASSUME NEW i \in 1 .. N
        PROVE  /\ starts[i] >= a /\ StartOf(i + 1)' <= ListEnd'
               /\ EntryIs(kind, writer, mem', starts[i], written[i], StartOf(i + 1)')
    <2> DEFINE b == StartOf(i + 1)
    <2>1. starts[i] >= a /\ b <= ListEnd /\ EntryIs(kind, writer, mem, starts[i], written[i], b)
      BY <1>0, <1>8 DEF Laid
    <2>2. starts[i] \in Nat
      BY <1>8, ElementOfSeq
    <2>3. b' = b
      BY <1>7
    <2> HIDE DEF a, b, h
    <2>4. enc.off >= b /\ enc.off \in Int /\ 0 \in Int /\ 0 + Len(h) <= starts[i]
      BY <1>2, <1>4, <1>6, <2>1, <2>2
    <2>5. EntryIs(kind, writer, m, starts[i], written[i], b)
      <3>1. EntryIs(kind, writer, mem, starts[i], written[i], b)
        BY <2>1
      <3>2. kind \in Kinds /\ writer \in Writers
        BY <1>1
      <3>3. <<255>> \in Seq(Byte) /\ (enc.off >= b \/ enc.off + Len(<<255>>) <= starts[i])
        BY <1>5, <2>4
      <3>4. m = Store(mem, enc.off, <<255>>)
        BY Zenon DEF m
      <3> HIDE DEF m
      <3> DEFINE s == <<255>>
                 o == enc.off
                 v == written[i]
                 f == starts[i]
      <3>5. s \in Seq(Byte) /\ o \in Int /\ f \in Nat /\ (o >= b \/ o + Len(s) <= f)
        BY <2>2, <2>4, <3>3
      <3>6. EntryIs(kind, writer, mem, f, v, b)
        BY <3>1
      <3> HIDE DEF s, o, v, f
      <3>7. EntryIs(kind, writer, Store(mem, o, s), f, v, b)
        BY <3>2, <3>5, <3>6, EntryKept
      <3> QED  BY <3>4, <3>7 DEF s, o, v, f
    <2> HIDE DEF m
    <2>6. EntryIs(kind, writer, Store(m, 0, h), starts[i], written[i], b)
      BY <1>1, <1>4, <2>2, <2>4, <2>5, EntryKept
    <2> QED  BY <1>5, <1>6, <2>1, <2>3, <2>6, Zenon DEF b
  <1>10. Laid'
    <2>1. StartOf(1)' = HeaderLen(kind)
      BY <1>7, <1>8 DEF Laid
    <2> QED  BY <1>0, <1>1, <1>9, <2>1 DEF Laid
  <1>11. At(mem', ListEnd') = 255
    <2>1. At(m, enc.off) = 255
      <3> DEFINE s == <<255>>
                 o == enc.off
      <3>1. s \in Seq(Byte) /\ Len(s) = 1 /\ s[1] = 255
        BY <1>5
      <3>2. o \in Int
        BY <1>2
      <3> HIDE DEF s, o
      <3>3. o \in o .. (o + Len(s) - 1) /\ o - o + 1 = 1
        BY <3>1, <3>2
      <3>4. At(Store(mem, o, s), o) = s[o - o + 1]
        BY <3>1, <3>2, <3>3, StoreAt
      <3> QED  BY <3>1, <3>3, <3>4, Zenon DEF s, o
    <2> HIDE DEF a, h, m
    <2>2. enc.off \notin 0 .. (0 + Len(h) - 1)
      BY <1>2, <1>4 DEF a
    <2>3. At(Store(m, 0, h), enc.off) = At(m, enc.off)
      BY <1>2, <1>4, <2>2, StoreAt
    <2> QED  BY <1>5, <1>6, <2>1, <2>3, Zenon
  <1>12. AtEntry'
    <2>1. lval = FirstLval(a) /\ read = <<>>
      BY <1>1 DEF WalkInv
    <2>2. lval.entry = a /\ lval.entry_len = 0
      BY <2>1, FirstFields, Zenon
    <2>3. lval.ok = TRUE
      <3>1. FirstLval(a).ok = TRUE
        BY DEF FirstLval, Lval
      <3> QED  BY <2>1, <3>1, Zenon
    <2>4. Len(read) = 0 /\ read = SubSeq(written, 1, Len(read))
      BY <2>1
    <2>5. StartOf(Len(read) + 1)' = a
      <3>1. Len(read') + 1 = 1
        BY <1>1, <2>4
      <3>2. StartOf(1)' = a
        BY <1>7, <1>8 DEF Laid
      <3> QED  BY <1>1, <3>1, <3>2, Zenon DEF StartOf
    <2>6. lval.entry + lval.entry_len = a
      BY <1>4, <2>2
    <2> HIDE DEF a
    <2> QED  BY <1>0, <1>1, <1>11, <2>3, <2>4, <2>5, <2>6 DEF AtEntry
  <1>13. zllen' = Capped(N)
    <2> DEFINE x == Capped(N)
    <2>0. x \in Nat /\ 256 * (x \div 256) + (x % 256) = x
      BY DEF Capped
    <2>1. HeldAt(mem', 0, h)
      BY <1>4, <1>5, StoreHeld
    <2>2. At(mem', a - 2) = h[a - 1] /\ At(mem', a - 1) = h[a]
      <3>1. a \in 1 .. Len(h) /\ a - 1 \in 1 .. Len(h)
        BY <1>4
      <3>2. At(mem', 0 + a - 1) = h[a] /\ At(mem', 0 + (a - 1) - 1) = h[a - 1]
        BY <2>1, <3>1 DEF HeldAt
      <3>3. 0 + a - 1 = a - 1 /\ 0 + (a - 1) - 1 = a - 2
        BY <1>4
      <3> HIDE DEF a, h
      <3> QED  BY <3>2, <3>3, Zenon
    <2>3. h[a - 1] = x % 256 /\ h[a] = x \div 256
      BY <1>3 DEF EndsIn
    <2>4. At(mem', a - 2) = x % 256 /\ At(mem', a - 1) = x \div 256
      BY <2>2, <2>3
    <2> HIDE DEF h, x
    <2>5. CASE kind = "zip"
      <3>1. a - 2 = 8 /\ a - 1 = 9
        BY <2>5 DEF HeaderLen
      <3>2. At(mem', 8) = x % 256 /\ At(mem', 9) = x \div 256
        BY <2>4, <3>1, Zenon
      <3>3. zllen' = 256 * At(mem', 9) + At(mem', 8)
        BY <1>1, <2>5 DEF zllen
      <3>4. zllen' = x
        BY <2>0, <3>2, <3>3
      <3> QED  BY <3>4 DEF x
    <2>6. CASE kind = "pack"
      <3>1. a - 2 = 4 /\ a - 1 = 5
        BY <2>6 DEF HeaderLen
      <3>2. At(mem', 4) = x % 256 /\ At(mem', 5) = x \div 256
        BY <2>4, <3>1, Zenon
      <3>3. zllen' = 256 * At(mem', 5) + At(mem', 4)
        BY <1>1, <2>6 DEF zllen
      <3>4. zllen' = x
        BY <2>0, <3>2, <3>3
      <3> QED  BY <3>4 DEF x
    <2> QED  BY <1>1, <2>5, <2>6 DEF Kinds, x
  <1> HIDE DEF a, h, m
  <1>14. kind = "pack" => enc'.items = Len(written)
    BY <1>2 DEF ReadInv
  <1>15. Len(written) <= MaxElements
    BY DEF ReadInv
  <1> QED  BY <1>0, <1>1, <1>8, <1>10, <1>12, <1>13, <1>14, <1>15 DEF ReadInv

(* A damaged list promises nothing. *)
LEMMA ReadDamage ==
  ASSUME ReadInv, NEW a \in DOMAIN mem, NEW b \in Damages, Damage(a, b)
  PROVE  ReadInv'
  <1>1. WalkInv'
    BY WalkDamage DEF ReadInv
  <1>2. /\ starts' = starts /\ written' = written /\ kind' = kind /\ enc' = enc
        /\ medium' = "bad"
    BY DEF Damage
  <1> QED  BY <1>1, <1>2 DEF ReadInv

(* At the mark, next() returns false. *)
LEMMA MarkStops ==
  ASSUME NEW k \in Kinds, NEW m, NEW end, NEW l, At(m, l.entry + l.entry_len) = 255
  PROVE  ~ next(k, m, end, l).ok
  <1> DEFINE a == l.entry + l.entry_len
  <1>1. \A x : Stop(x).ok = FALSE
    BY DEF Stop, Lval
  <1>2. CASE k = "zip"
    <2>1. zlink_prev(255) = "ZIP_END"
      BY DEF zlink_prev
    <2>2. zip_next(m, end, l) = Stop(a)
      BY <2>1 DEF zip_next
    <2>3. next(k, m, end, l) = Stop(a)
      BY <1>2, <2>2 DEF next
    <2>4. Stop(a).ok = FALSE
      BY <1>1, Zenon
    <2> QED  BY <2>3, <2>4, Zenon
  <1>3. CASE k = "pack"
    <2>1. lp_code(255) = "LP_END"
      BY DEF lp_code
    <2>2. lp_next(m, end, l) = Stop(a)
      BY <2>1 DEF lp_next
    <2>3. next(k, m, end, l) = Stop(a)
      BY <1>3, <2>2 DEF next
    <2>4. Stop(a).ok = FALSE
      BY <1>1, Zenon
    <2> QED  BY <2>3, <2>4, Zenon
  <1> QED  BY <1>2, <1>3 DEF Kinds

(* A next() over a whole list reads the next element, or the mark. *)
LEMMA ReadWalk ==
  ASSUME ReadInv, AllReadable, Walk
  PROVE  ReadInv'
  <1>1. /\ WalkInv /\ WalkInv' /\ RoomInv /\ kind \in Kinds /\ writer \in Writers
        /\ UNCHANGED <<kind, writer, written, starts, enc, mem, medium>>
        /\ medium # "open" /\ lval.ok
        /\ lval' = next(kind, mem, zlbytes, lval)
        /\ read' = IF lval'.ok THEN Append(read, lval'.val) ELSE read
    BY WalkWalk DEF ReadInv, WalkInv, RoomInv, Walk
  <1>2. zllen' = zllen /\ ListEnd' = ListEnd
    BY <1>1 DEF zllen, ListEnd
  <1>3. \A i : StartOf(i)' = StartOf(i)
    BY <1>1, <1>2 DEF StartOf
  <1>4. medium # "bad" => Laid'
    <2> SUFFICES ASSUME Laid PROVE Laid'
      BY DEF ReadInv
    <2> QED  BY <1>1, <1>2, <1>3 DEF Laid
  <1>5. ASSUME medium = "whole", Short PROVE AtEntry'
    <2>1. Laid /\ AtEntry /\ starts \in Seq(Nat) /\ Len(starts) = Len(written)
      BY <1>5 DEF ReadInv
    <2>2. PICK S : written \in Seq(S)
      BY <1>1 DEF WalkInv
    <2>3. PICK N \in Nat, K \in Nat : N = Len(written) /\ K = Len(read) /\ K <= N
      <3>1. Len(written) \in Nat
        BY <2>2, LenProperties
      <3>2. Len(read) \in 0 .. Len(written)
        BY <2>1 DEF AtEntry
      <3> QED  BY <3>1, <3>2
    <2>4. /\ At(mem, ListEnd) = 255 /\ read = SubSeq(written, 1, K)
          /\ lval.entry + lval.entry_len = StartOf(K + 1)
      BY <1>1, <2>1, <2>3 DEF AtEntry
    <2>5. At(mem', ListEnd') = 255
      BY <1>1, <1>2, <2>4
    <2>6. zlbytes \in Nat /\ ListEnd + 1 = zlbytes /\ ListEnd \in Nat
      <3>1. enc.off \in Nat /\ enc.off >= HeaderLen(kind) /\ zlbytes = Told(enc.off)
        BY <1>1 DEF WalkInv, RoomInv, Encoder
      <3>2. zlbytes = enc.off
        BY <1>5, <3>1, ToldAll DEF Short
      <3> QED  BY <1>1, <3>1, <3>2, HeaderLens DEF ListEnd
    <2>7. CASE K < N
      <3> DEFINE a == starts[K + 1]
      <3>1. K + 1 \in 1 .. N /\ a \in Nat /\ StartOf(K + 1) = a
        BY <2>1, <2>3, <2>7, ElementOfSeq DEF StartOf
      <3>2. /\ StartOf((K + 1) + 1) <= ListEnd
            /\ EntryIs(kind, writer, mem, a, written[K + 1], StartOf((K + 1) + 1))
        BY <2>1, <2>3, <3>1 DEF Laid
      <3> DEFINE b == StartOf((K + 1) + 1)
      <3>3. PICK e \in Elements[kind][writer], prev \in Nat :
              /\ HeldAt(mem, a, EntryOf(kind, writer, e, prev))
              /\ written[K + 1] = ValueOf(e, a + Len(EntryOf(kind, writer, e, prev)))
              /\ b = a + Len(EntryOf(kind, writer, e, prev)) + RestOf(kind, e)
        BY <3>2, Zenon DEF EntryIs
      <3>4. Len(EntryOf(kind, writer, e, prev)) \in Nat /\ RestOf(kind, e) \in Nat
        BY <1>1, EntryBytes
      <3>5. Readable(kind, writer, e)
        BY <1>1 DEF AllReadable
      <3> HIDE DEF a, b
      <3>6. a + Len(EntryOf(kind, writer, e, prev)) + RestOf(kind, e) < zlbytes
        <4>1. b <= ListEnd /\ b \in Nat
          BY <3>1, <3>2, <3>3, <3>4 DEF b
        <4>2. b < zlbytes
          BY <2>6, <4>1
        <4> QED  BY <3>3, <4>2, Zenon
      <3>7. lval.entry + lval.entry_len = a
        BY <2>4, <3>1, Zenon
      <3> DEFINE r == next(kind, mem, zlbytes, lval)
      <3>8. /\ lval'.ok /\ lval'.val = written[K + 1] /\ lval'.entry + lval'.entry_len = b
        <4>1. HeldAt(mem, a, EntryOf(kind, writer, e, prev))
          BY <3>3
        <4> DEFINE data == a + Len(EntryOf(kind, writer, e, prev))
        <4>2. r.ok /\ r.val = ValueOf(e, data) /\ r.entry + r.entry_len = data + RestOf(kind, e)
          BY <1>1, <2>6, <3>1, <3>5, <3>6, <3>7, <4>1, EntryReads
        <4>3. written[K + 1] = ValueOf(e, data) /\ b = data + RestOf(kind, e)
          BY <3>3
        <4>4. lval' = r
          BY <1>1
        <4> HIDE DEF r, data
        <4> QED  BY <4>2, <4>3, <4>4
      <3>9. read' = Append(SubSeq(written, 1, K), written[K + 1])
        BY <1>1, <2>4, <3>8, Zenon
      <3>10. read' = SubSeq(written, 1, K + 1) /\ Len(read') = K + 1
        BY <2>2, <2>3, <3>1, <3>9
      <3>11. lval'.entry + lval'.entry_len = StartOf(Len(read) + 1)'
        <4>1. StartOf((K + 1) + 1)' = b
          BY <1>3, Zenon DEF b
        <4>2. StartOf(Len(read) + 1)' = StartOf((K + 1) + 1)'
          BY <3>10
        <4> QED  BY <3>8, <4>1, <4>2, Zenon
      <3>12. Len(read') \in 0 .. Len(written') /\ read' = SubSeq(written', 1, Len(read'))
        BY <1>1, <2>3, <3>1, <3>10
      <3> HIDE DEF r
      <3> QED  BY <2>5, <3>8, <3>11, <3>12 DEF AtEntry
    <2>8. CASE K = N
      <3>1. StartOf(K + 1) = ListEnd
        BY <2>1, <2>3, <2>8 DEF StartOf
      <3>2. ~ lval'.ok
        <4>1. At(mem, lval.entry + lval.entry_len) = 255
          BY <2>4, <3>1, Zenon
        <4>2. ~ next(kind, mem, zlbytes, lval).ok
          BY <1>1, <4>1, MarkStops
        <4> QED  BY <1>1, <4>2
      <3>3. read' = read
        BY <1>1, <3>2
      <3>4. SubSeq(written, 1, N) = written
        BY <2>2, <2>3
      <3>5. read = written
        BY <2>4, <2>8, <3>4, Zenon
      <3>6. Len(read') \in 0 .. Len(written') /\ read' = SubSeq(written', 1, Len(read'))
        BY <1>1, <2>3, <2>8, <3>3, <3>4, <3>5
      <3> QED  BY <1>1, <2>5, <3>2, <3>3, <3>5, <3>6, Zenon DEF AtEntry
    <2> QED  BY <2>3, <2>7, <2>8
  <1>6. Short' = Short
    BY <1>1 DEF Short
  <1> QED  BY <1>1, <1>2, <1>4, <1>5, <1>6 DEF ReadInv

(* No step breaks the layout. *)
LEMMA ReadStep == AllReadable /\ ReadInv /\ [Next]_vars => ReadInv'
  <1> SUFFICES ASSUME AllReadable, ReadInv, [Next]_vars PROVE ReadInv'
    OBVIOUS
  <1>1. ASSUME NEW e \in Elements[kind][writer], append(e) PROVE ReadInv'
    BY <1>1, ReadAppend
  <1>2. CASE End
    BY <1>2, ReadEnd
  <1>3. ASSUME NEW a \in DOMAIN mem, NEW b \in Damages, Damage(a, b) PROVE ReadInv'
    BY <1>3, ReadDamage
  <1>4. CASE Walk
    BY <1>4, ReadWalk
  <1>5. CASE UNCHANGED vars
    <2>1. WalkInv'
      BY WalkStep DEF ReadInv
    <2>2. UNCHANGED <<kind, writer, written, starts, enc, mem, medium, lval, read>>
      BY <1>5 DEF vars
    <2>3. zllen' = zllen /\ ListEnd' = ListEnd
      BY <2>2 DEF zllen, ListEnd
    <2>4. \A i : StartOf(i)' = StartOf(i)
      BY <2>2, <2>3 DEF StartOf
    <2>5. Laid => Laid'
      BY <2>2, <2>3, <2>4 DEF Laid
    <2>6. AtEntry => AtEntry'
      <3>1. StartOf(Len(read) + 1)' = StartOf(Len(read) + 1)
        BY <2>2, <2>3 DEF StartOf
      <3> QED  BY <2>2, <2>3, <3>1 DEF AtEntry
    <2> QED  BY <2>1, <2>2, <2>3, <2>5, <2>6 DEF ReadInv, Short
  <1> QED  BY <1>1, <1>2, <1>3, <1>4, <1>5 DEF Next

(* RdbZipList::next() and RdbListPack::next() read back, one by one and in *)
(* order, the elements of any list that was not damaged and whose length   *)
(* is told: each integer with its value, each string at its place, with    *)
(* its length.                                                             *)
THEOREM PackedReadsBack == AllReadable => (Spec => [](Short => ReadsBack))
  <1> SUFFICES ASSUME AllReadable PROVE Spec => [](Short => ReadsBack)
    OBVIOUS
  <1>1. ReadInv => (Short => ReadsBack)
    BY DEF ReadInv, AtEntry, ReadsBack
  <1>2. ReadInv /\ [Next]_vars => ReadInv'
    BY ReadStep
  <1> QED  BY <1>1, <1>2, ReadInit, PTL DEF Spec

(* The loops over first() and next() leave a whole list at its end mark    *)
(* only, with every element read, and the count in its header is theirs.   *)
THEOREM PackedAllRead ==
  AllReadable /\ MaxElements <= 65535 => (Spec => [](Short => AllRead))
  <1> SUFFICES ASSUME AllReadable, MaxElements <= 65535 PROVE Spec => [](Short => AllRead)
    OBVIOUS
  <1>1. ReadInv => (Short => AllRead)
    <2> SUFFICES ASSUME ReadInv, Short, medium = "whole", Ended
                 PROVE  read = written /\ zllen = Len(written)
      BY DEF AllRead
    <2>1. AtEntry /\ zllen = Capped(Len(written))
      BY DEF ReadInv
    <2>2. read = written
      BY <2>1 DEF AtEntry, Ended
    <2>3. Len(written) \in Nat /\ Len(written) <= 65535
      <3>1. Len(written) \in Nat
        BY LenProperties DEF ReadInv, WalkInv
      <3> QED  BY <3>1, PackedAssumption DEF ReadInv
    <2> QED  BY <2>1, <2>2, <2>3 DEF Capped
  <1>2. ReadInv /\ [Next]_vars => ReadInv'
    BY ReadStep
  <1> QED  BY <1>1, <1>2, ReadInit, PTL DEF Spec

=============================================================================
