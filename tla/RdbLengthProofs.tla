--------------------------- MODULE RdbLengthProofs ---------------------------
(***************************************************************************)
(* What the encoder writes, the decoder reads back, for all 2^64 lengths   *)
(* and all integers of 32 bits; and no header, good or bad, is longer than *)
(* the lookahead the decoder is given.                                     *)
(***************************************************************************)
EXTENDS RdbLength, SequenceTheorems, TLAPS

(* decode() reads in place once MAX_RDB_HDRLEN bytes are there: no header, *)
(* not even a corrupt one, is longer than that.                            *)
LEMMA PlainFits ==
  ASSUME NEW b, NEW i
  PROVE  Plain(b, i).sz \in {-1, 1, 2, 3, 5, 9}
  BY DEF Plain, ALength, AnInt, NoLength

THEOREM HeaderFits ==
  ASSUME NEW b, NEW i
  PROVE  decode_buf(b, i).sz \in {-1} \cup 1 .. MAX_RDB_HDRLEN
  <1>1. AsString(Plain(b, i)).sz \in {-1} \cup 1 .. MAX_RDB_HDRLEN
    BY PlainFits DEF AsString, MAX_RDB_HDRLEN
  <1>2. Lzf(b, i).sz \in {-1} \cup 1 .. MAX_RDB_HDRLEN
    BY PlainFits DEF Lzf, MAX_RDB_HDRLEN
  <1> QED  BY <1>1, <1>2 DEF decode_buf

-----------------------------------------------------------------------------
(* The bytes of header h are the bytes of b from position i on. *)
HeldAt(b, i, h) == \A k \in 1 .. Len(h) : At(b, i + k - 1) = h[k]

(* The calculated size is the size written. *)
THEOREM SizeAgrees ==
  ASSUME NEW w \in Word
  PROVE  Len(len_encode(w)) = len_size(str_code(w))
  BY DEF len_encode, len_size, str_code, Word

(* A length that was written is read back, whatever surrounds it. *)
THEOREM LengthRoundTrip ==
  ASSUME NEW w \in Word, NEW b, NEW i \in Int, HeldAt(b, i, len_encode(w))
  PROVE  /\ decode_buf(b, i) = AsString(Plain(b, i))
         /\ Plain(b, i) = ALength(Len(len_encode(w)), w)
  <1> DEFINE h == len_encode(w)
             c(k) == At(b, i + k)
  <1>0. w = <<w[1], w[2], w[3], w[4], w[5], w[6], w[7], w[8]>>
        /\ \A k \in 1 .. 8 : w[k] \in 0 .. 255
    BY DEF Word, Byte
  <1>1. CASE Fits6(w)
    <2>1. h = <<w[8]>>
      BY <1>1 DEF len_encode, str_code
    <2>2. c(0) = w[8]
      BY <2>1 DEF HeldAt
    <2>3. c(0) = At(b, i) /\ length_encoding(c(0)) = "len6"
      <3>1. c(0) = At(b, i)
        OBVIOUS
      <3>2. length_encoding(c(0)) = "len6"
        BY <1>0, <1>1, <2>2 DEF length_encoding, Fits6
      <3> QED  BY <3>1, <3>2
    <2>4. decode_buf(b, i) = AsString(Plain(b, i))
      BY <2>3 DEF decode_buf
    <2>5. Plain(b, i) = ALength(1, <<0, 0, 0, 0, 0, 0, 0, c(0)>>)
      BY <2>3 DEF Plain
    <2>6. w = <<0, 0, 0, 0, 0, 0, 0, w[8]>>
      BY <1>0, <1>1 DEF Fits6, AllZero
    <2>7. Len(h) = 1
      BY <2>1
    <2> HIDE DEF h, c
    <2>8. <<0, 0, 0, 0, 0, 0, 0, c(0)>> = <<0, 0, 0, 0, 0, 0, 0, w[8]>>
      BY <1>0, <2>2
    <2>9. Plain(b, i) = ALength(Len(h), w)
      BY <2>5, <2>6, <2>7, <2>8, Zenon
    <2> QED  BY <2>4, <2>9 DEF h
  <1>2. CASE ~ Fits6(w) /\ Fits14(w)
    <2>1. h = <<64 + w[7], w[8]>>
      BY <1>2 DEF len_encode, str_code
    <2>2. c(0) = 64 + w[7] /\ c(1) = w[8]
      BY <2>1 DEF HeldAt
    <2>3. c(0) = At(b, i) /\ length_encoding(c(0)) = "len14"
      <3>1. c(0) = At(b, i)
        OBVIOUS
      <3>2. length_encoding(c(0)) = "len14"
        BY <1>0, <1>2, <2>2 DEF length_encoding, Fits14
      <3> QED  BY <3>1, <3>2
    <2>4. decode_buf(b, i) = AsString(Plain(b, i))
      BY <2>3 DEF decode_buf
    <2>5. Plain(b, i) = ALength(2, <<0, 0, 0, 0, 0, 0, c(0) - 64, c(1)>>)
      BY <2>3 DEF Plain
    <2>6. w = <<0, 0, 0, 0, 0, 0, w[7], w[8]>>
      BY <1>0, <1>2 DEF Fits14, AllZero
    <2>7. Len(h) = 2
      BY <2>1
    <2> HIDE DEF h, c
    <2>8. <<0, 0, 0, 0, 0, 0, c(0) - 64, c(1)>> = <<0, 0, 0, 0, 0, 0, w[7], w[8]>>
      BY <1>0, <2>2
    <2>9. Plain(b, i) = ALength(Len(h), w)
      BY <2>5, <2>6, <2>7, <2>8, Zenon
    <2> QED  BY <2>4, <2>9 DEF h
  <1>3. CASE ~ Fits6(w) /\ ~ Fits14(w) /\ Fits32(w)
    <2>1. h = <<128, w[5], w[6], w[7], w[8]>>
      BY <1>3 DEF len_encode, str_code
    <2>2. c(0) = 128 /\ c(1) = w[5] /\ c(2) = w[6] /\ c(3) = w[7] /\ c(4) = w[8]
      BY <2>1 DEF HeldAt
    <2>3. c(0) = At(b, i) /\ length_encoding(c(0)) = "len32"
      <3>1. c(0) = At(b, i)
        OBVIOUS
      <3>2. length_encoding(c(0)) = "len32"
        BY <2>2 DEF length_encoding
      <3> QED  BY <3>1, <3>2
    <2>4. decode_buf(b, i) = AsString(Plain(b, i))
      BY <2>3 DEF decode_buf
    <2>5. Plain(b, i) = ALength(5, <<0, 0, 0, 0, c(1), c(2), c(3), c(4)>>)
      BY <2>3 DEF Plain
    <2>6. w = <<0, 0, 0, 0, w[5], w[6], w[7], w[8]>>
      BY <1>0, <1>3 DEF Fits32, AllZero
    <2>7. Len(h) = 5
      BY <2>1
    <2> HIDE DEF h, c
    <2>8. <<0, 0, 0, 0, c(1), c(2), c(3), c(4)>> = <<0, 0, 0, 0, w[5], w[6], w[7], w[8]>>
      BY <1>0, <2>2
    <2>9. Plain(b, i) = ALength(Len(h), w)
      BY <2>5, <2>6, <2>7, <2>8, Zenon
    <2> QED  BY <2>4, <2>9 DEF h
  <1>4. CASE ~ Fits6(w) /\ ~ Fits14(w) /\ ~ Fits32(w)
    <2>1. h = <<129, w[1], w[2], w[3], w[4], w[5], w[6], w[7], w[8]>>
      BY <1>4 DEF len_encode, str_code
    <2>2. /\ c(0) = 129 /\ c(1) = w[1] /\ c(2) = w[2] /\ c(3) = w[3]
          /\ c(4) = w[4] /\ c(5) = w[5] /\ c(6) = w[6] /\ c(7) = w[7]
          /\ c(8) = w[8]
      BY <2>1 DEF HeldAt
    <2>3. c(0) = At(b, i) /\ length_encoding(c(0)) = "len64"
      <3>1. c(0) = At(b, i)
        OBVIOUS
      <3>2. length_encoding(c(0)) = "len64"
        BY <2>2 DEF length_encoding
      <3> QED  BY <3>1, <3>2
    <2>4. decode_buf(b, i) = AsString(Plain(b, i))
      BY <2>3 DEF decode_buf
    <2>5. Plain(b, i) = ALength(9, <<c(1), c(2), c(3), c(4), c(5), c(6), c(7), c(8)>>)
      BY <2>3 DEF Plain
    <2>6. w = <<w[1], w[2], w[3], w[4], w[5], w[6], w[7], w[8]>>
      BY <1>0
    <2>7. Len(h) = 9
      BY <2>1
    <2> HIDE DEF h, c
    <2>8. <<c(1), c(2), c(3), c(4), c(5), c(6), c(7), c(8)>> = <<w[1], w[2], w[3], w[4], w[5], w[6], w[7], w[8]>>
      BY <1>0, <2>2
    <2>9. Plain(b, i) = ALength(Len(h), w)
      BY <2>5, <2>6, <2>7, <2>8, Zenon
    <2> QED  BY <2>4, <2>9 DEF h
  <1> QED  BY <1>1, <1>2, <1>3, <1>4

LEMMA LowByte ==
  ASSUME NEW y \in Int
  PROVE  /\ y \div 256 \in Int /\ y % 256 \in 0 .. 255
         /\ y = 256 * (y \div 256) + (y % 256)
  BY SMT

LEMMA HighByte ==
  ASSUME NEW y \in Int, -32768 <= y, y <= 32767
  PROVE  y \div 256 \in -128 .. 127
  BY SMT

(* An integer of up to 32 bits is read back with its sign. *)
THEOREM IntRoundTrip ==
  ASSUME NEW x \in Int32, NEW b, NEW i \in Int, HeldAt(b, i, int_encode(x))
  PROVE  /\ decode_buf(b, i) = AsString(Plain(b, i))
         /\ Plain(b, i).ival = x
         /\ Plain(b, i).sz = Len(int_encode(x))
         /\ Plain(b, i).sz = len_size(int_code(x))
         /\ Plain(b, i).is_enc # 0
  <1> DEFINE h == int_encode(x)
             c(k) == At(b, i + k)
             x1 == x \div 256
             x2 == x1 \div 256
             x3 == x2 \div 256
  <1>0. /\ x \in Int /\ x1 \in Int /\ x2 \in Int /\ x3 \in Int
        /\ x = 256 * x1 + (x % 256) /\ x1 = 256 * x2 + (x1 % 256)
        /\ x2 = 256 * x3 + (x2 % 256)
        /\ x % 256 \in 0 .. 255 /\ x1 % 256 \in 0 .. 255 /\ x2 % 256 \in 0 .. 255
    <2>1. x \in Int
      BY SMT DEF Int32
    <2>2. x1 \in Int
      BY <2>1, LowByte
    <2>3. x2 \in Int
      BY <2>2, LowByte
    <2> QED  BY <2>1, <2>2, <2>3, LowByte
  <1>1. CASE -128 <= x /\ x <= 127
    <2>1. h = <<192, x % 256>> /\ int_code(x) = "int8"
      <3>1. int_code(x) = "int8"
        BY <1>1 DEF int_code
      <3> QED  BY <3>1 DEF int_encode
    <2>2. c(0) = 192 /\ c(1) = x % 256
      BY <2>1 DEF HeldAt
    <2>3. Signed8(x % 256) = x
      BY SMT, <1>0, <1>1 DEF Signed8
    <2>4. Plain(b, i) = AnInt(2, x, 1) /\ decode_buf(b, i) = AsString(Plain(b, i))
      <3>1. c(0) = At(b, i) /\ length_encoding(192) = "int8"
        BY DEF length_encoding
      <3>2. Plain(b, i) = AnInt(2, Signed8(c(1)), 1)
        BY <2>2, <3>1 DEF Plain
      <3>3. decode_buf(b, i) = AsString(Plain(b, i))
        BY <2>2, <3>1 DEF decode_buf
      <3> HIDE DEF c, x1, x2, x3
      <3> QED  BY <2>2, <2>3, <3>2, <3>3
    <2> QED  BY <2>1, <2>4 DEF AnInt, len_size
  <1>2. CASE -32768 <= x /\ x <= 32767 /\ ~ (-128 <= x /\ x <= 127)
    <2>1. h = <<193, x % 256, x1 % 256>> /\ int_code(x) = "int16"
      <3>1. int_code(x) = "int16"
        BY <1>2 DEF int_code
      <3> QED  BY <3>1 DEF int_encode
    <2>2. c(0) = 193 /\ c(1) = x % 256 /\ c(2) = x1 % 256
      BY <2>1 DEF HeldAt
    <2>3. Signed8(x1 % 256) = x1
      <3>1. x1 \in -128 .. 127
        BY <1>0, <1>2, HighByte
      <3> HIDE DEF x1
      <3> QED  BY SMT, <3>1 DEF Signed8
    <2>4. 256 * Signed8(x1 % 256) + (x % 256) = x
      BY <1>0, <2>3
    <2>5. Plain(b, i) = AnInt(3, x, 2) /\ decode_buf(b, i) = AsString(Plain(b, i))
      <3>1. c(0) = At(b, i) /\ length_encoding(193) = "int16"
        BY DEF length_encoding
      <3>2. Plain(b, i) = AnInt(3, 256 * Signed8(c(2)) + c(1), 2)
        BY <2>2, <3>1 DEF Plain
      <3>3. decode_buf(b, i) = AsString(Plain(b, i))
        BY <2>2, <3>1 DEF decode_buf
      <3> HIDE DEF c, x1, x2, x3
      <3> QED  BY <2>2, <2>4, <3>2, <3>3
    <2> QED  BY <2>1, <2>5 DEF AnInt, len_size
  <1>3. CASE ~ (-32768 <= x /\ x <= 32767)
    <2>1. /\ h = <<194, x % 256, x1 % 256, x2 % 256, x3 % 256>>
          /\ int_code(x) = "int32"
      <3>1. int_code(x) = "int32"
        <4>1. ~ (-128 <= x /\ x <= 127)
          BY SMT, <1>0, <1>3
        <4> QED  BY <1>3, <4>1 DEF int_code
      <3> QED  BY <3>1 DEF int_encode
    <2>2. /\ c(0) = 194 /\ c(1) = x % 256 /\ c(2) = x1 % 256 /\ c(3) = x2 % 256
          /\ c(4) = x3 % 256
      BY <2>1 DEF HeldAt
    <2>3. Signed8(x3 % 256) = x3
      BY SMT DEF Signed8, Int32
    <2>4. 256 * (256 * (256 * Signed8(x3 % 256) + (x2 % 256)) + (x1 % 256))
            + (x % 256) = x
      BY <1>0, <2>3
    <2>5. Plain(b, i) = AnInt(5, x, 4) /\ decode_buf(b, i) = AsString(Plain(b, i))
      <3>1. c(0) = At(b, i) /\ length_encoding(194) = "int32"
        BY DEF length_encoding
      <3>2. Plain(b, i) = AnInt(5, 256 * (256 * (256 * Signed8(c(4)) + c(3)) + c(2)) + c(1), 4)
        BY <2>2, <3>1 DEF Plain
      <3>3. decode_buf(b, i) = AsString(Plain(b, i))
        BY <2>2, <3>1 DEF decode_buf
      <3> HIDE DEF c, x1, x2, x3
      <3> QED  BY <2>2, <2>4, <3>2, <3>3
    <2> QED  BY <2>1, <2>5 DEF AnInt, len_size
  <1> QED  BY <1>1, <1>2, <1>3

(* Both lengths of a compressed string are read back: the second is found  *)
(* behind the first, whatever the size of either.                          *)
THEOREM LzfRoundTrip ==
  ASSUME NEW z \in Word, NEW w \in Word, NEW b, NEW i \in Int,
         At(b, i) = 195,
         HeldAt(b, i + 1, len_encode(z)),
         HeldAt(b, i + 1 + Len(len_encode(z)), len_encode(w))
  PROVE  decode_buf(b, i) =
           [sz |-> 1 + Len(len_encode(z)) + Len(len_encode(w)),
            len |-> w, ival |-> 0, is_enc |-> 0, is_lzf |-> TRUE, zlen |-> z]
  <1> DEFINE m == Len(len_encode(z))
             n == Len(len_encode(w))
  <1>1. m \in Nat /\ n \in Nat
    BY SizeAgrees DEF len_size, str_code
  <1>2. Plain(b, i + 1) = ALength(m, z)
    BY LengthRoundTrip
  <1>3. Plain(b, i + 1 + m) = ALength(n, w)
    BY <1>1, LengthRoundTrip
  <1>4. decode_buf(b, i) = Lzf(b, i)
    BY DEF decode_buf, length_encoding
  <1>5. /\ Plain(b, i + 1).sz = m /\ Plain(b, i + 1).len = z
        /\ Plain(b, i + 1).is_enc = 0
    BY <1>2 DEF ALength
  <1>6. Plain(b, i + 1 + Plain(b, i + 1).sz) = ALength(n, w)
    BY <1>3, <1>5
  <1>7. ALength(n, w).sz = n /\ ALength(n, w).len = w /\ ALength(n, w).is_enc = 0
    BY DEF ALength
  <1>8. ~ (m < 0) /\ ~ (n < 0)
    BY <1>1
  <1>9. Lzf(b, i) = [sz |-> 1 + m + n, len |-> w, ival |-> 0, is_enc |-> 0,
                     is_lzf |-> TRUE, zlen |-> z]
    <2> DEFINE p == Plain(b, i + 1)
               q == Plain(b, i + 1 + p.sz)
               bad == p.sz < 0 \/ p.is_enc # 0 \/ q.is_enc # 0
    <2>1. Lzf(b, i) = [sz |-> IF bad THEN -1 ELSE 1 + p.sz + q.sz,
                       len |-> IF q.sz < 0 THEN p.len ELSE q.len,
                       ival |-> 0, is_enc |-> 0, is_lzf |-> TRUE, zlen |-> p.len]
      BY Zenon DEF Lzf
    <2>2. p.sz = m /\ p.len = z /\ p.is_enc = 0
      BY <1>5
    <2>3. q.sz = n /\ q.len = w /\ q.is_enc = 0
      BY <1>6, <1>7
    <2> HIDE DEF m, n, p, q
    <2>4. ~ bad /\ ~ (q.sz < 0)
      BY <2>2, <2>3, <1>8
    <2> HIDE DEF bad
    <2> QED  BY <2>1, <2>2, <2>3, <2>4, Zenon
  <1> QED  BY <1>4, <1>9

-----------------------------------------------------------------------------
(* The wire stays a sequence, as long as the size calculation said. *)
RoomInv == wire \in Seq(Int) /\ RoomAgrees /\ room \in Nat

LEMMA EncodedBytes ==
  ASSUME NEW w \in Word
  PROVE  len_encode(w) \in Seq(Int)
  <1>1. \A k \in 1 .. 8 : w[k] \in Int
    BY DEF Word, Byte
  <1> QED  BY <1>1 DEF len_encode, str_code

LEMMA WriteRoom ==
  ASSUME NEW h, NEW bytes \in Seq(Int), RoomInv, Write(h, bytes, Len(bytes))
  PROVE  RoomInv'
  BY DEF RoomInv, RoomAgrees, Write

LEMMA RoomStep == RoomInv /\ [Next]_vars => RoomInv'
  <1> SUFFICES ASSUME RoomInv, [Next]_vars PROVE RoomInv'
    OBVIOUS
  <1>1. ASSUME NEW w \in Words, WriteLen(w) PROVE RoomInv'
    <2>1. w \in Word
      BY LengthAssumption
    <2>2. Len(len_encode(w)) = len_size(str_code(w))
      BY <2>1, SizeAgrees
    <2> QED  BY <1>1, <2>1, <2>2, EncodedBytes, WriteRoom DEF WriteLen
  <1>2. ASSUME NEW x \in Ints, WriteInt(x) PROVE RoomInv'
    <2>1. x \in Int32 /\ x \in Int
      BY SMT, LengthAssumption DEF Int32
    <2>2. int_encode(x) \in Seq(Int) /\ Len(int_encode(x)) = len_size(int_code(x))
      <3>1. /\ x % 256 \in Int /\ (x \div 256) % 256 \in Int
            /\ ((x \div 256) \div 256) % 256 \in Int
            /\ (((x \div 256) \div 256) \div 256) % 256 \in Int
        BY <2>1, LowByte
      <3>2. int_code(x) \in {"int8", "int16", "int32", "err"}
        BY DEF int_code, LEN_ERR
      <3> QED  BY <3>1, <3>2 DEF int_encode, len_size
    <2> QED  BY <1>2, <2>2, WriteRoom DEF WriteInt
  <1>3. ASSUME NEW z \in Words, NEW w \in Words, WriteLzf(z, w) PROVE RoomInv'
    <2>1. lzf_header(z, w) \in Seq(Int)
      BY LengthAssumption, EncodedBytes DEF lzf_header
    <2> QED  BY <1>3, <2>1, WriteRoom DEF WriteLzf
  <1>4. CASE Keep
    BY <1>4 DEF Keep, Close, RoomInv, RoomAgrees
  <1>5. ASSUME NEW n \in 0 .. Len(wire), Cut(n) PROVE RoomInv'
    BY <1>5 DEF Cut, Close, RoomInv, RoomAgrees
  <1>6. ASSUME NEW n \in 1 .. Len(wire), Damage(n) PROVE RoomInv'
    BY <1>6 DEF Damage, Close, RoomInv, RoomAgrees
  <1>7. CASE Decode
    BY <1>7 DEF Decode, RoomInv, RoomAgrees
  <1>8. CASE UNCHANGED vars
    BY <1>8 DEF vars, RoomInv, RoomAgrees
  <1> QED  BY <1>1, <1>2, <1>3, <1>4, <1>5, <1>6, <1>7, <1>8 DEF Next

(* However many headers are written, the calculated room is what they take. *)
THEOREM RoomAlways == Spec => []RoomAgrees
  <1>1. Init => RoomInv
    BY DEF Init, RoomInv, RoomAgrees
  <1>2. RoomInv => RoomAgrees
    BY DEF RoomInv
  <1> QED  BY <1>1, <1>2, RoomStep, PTL DEF Spec

(* An accepted header, even one that damage left, moves the reader on. *)
THEOREM AdvancesAlways == Spec => Advances
  <1>1. pos \in Nat /\ [Next]_vars => (pos \in Nat)'
    <2> SUFFICES ASSUME pos \in Nat, [Next]_vars PROVE pos' \in Nat
      OBVIOUS
    <2> DEFINE sz == decode_buf(wire, pos + 1).sz
    <2>1. CASE Decode
      <3>1. sz \in Int
        BY HeaderFits DEF MAX_RDB_HDRLEN
      <3>2. pos' = pos \/ (sz >= 0 /\ pos' = pos + sz)
        BY <2>1 DEF Decode
      <3> HIDE DEF sz
      <3> QED  BY <3>1, <3>2
    <2> QED
      BY <2>1 DEF Next, WriteLen, WriteInt, WriteLzf, Write, Keep, Cut, Damage,
                  Close, vars
  <1>2. pos \in Nat /\ [Next]_vars => [read' # read => pos' > pos]_vars
    <2> SUFFICES ASSUME pos \in Nat, [Next]_vars, read' # read
                 PROVE  pos' > pos
      BY DEF vars
    <2>1. Decode
      BY DEF Next, WriteLen, WriteInt, WriteLzf, Write, Keep, Cut, Damage,
             Close, vars
    <2> DEFINE sz == decode_buf(wire, pos + 1).sz
    <2>2. sz \in {-1} \cup 1 .. MAX_RDB_HDRLEN
      BY HeaderFits
    <2>3. sz >= 0 /\ pos' = pos + sz
      BY <2>1 DEF Decode
    <2> HIDE DEF sz
    <2> QED  BY <2>2, <2>3 DEF MAX_RDB_HDRLEN
  <1>3. Init => pos \in Nat
    BY DEF Init
  <1> QED  BY <1>1, <1>2, <1>3, PTL DEF Spec, Advances


-----------------------------------------------------------------------------
(* A writer, the medium, and a reader. *)

(* The headers that can be written, and the bytes of one. *)
Lengths == {Header(w, Zero, 0, 0) : w \in Word}
Immediates == {h \in {Header(Zero, Zero, x, k) : x \in Int32, k \in {1, 2, 4}} :
                 len_size(int_code(h.ival)) = 1 + h.is_enc}
Compressed == {Header(w, z, 0, 0) : w \in Word, z \in Word \ {Zero}}

Encoded(h) == IF h.is_lzf THEN lzf_header(h.zlen, h.len)
              ELSE IF h.is_enc # 0 THEN int_encode(h.ival) ELSE len_encode(h.len)

HeaderOf(d) == [len |-> d.len, zlen |-> d.zlen, ival |-> d.ival,
                is_enc |-> d.is_enc, is_lzf |-> d.is_lzf]

(* The code of a header is its size. *)
LEMMA CodeSize ==
  ASSUME NEW b, NEW i \in Int, NEW e, length_encoding(At(b, i)) = e
  PROVE  /\ e \in {"len6", "len14", "len32", "len64"} =>
              Plain(b, i).sz = len_size(e) /\ Plain(b, i).is_enc = 0
         /\ e \in {"int8", "int16", "int32"} =>
              Plain(b, i).sz = len_size(e) /\ Plain(b, i).is_enc = len_size(e) - 1
         /\ e # "lzf" => decode_buf(b, i) = AsString(Plain(b, i))
  <1>1. length_encoding(At(b, i + 0)) = e
    OBVIOUS
  <1>2. e # "lzf" => decode_buf(b, i) = AsString(Plain(b, i))
    BY DEF decode_buf
  <1>3. CASE e = "len6"
    BY <1>1, <1>2, <1>3 DEF Plain, ALength, len_size
  <1>4. CASE e = "len14"
    BY <1>1, <1>2, <1>4 DEF Plain, ALength, len_size
  <1>5. CASE e = "len32"
    BY <1>1, <1>2, <1>5 DEF Plain, ALength, len_size
  <1>6. CASE e = "len64"
    BY <1>1, <1>2, <1>6 DEF Plain, ALength, len_size
  <1>7. CASE e = "int8"
    BY <1>1, <1>2, <1>7 DEF Plain, AnInt, len_size
  <1>8. CASE e = "int16"
    BY <1>1, <1>2, <1>8 DEF Plain, AnInt, len_size
  <1>9. CASE e = "int32"
    BY <1>1, <1>2, <1>9 DEF Plain, AnInt, len_size
  <1> QED  BY <1>2, <1>3, <1>4, <1>5, <1>6, <1>7, <1>8, <1>9

(* The size of a header is in its first byte. *)
LEMMA LengthSize ==
  ASSUME NEW w \in Word, NEW b, NEW i \in Int, At(b, i) = len_encode(w)[1]
  PROVE  /\ Plain(b, i).sz = Len(len_encode(w)) /\ Plain(b, i).is_enc = 0
         /\ decode_buf(b, i) = AsString(Plain(b, i))
         /\ Len(len_encode(w)) \in 1 .. 9
  <1> DEFINE h == len_encode(w)
             e == length_encoding(At(b, i))
  <1>0. w[7] \in 0 .. 255 /\ w[8] \in 0 .. 255
    BY DEF Word, Byte
  <1>1. CASE Fits6(w)
    <2>1. h = <<w[8]>> /\ w[8] \in 0 .. 63
      BY <1>0, <1>1 DEF len_encode, str_code, Fits6
    <2>2. Len(h) = 1 /\ h[1] = w[8]
      BY <2>1
    <2> HIDE DEF h
    <2>3. At(b, i) \in 0 .. 63
      BY <2>1, <2>2 DEF h
    <2>4. e = "len6"
      BY <2>3 DEF length_encoding
    <2> QED  BY <2>2, <2>4, CodeSize DEF h, len_size
  <1>2. CASE ~ Fits6(w) /\ Fits14(w)
    <2>1. h = <<64 + w[7], w[8]>> /\ w[7] \in 0 .. 63
      BY <1>0, <1>2 DEF len_encode, str_code, Fits14
    <2>2. Len(h) = 2 /\ h[1] = 64 + w[7]
      BY <2>1
    <2> HIDE DEF h
    <2>3. At(b, i) \in 64 .. 127
      BY <2>1, <2>2 DEF h
    <2>4. e = "len14"
      BY <2>3 DEF length_encoding
    <2> QED  BY <2>2, <2>4, CodeSize DEF h, len_size
  <1>3. CASE ~ Fits6(w) /\ ~ Fits14(w) /\ Fits32(w)
    <2>1. h = <<128, w[5], w[6], w[7], w[8]>>
      BY <1>3 DEF len_encode, str_code
    <2>2. Len(h) = 5 /\ h[1] = 128
      BY <2>1
    <2> HIDE DEF h
    <2>3. At(b, i) = 128
      BY <2>2 DEF h
    <2>4. e = "len32"
      BY <2>3 DEF length_encoding
    <2> QED  BY <2>2, <2>4, CodeSize DEF h, len_size
  <1>4. CASE ~ Fits6(w) /\ ~ Fits14(w) /\ ~ Fits32(w)
    <2>1. h = <<129, w[1], w[2], w[3], w[4], w[5], w[6], w[7], w[8]>>
      BY <1>4 DEF len_encode, str_code
    <2>2. Len(h) = 9 /\ h[1] = 129
      BY <2>1
    <2> HIDE DEF h
    <2>3. At(b, i) = 129
      BY <2>2 DEF h
    <2>4. e = "len64"
      BY <2>3 DEF length_encoding
    <2> QED  BY <2>2, <2>4, CodeSize DEF h, len_size
  <1> QED  BY <1>1, <1>2, <1>3, <1>4

(* An integer is as long as its code says, for writer and reader.          *)
LEMMA IntSize ==
  ASSUME NEW x \in Int32, NEW b, NEW i \in Int, At(b, i) = int_encode(x)[1]
  PROVE  /\ Plain(b, i).sz = Len(int_encode(x))
         /\ decode_buf(b, i) = AsString(Plain(b, i))
         /\ Len(int_encode(x)) = len_size(int_code(x))
         /\ Len(int_encode(x)) \in 2 .. 5
         /\ Plain(b, i).is_enc = Len(int_encode(x)) - 1
  <1> DEFINE h == int_encode(x)
             e == length_encoding(At(b, i))
  <1>1. int_code(x) \in {"int8", "int16", "int32"}
    BY DEF int_code
  <1>2. \/ int_code(x) = "int8" /\ h[1] = 192 /\ Len(h) = 2
        \/ int_code(x) = "int16" /\ h[1] = 193 /\ Len(h) = 3
        \/ int_code(x) = "int32" /\ h[1] = 194 /\ Len(h) = 5
    BY <1>1 DEF int_encode
  <1>3. e = int_code(x)
    BY <1>2 DEF length_encoding
  <1>4. Len(h) = len_size(int_code(x)) /\ Len(h) \in 2 .. 5
    BY <1>2 DEF len_size
  <1> HIDE DEF h
  <1>5. /\ Plain(b, i).sz = len_size(int_code(x))
        /\ Plain(b, i).is_enc = len_size(int_code(x)) - 1
        /\ decode_buf(b, i) = AsString(Plain(b, i))
    BY <1>1, <1>3, CodeSize
  <1> QED  BY <1>4, <1>5 DEF h

(* What look() pads with reads as a length of one byte. *)
LEMMA PadSize ==
  ASSUME NEW b, NEW i \in Int, At(b, i) = 0
  PROVE  Plain(b, i).sz = 1 /\ Plain(b, i).is_enc = 0
  <1>1. At(b, i + 0) = 0
    OBVIOUS
  <1>2. length_encoding(At(b, i + 0)) = "len6"
    BY <1>1 DEF length_encoding
  <1>3. \E w : Plain(b, i) = ALength(1, w)
    BY <1>2, Zenon DEF Plain
  <1> QED  BY <1>3 DEF ALength

(* What a concatenation holds.                                             *)
LEMMA Joined ==
  ASSUME NEW S, NEW s \in Seq(S), NEW t \in Seq(S), NEW m, NEW n, NEW st,
         m = Len(s), n = Len(t), st = s \o t
  PROVE  /\ m \in Nat /\ n \in Nat /\ st \in Seq(S) /\ Len(st) = m + n
         /\ \A k \in 1 .. m : st[k] = s[k]
         /\ \A k \in 1 .. n : st[m + k] = t[k]
  <1>1. /\ s \o t \in Seq(S) /\ Len(s \o t) = Len(s) + Len(t)
        /\ \A k \in 1 .. Len(s) + Len(t) :
             (s \o t)[k] = IF k <= Len(s) THEN s[k] ELSE t[k - Len(s)]
    BY ConcatProperties
  <1>2. m \in Nat /\ n \in Nat
    OBVIOUS
  <1>3. /\ st \in Seq(S) /\ Len(st) = m + n
        /\ \A k \in 1 .. m + n : st[k] = IF k <= m THEN s[k] ELSE t[k - m]
    BY <1>1, Zenon
  <1>4. ASSUME NEW k \in 1 .. m PROVE st[k] = s[k]
    <2>1. k \in 1 .. m + n /\ k <= m
      BY <1>2
    <2> QED  BY <1>3, <2>1, Zenon
  <1>5. ASSUME NEW k \in 1 .. n PROVE st[m + k] = t[k]
    <2>1. m + k \in 1 .. m + n /\ ~ (m + k <= m) /\ (m + k) - m = k
      BY <1>2
    <2>2. st[m + k] = t[(m + k) - m]
      BY <1>3, <2>1, Zenon
    <2> QED  BY <2>1, <2>2
  <1> QED  BY <1>2, <1>3, <1>4, <1>5

(* The bytes of a compressed string's header: the code and both lengths. *)
LEMMA LzfBytes ==
  ASSUME NEW z \in Word, NEW w \in Word
  PROVE  /\ lzf_header(z, w) \in Seq(Int)
         /\ Len(lzf_header(z, w)) = 1 + Len(len_encode(z)) + Len(len_encode(w))
         /\ lzf_header(z, w)[1] = 195
         /\ \A k \in 1 .. Len(len_encode(z)) : lzf_header(z, w)[1 + k] = len_encode(z)[k]
         /\ \A k \in 1 .. Len(len_encode(w)) :
              lzf_header(z, w)[1 + Len(len_encode(z)) + k] = len_encode(w)[k]
  <1> DEFINE m == Len(len_encode(z))
             n == Len(len_encode(w))
             e == lzf_header(z, w)
  <1> DEFINE a == <<195>>
             y == len_encode(z)
             x == len_encode(w)
             ay == a \o y
  <1>1. a \in Seq(Int) /\ y \in Seq(Int) /\ x \in Seq(Int) /\ Len(a) = 1 /\ a[1] = 195
    BY EncodedBytes
  <1>2. e = ay \o x /\ Len(y) = m /\ Len(x) = n /\ m \in Nat /\ n \in Nat
    BY <1>1 DEF lzf_header
  <1> HIDE DEF m, n, e
  <1> DEFINE o == 1
             p == o + m
  <1>3. ay = a \o y /\ o = Len(a) /\ p \in Nat /\ o \in 1 .. o
    BY <1>1, <1>2
  <1> HIDE DEF a, y, x, ay, o
  <1>4. /\ ay \in Seq(Int) /\ Len(ay) = p
        /\ \A k \in 1 .. o : ay[k] = a[k]
        /\ \A k \in 1 .. m : ay[o + k] = y[k]
    <2>1. o = Len(a) /\ m = Len(y) /\ ay = a \o y
      BY <1>2, <1>3
    <2>2. /\ ay \in Seq(Int) /\ Len(ay) = o + m
          /\ \A k \in 1 .. o : ay[k] = a[k]
          /\ \A k \in 1 .. m : ay[o + k] = y[k]
      <3>1. a \in Seq(Int) /\ y \in Seq(Int)
        BY <1>1
      <3> QED  BY <2>1, <3>1, Joined
    <2> QED  BY <2>2
  <1> HIDE DEF p
  <1>5. /\ e \in Seq(Int) /\ Len(e) = p + n
        /\ \A k \in 1 .. p : e[k] = ay[k]
        /\ \A k \in 1 .. n : e[p + k] = x[k]
    <2>1. p = Len(ay) /\ n = Len(x) /\ e = ay \o x
      BY <1>2, <1>4
    <2>2. ay \in Seq(Int) /\ x \in Seq(Int)
      BY <1>1, <1>4
    <2> QED  BY <2>1, <2>2, Joined
  <1>6. e[1] = 195
    <2>1. 1 \in 1 .. p /\ 1 \in 1 .. o
      BY <1>2 DEF p, o
    <2> QED  BY <1>1, <1>4, <1>5, <2>1
  <1>7. ASSUME NEW k \in 1 .. m PROVE e[1 + k] = y[k]
    <2>1. o + k \in 1 .. p
      BY <1>2 DEF p, o
    <2>2. e[o + k] = y[k]
      BY <1>4, <1>5, <2>1, Zenon
    <2> QED  BY <2>2 DEF o
  <1> QED  BY <1>2, <1>5, <1>6, <1>7 DEF x, y, p, o, m, n, e

(* The size of a compressed string's header is that of its parts. *)
LEMMA LzfSize ==
  ASSUME NEW b, NEW i \in Int, NEW m \in Nat, NEW n \in Nat,
         At(b, i) = 195,
         Plain(b, i + 1).sz = m, Plain(b, i + 1).is_enc = 0,
         Plain(b, i + 1 + m).sz = n, Plain(b, i + 1 + m).is_enc = 0
  PROVE  decode_buf(b, i).sz = 1 + m + n
  <1> DEFINE p == Plain(b, i + 1)
             q == Plain(b, i + 1 + p.sz)
             bad == p.sz < 0 \/ p.is_enc # 0 \/ q.is_enc # 0
  <1>1. decode_buf(b, i) = Lzf(b, i)
    BY DEF decode_buf, length_encoding
  <1>2. Lzf(b, i) = [sz |-> IF bad THEN -1 ELSE 1 + p.sz + q.sz,
                     len |-> IF q.sz < 0 THEN p.len ELSE q.len,
                     ival |-> 0, is_enc |-> 0, is_lzf |-> TRUE, zlen |-> p.len]
    BY Zenon DEF Lzf
  <1>3. p.sz = m /\ p.is_enc = 0 /\ q.sz = n /\ q.is_enc = 0
    OBVIOUS
  <1> HIDE DEF p, q
  <1>4. ~ bad /\ Lzf(b, i).sz = IF bad THEN -1 ELSE 1 + p.sz + q.sz
    BY <1>2, <1>3
  <1> HIDE DEF bad
  <1> QED  BY <1>1, <1>3, <1>4

(* (Only the last field of a header is a Boolean.) *)
LEMMA HeaderFields ==
  ASSUME NEW len, NEW zlen, NEW ival, NEW is_enc, NEW h, h = Header(len, zlen, ival, is_enc)
  PROVE  /\ h.len = len /\ h.zlen = zlen /\ h.ival = ival /\ h.is_enc = is_enc
         /\ zlen = Zero => ~ h.is_lzf
         /\ zlen # Zero => h.is_lzf
  <1>1. h.len = len /\ h.zlen = zlen /\ h.ival = ival /\ h.is_enc = is_enc
    BY DEF Header
  <1>2. h.is_lzf = (zlen # Zero)
    BY Zenon DEF Header
  <1>3. (zlen = Zero => ~ h.is_lzf) /\ (zlen # Zero => h.is_lzf)
    BY <1>2, Zenon
  <1> QED  BY <1>1, <1>3

(* A header from its fields.                                               *)
LEMMA HeaderIs ==
  ASSUME NEW d, NEW len, NEW zlen, NEW ival, NEW is_enc,
         d.len = len, d.zlen = zlen, d.ival = ival, d.is_enc = is_enc,
         d.is_lzf = (zlen # Zero)
  PROVE  HeaderOf(d) = Header(len, zlen, ival, is_enc)
  BY Zenon DEF HeaderOf, Header

(* What was written is a length, an integer or a compressed string.        *)
LEMMA HeaderKinds ==
  ASSUME NEW h \in Lengths \cup Immediates \cup Compressed
  PROVE  \/ /\ h.len \in Word /\ h = Header(h.len, Zero, 0, 0)
            /\ Encoded(h) = len_encode(h.len)
         \/ /\ h.ival \in Int32 /\ h.is_enc \in {1, 2, 4}
            /\ h = Header(Zero, Zero, h.ival, h.is_enc)
            /\ len_size(int_code(h.ival)) = 1 + h.is_enc
            /\ Encoded(h) = int_encode(h.ival)
         \/ /\ h.len \in Word /\ h.zlen \in Word /\ h.zlen # Zero
            /\ h = Header(h.len, h.zlen, 0, 0)
            /\ Encoded(h) = lzf_header(h.zlen, h.len)
  <1>1. CASE h \in Lengths
    <2>1. PICK w \in Word : h = Header(w, Zero, 0, 0)
      BY <1>1 DEF Lengths
    <2>2. h.len = w /\ h.is_enc = 0 /\ ~ h.is_lzf
      BY <2>1, HeaderFields
    <2>3. Encoded(h) = len_encode(h.len)
      BY <2>2, Zenon DEF Encoded
    <2> QED  BY <2>1, <2>2, <2>3
  <1>2. CASE h \in Immediates
    <2>1. PICK x \in Int32, k \in {1, 2, 4} : h = Header(Zero, Zero, x, k)
      BY <1>2 DEF Immediates
    <2>2. h.ival = x /\ h.is_enc = k /\ ~ h.is_lzf
      BY <2>1, HeaderFields
    <2>3. h.is_enc # 0 /\ len_size(int_code(h.ival)) = 1 + h.is_enc
      BY <1>2, <2>2 DEF Immediates
    <2>4. Encoded(h) = int_encode(h.ival)
      BY <2>2, <2>3, Zenon DEF Encoded
    <2> QED  BY <2>1, <2>2, <2>3, <2>4
  <1>3. CASE h \in Compressed
    <2>1. PICK w \in Word, z \in Word \ {Zero} : h = Header(w, z, 0, 0)
      BY <1>3 DEF Compressed
    <2>2. h.len = w /\ h.zlen = z /\ z # Zero /\ h.is_lzf
      BY <2>1, HeaderFields
    <2>3. Encoded(h) = lzf_header(h.zlen, h.len)
      BY <2>2, Zenon DEF Encoded
    <2> QED  BY <2>1, <2>2, <2>3
  <1> QED  BY <1>1, <1>2, <1>3

(* A header that is all there is read as it was meant. *)
LEMMA HeaderReads ==
  ASSUME NEW h \in Lengths \cup Immediates \cup Compressed,
         NEW b, NEW i \in Int, HeldAt(b, i, Encoded(h))
  PROVE  /\ HeaderOf(decode_buf(b, i)) = h
         /\ decode_buf(b, i).sz = Len(Encoded(h))
  <1> DEFINE e == Encoded(h)
             d == decode_buf(b, i)
  <1>1. CASE /\ h.len \in Word /\ h = Header(h.len, Zero, 0, 0)
             /\ e = len_encode(h.len)
    <2>1. d = AsString(ALength(Len(e), h.len))
      BY <1>1, LengthRoundTrip
    <2>2. /\ d.len = h.len /\ d.zlen = Zero /\ d.ival = 0 /\ d.is_enc = 0
          /\ d.sz = Len(e) /\ ~ d.is_lzf
      <3> HIDE DEF e, d
      <3> QED  BY <2>1 DEF AsString, ALength
    <2>3. d.is_lzf = (Zero # Zero)
      <3>1. d.is_lzf = FALSE
        <4> HIDE DEF e, d
        <4> QED  BY <2>1, Zenon DEF AsString
      <3> QED  BY <3>1
    <2>4. HeaderOf(d) = Header(h.len, Zero, 0, 0)
      BY <2>2, <2>3, HeaderIs
    <2> QED  BY <1>1, <2>2, <2>4
  <1>2. CASE /\ h.ival \in Int32 /\ h.is_enc \in {1, 2, 4}
             /\ h = Header(Zero, Zero, h.ival, h.is_enc)
             /\ len_size(int_code(h.ival)) = 1 + h.is_enc
             /\ e = int_encode(h.ival)
    <2> DEFINE p == Plain(b, i)
    <2>1. /\ d = AsString(p) /\ p.ival = h.ival /\ p.sz = Len(e)
          /\ p.sz = 1 + h.is_enc
      BY <1>2, IntRoundTrip
    <2>2. At(b, i) = e[1]
      <3>1. Len(e) \in 2 .. 5
        BY <1>2, <2>1
      <3>2. At(b, i + 1 - 1) = e[1]
        BY <3>1 DEF HeldAt
      <3> QED  BY <3>2
    <2>3. p.is_enc = h.is_enc
      BY <1>2, <2>1, <2>2, IntSize
    <2>4. p.len = Zero
      BY <2>3, <1>2 DEF Plain, AnInt, ALength, NoLength
    <2> HIDE DEF p, e
    <2>5. /\ d.len = Zero /\ d.zlen = Zero /\ d.ival = h.ival /\ d.is_enc = h.is_enc
          /\ d.sz = Len(e)
      BY <2>1, <2>3, <2>4 DEF AsString
    <2>6. d.is_lzf = (Zero # Zero)
      <3>1. d.is_lzf = FALSE
        <4> HIDE DEF d
        <4> QED  BY <2>1, Zenon DEF AsString
      <3> QED  BY <3>1
    <2>7. HeaderOf(d) = Header(Zero, Zero, h.ival, h.is_enc)
      BY <2>5, <2>6, HeaderIs
    <2> QED  BY <1>2, <2>5, <2>7 DEF e
  <1>3. CASE /\ h.len \in Word /\ h.zlen \in Word /\ h.zlen # Zero
             /\ h = Header(h.len, h.zlen, 0, 0)
             /\ e = lzf_header(h.zlen, h.len)
    <2> DEFINE m == Len(len_encode(h.zlen))
               n == Len(len_encode(h.len))
    <2>1. /\ Len(e) = 1 + m + n /\ e[1] = 195
          /\ \A k \in 1 .. m : e[1 + k] = len_encode(h.zlen)[k]
          /\ \A k \in 1 .. n : e[1 + m + k] = len_encode(h.len)[k]
      <3>1. e = lzf_header(h.zlen, h.len)
        BY <1>3
      <3> HIDE DEF e, m, n
      <3>2. h.len \in Word /\ h.zlen \in Word
        BY <1>3
      <3>3. m = Len(len_encode(h.zlen)) /\ n = Len(len_encode(h.len))
        BY DEF m, n
      <3> DEFINE z == h.zlen
                 w == h.len
      <3>4. /\ z \in Word /\ w \in Word /\ m = Len(len_encode(z))
            /\ n = Len(len_encode(w)) /\ e = lzf_header(z, w)
        BY <3>1, <3>2, <3>3
      <3> HIDE DEF z, w
      <3>5. /\ e \in Seq(Int) /\ Len(e) = 1 + m + n /\ e[1] = 195
            /\ \A k \in 1 .. m : e[1 + k] = len_encode(z)[k]
            /\ \A k \in 1 .. n : e[1 + m + k] = len_encode(w)[k]
        <4>1. /\ lzf_header(z, w) \in Seq(Int)
              /\ Len(lzf_header(z, w)) = 1 + Len(len_encode(z)) + Len(len_encode(w))
              /\ lzf_header(z, w)[1] = 195
              /\ \A k \in 1 .. Len(len_encode(z)) :
                   lzf_header(z, w)[1 + k] = len_encode(z)[k]
              /\ \A k \in 1 .. Len(len_encode(w)) :
                   lzf_header(z, w)[1 + Len(len_encode(z)) + k] = len_encode(w)[k]
          <5>1. z \in Word /\ w \in Word
            BY <3>4
          <5> QED  BY <5>1, LzfBytes, SMTT(30)
        <4> QED  BY <3>4, <4>1
      <3> QED  BY <3>5 DEF z, w
    <2>2. m \in 1 .. 9 /\ n \in 1 .. 9
      BY <1>3, SizeAgrees DEF len_size, str_code
    <2>3. \A k \in 1 .. 1 + m + n : At(b, i + k - 1) = e[k]
      BY <2>1 DEF HeldAt
    <2> HIDE DEF m, n, e
    <2>4. At(b, i) = 195
      <3>1. At(b, i + 1 - 1) = e[1]
        BY <2>2, <2>3
      <3> QED  BY <2>1, <3>1
    <2>5. HeldAt(b, i + 1, len_encode(h.zlen))
      <3>1. ASSUME NEW k \in 1 .. m PROVE At(b, i + 1 + k - 1) = len_encode(h.zlen)[k]
        <4>1. 1 + k \in 1 .. 1 + m + n /\ i + (1 + k) - 1 = i + 1 + k - 1
          BY <2>2
        <4> QED  BY <2>1, <2>3, <4>1
      <3> QED  BY <3>1 DEF HeldAt, m
    <2>6. HeldAt(b, i + 1 + m, len_encode(h.len))
      <3>1. ASSUME NEW k \in 1 .. n PROVE At(b, i + 1 + m + k - 1) = len_encode(h.len)[k]
        <4>1. 1 + m + k \in 1 .. 1 + m + n /\ i + (1 + m + k) - 1 = i + 1 + m + k - 1
          BY <2>2
        <4> QED  BY <2>1, <2>3, <4>1
      <3> QED  BY <3>1 DEF HeldAt, n
    <2>7. d = [sz |-> 1 + m + n, len |-> h.len, ival |-> 0, is_enc |-> 0,
               is_lzf |-> TRUE, zlen |-> h.zlen]
      BY <1>3, <2>4, <2>5, <2>6, LzfRoundTrip DEF m, n
    <2> HIDE DEF d
    <2>8. /\ d.len = h.len /\ d.zlen = h.zlen /\ d.ival = 0 /\ d.is_enc = 0
          /\ d.sz = Len(e)
      BY <2>1, <2>7
    <2>9. d.is_lzf = (h.zlen # Zero)
      <3>1. d.is_lzf = TRUE
        BY <2>7, Zenon
      <3> QED  BY <1>3, <3>1
    <2>10. HeaderOf(d) = Header(h.len, h.zlen, 0, 0)
      BY <2>8, <2>9, HeaderIs
    <2> QED  BY <1>3, <2>8, <2>10 DEF d, e
  <1> QED  BY <1>1, <1>2, <1>3, HeaderKinds


(* Where the sizes of both lengths are. *)
LEMMA LzfFirsts ==
  ASSUME NEW z \in Word, NEW w \in Word
  PROVE  /\ Len(len_encode(z)) \in 1 .. 9 /\ Len(len_encode(w)) \in 1 .. 9
         /\ Len(lzf_header(z, w)) = 1 + Len(len_encode(z)) + Len(len_encode(w))
         /\ lzf_header(z, w)[1] = 195
         /\ lzf_header(z, w)[2] = len_encode(z)[1]
         /\ lzf_header(z, w)[2 + Len(len_encode(z))] = len_encode(w)[1]
  <1> DEFINE nz == Len(len_encode(z))
             nw == Len(len_encode(w))
  <1>1. nz \in 1 .. 9 /\ nw \in 1 .. 9
    BY SizeAgrees DEF len_size, str_code
  <1>2. /\ Len(lzf_header(z, w)) = 1 + nz + nw /\ lzf_header(z, w)[1] = 195
        /\ \A k \in 1 .. nz : lzf_header(z, w)[1 + k] = len_encode(z)[k]
        /\ \A k \in 1 .. nw : lzf_header(z, w)[1 + nz + k] = len_encode(w)[k]
    BY LzfBytes, SMTT(30)
  <1> HIDE DEF nz, nw
  <1>3. 1 \in 1 .. nz /\ 1 \in 1 .. nw /\ 1 + 1 = 2 /\ 1 + nz + 1 = 2 + nz
    BY <1>1
  <1>4. lzf_header(z, w)[2] = len_encode(z)[1] /\ lzf_header(z, w)[2 + nz] = len_encode(w)[1]
    BY <1>2, <1>3
  <1> QED  BY <1>1, <1>2, <1>4 DEF nz, nw

(* Of a header that is cut there is at least the byte that says how long   *)
(* it is, and what it is padded with never makes it an error: it is taken  *)
(* for one that is longer than what is left.                               *)
LEMMA HeaderCut ==
  ASSUME NEW h \in Lengths \cup Immediates \cup Compressed,
         NEW b, NEW i \in Int, NEW m \in Nat, 1 <= m, m < Len(Encoded(h)),
         \A k \in 1 .. m : At(b, i + k - 1) = Encoded(h)[k],
         \A j \in Int : j >= i + m => At(b, j) = 0
  PROVE  decode_buf(b, i).sz \in Int /\ decode_buf(b, i).sz > m
  <1> DEFINE e == Encoded(h)
             d == decode_buf(b, i)
  <1>0. At(b, i) = e[1]
    <2>1. At(b, i + 1 - 1) = e[1]
      OBVIOUS
    <2> QED  BY <2>1
  <1>1. CASE h.len \in Word /\ e = len_encode(h.len)
    <2>1. d = AsString(Plain(b, i)) /\ Plain(b, i).sz = Len(e) /\ Len(e) \in 1 .. 9
      BY <1>0, <1>1, LengthSize
    <2> QED  BY <2>1 DEF AsString
  <1>2. CASE h.ival \in Int32 /\ e = int_encode(h.ival)
    <2>1. d = AsString(Plain(b, i)) /\ Plain(b, i).sz = Len(e) /\ Len(e) \in 2 .. 5
      BY <1>0, <1>2, IntSize
    <2> QED  BY <2>1 DEF AsString
  <1>3. CASE h.len \in Word /\ h.zlen \in Word /\ e = lzf_header(h.zlen, h.len)
    <2> DEFINE z == h.zlen
               w == h.len
               nz == Len(len_encode(z))
               nw == Len(len_encode(w))
    <2>1. z \in Word /\ w \in Word
      BY <1>3
    <2> HIDE DEF z, w
    <2>2. e = lzf_header(z, w)
      BY <1>3 DEF z, w
    <2>3. nz \in 1 .. 9 /\ nw \in 1 .. 9
      BY <2>1, LzfFirsts
    <2>4. /\ Len(e) = 1 + nz + nw /\ e[1] = 195
          /\ e[2] = len_encode(z)[1] /\ e[2 + nz] = len_encode(w)[1]
      <3> HIDE DEF e
      <3> QED  BY <2>1, <2>2, LzfFirsts
    <2>5. m < 1 + nz + nw /\ At(b, i) = 195
      BY <1>0, <2>4
    <2> HIDE DEF e, nz, nw
    <2>6. m >= 2 => At(b, i + 1) = len_encode(z)[1]
      <3>1. m >= 2 => 2 \in 1 .. m /\ i + 2 - 1 = i + 1
        OBVIOUS
      <3>2. \A k \in 1 .. m : At(b, i + k - 1) = e[k]
        BY DEF e
      <3> QED  BY <2>4, <3>1, <3>2
    <2>7. m >= nz + 2 => At(b, i + 1 + nz) = len_encode(w)[1]
      <3>1. m >= nz + 2 => 2 + nz \in 1 .. m /\ i + (2 + nz) - 1 = i + 1 + nz
        BY <2>3
      <3>2. \A k \in 1 .. m : At(b, i + k - 1) = e[k]
        BY DEF e
      <3> QED  BY <2>4, <3>1, <3>2
    <2>8. CASE m = 1
      <3>1. At(b, i + 1) = 0 /\ At(b, i + 1 + 1) = 0
        BY <2>8
      <3>2. d.sz = 1 + 1 + 1
        BY <2>5, <3>1, PadSize, LzfSize
      <3> QED  BY <2>8, <3>2
    <2>9. CASE 2 <= m /\ m < nz + 2
      <3>1. Plain(b, i + 1).sz = nz /\ Plain(b, i + 1).is_enc = 0
        BY <2>1, <2>6, <2>9, LengthSize DEF nz
      <3>2. i + 1 + nz \in Int /\ i + 1 + nz >= i + m
        BY <2>3, <2>9
      <3>3. Plain(b, i + 1 + nz).sz = 1 /\ Plain(b, i + 1 + nz).is_enc = 0
        BY <3>2, PadSize
      <3> DEFINE o == 1
      <3>4. o \in Nat /\ nz \in Nat /\ Plain(b, i + 1 + nz).sz = o
        BY <2>3, <3>3
      <3> HIDE DEF o
      <3>5. d.sz = 1 + nz + o
        BY <2>5, <3>1, <3>3, <3>4, LzfSize
      <3> QED  BY <2>3, <2>9, <3>5 DEF o
    <2>10. CASE nz + 2 <= m
      <3>1. Plain(b, i + 1).sz = nz /\ Plain(b, i + 1).is_enc = 0
        BY <2>1, <2>3, <2>6, <2>10, LengthSize DEF nz
      <3>2. i + 1 + nz \in Int /\ nz \in Nat /\ nw \in Nat
        BY <2>3
      <3>3. Plain(b, i + 1 + nz).sz = nw /\ Plain(b, i + 1 + nz).is_enc = 0
        BY <2>1, <2>7, <2>10, <3>2, LengthSize DEF nw
      <3>4. d.sz = 1 + nz + nw
        BY <2>5, <3>1, <3>2, <3>3, LzfSize
      <3> QED  BY <2>3, <2>5, <3>4
    <2>11. m = 1 \/ (2 <= m /\ m < nz + 2) \/ nz + 2 <= m
      BY <2>3
    <2> QED  BY <2>8, <2>9, <2>10, <2>11
  <1> QED  BY <1>1, <1>2, <1>3, HeaderKinds


-----------------------------------------------------------------------------
(* What the stream holds.  The headers written begin at the positions f,   *)
(* one behind the other, and of each of them there is what was not cut     *)
(* off.  The reader is where the header begins that comes after those that *)
(* it has read.                                                            *)
Headers == Lengths \cup Immediates \cup Compressed
Read == [len : Word, zlen : Word, ival : Int32, is_enc : {0, 1, 2, 4}, is_lzf : BOOLEAN]

Starts(f, hs) ==
  /\ f \in Seq(Nat) /\ Len(f) = Len(hs) + 1 /\ f[1] = 0
  /\ \A k \in 1 .. Len(hs) : f[k + 1] = f[k] + Len(Encoded(hs[k]))
  /\ \A j, k \in 1 .. Len(hs) + 1 : j < k => f[j] < f[k]

Holds(f, hs, b) ==
  \A k \in 1 .. Len(hs) : \A j \in 1 .. Len(Encoded(hs[k])) :
    f[k] + j <= Len(b) => b[f[k] + j] = Encoded(hs[k])[j]

WireInv(f) ==
  /\ Len(wire) <= f[Len(written) + 1]
  /\ medium # "cut" => Len(wire) = f[Len(written) + 1]
  /\ medium # "bad" => Holds(f, written, wire)

ReaderInv(f) ==
  medium # "bad" =>
    /\ Len(read) <= Len(written) /\ pos = f[Len(read) + 1]
    /\ \A k \in 1 .. Len(read) : read[k] = written[k]
    /\ rc # "hdr"
    /\ medium = "whole" => rc = "ok"

TypesInv ==
  /\ written \in Seq(Headers) /\ wire \in Seq(Byte) /\ read \in Seq(Read)
  /\ medium \in {"open", "whole", "cut", "bad"}
  /\ pos \in 0 .. Len(wire)
  /\ medium = "open" => pos = 0 /\ read = <<>> /\ rc = "ok"

StreamInv == TypesInv /\ \E f : Starts(f, written) /\ WireInv(f) /\ ReaderInv(f)

(* Nothing is written.                                                     *)
LEMMA InitStream == Init => StreamInv
  <1> SUFFICES ASSUME Init PROVE StreamInv
    OBVIOUS
  <1> DEFINE f == <<0>>
  <1>1. /\ written = <<>> /\ wire = <<>> /\ read = <<>> /\ pos = 0
        /\ medium = "open" /\ rc = "ok"
    BY DEF Init
  <1>2. TypesInv
    BY <1>1 DEF TypesInv
  <1>3. Starts(f, written)
    BY <1>1 DEF Starts
  <1>4. WireInv(f) /\ ReaderInv(f)
    BY <1>1 DEF WireInv, Holds, ReaderInv
  <1> QED  BY <1>2, <1>3, <1>4 DEF StreamInv

(* What is written are bytes. *)
LEMMA LengthBytes ==
  ASSUME NEW w \in Word
  PROVE  len_encode(w) \in Seq(Byte) /\ Len(len_encode(w)) \in 1 .. 9
  <1>0. \A k \in 1 .. 8 : w[k] \in 0 .. 255
    BY DEF Word, Byte
  <1>1. CASE Fits6(w)
    BY <1>0, <1>1 DEF len_encode, str_code, Byte
  <1>2. CASE ~ Fits6(w) /\ Fits14(w)
    <2>1. w[7] \in 0 .. 255 /\ w[7] < 64 /\ w[8] \in 0 .. 255
      BY <1>0, <1>2 DEF Fits14
    <2>2. 64 + w[7] \in 0 .. 255
      BY <2>1
    <2> QED  BY <1>2, <2>1, <2>2 DEF len_encode, str_code, Byte
  <1>3. CASE ~ Fits6(w) /\ ~ Fits14(w) /\ Fits32(w)
    BY <1>0, <1>3 DEF len_encode, str_code, Byte
  <1>4. CASE ~ Fits6(w) /\ ~ Fits14(w) /\ ~ Fits32(w)
    BY <1>0, <1>4 DEF len_encode, str_code, Byte
  <1> QED  BY <1>1, <1>2, <1>3, <1>4

(* What is written are bytes.                                              *)
LEMMA IntBytes ==
  ASSUME NEW x \in Int32
  PROVE  int_encode(x) \in Seq(Byte) /\ Len(int_encode(x)) \in 2 .. 5
  <1> DEFINE x1 == x \div 256
             x2 == x1 \div 256
             x3 == x2 \div 256
  <1>1. x \in Int
    BY SMT DEF Int32
  <1>2. x % 256 \in Byte /\ x1 \in Int
    BY <1>1, LowByte DEF Byte
  <1>3. x1 % 256 \in Byte /\ x2 \in Int
    BY <1>2, LowByte DEF Byte
  <1>4. x2 % 256 \in Byte /\ x3 \in Int
    BY <1>3, LowByte DEF Byte
  <1>5. x3 % 256 \in Byte
    BY <1>4, LowByte DEF Byte
  <1>6. int_code(x) \in {"int8", "int16", "int32"}
    BY DEF int_code
  <1>7. 192 \in Byte /\ 193 \in Byte /\ 194 \in Byte
    BY DEF Byte
  <1> HIDE DEF x1, x2, x3
  <1>8. CASE int_code(x) = "int8"
    <2>1. int_encode(x) = <<192, x % 256>>
      BY <1>8 DEF int_encode
    <2> QED  BY <1>2, <1>7, <2>1
  <1>9. CASE int_code(x) = "int16"
    <2>1. int_encode(x) = <<193, x % 256, x1 % 256>>
      BY <1>9 DEF int_encode, x1
    <2> QED  BY <1>2, <1>3, <1>7, <2>1
  <1>10. CASE int_code(x) = "int32"
    <2>1. int_encode(x) = <<194, x % 256, x1 % 256, x2 % 256, x3 % 256>>
      BY <1>10 DEF int_encode, x1, x2, x3
    <2> QED  BY <1>2, <1>3, <1>4, <1>5, <1>7, <2>1
  <1> QED  BY <1>6, <1>8, <1>9, <1>10

(* So is every header.                                                     *)
LEMMA HeaderBytes ==
  ASSUME NEW h \in Headers
  PROVE  Encoded(h) \in Seq(Byte) /\ Len(Encoded(h)) \in Nat /\ Len(Encoded(h)) >= 1
  <1>1. CASE h.len \in Word /\ Encoded(h) = len_encode(h.len)
    <2>1. len_encode(h.len) \in Seq(Byte) /\ Len(len_encode(h.len)) \in 1 .. 9
      BY <1>1, LengthBytes
    <2> DEFINE e == len_encode(h.len)
    <2>2. Encoded(h) = e /\ e \in Seq(Byte) /\ Len(e) \in 1 .. 9
      BY <1>1, <2>1
    <2> HIDE DEF e
    <2>3. \A k \in 1 .. 9 : k \in Nat /\ k >= 1
      OBVIOUS
    <2> QED  BY <2>2, <2>3, Zenon
  <1>2. CASE h.ival \in Int32 /\ Encoded(h) = int_encode(h.ival)
    <2>1. int_encode(h.ival) \in Seq(Byte) /\ Len(int_encode(h.ival)) \in 2 .. 5
      BY <1>2, IntBytes
    <2> QED  BY <1>2, <2>1
  <1>3. CASE h.len \in Word /\ h.zlen \in Word /\ Encoded(h) = lzf_header(h.zlen, h.len)
    <2> DEFINE a == <<195>>
               z == len_encode(h.zlen)
               w == len_encode(h.len)
    <2>1. a \in Seq(Byte) /\ z \in Seq(Byte) /\ w \in Seq(Byte)
      BY <1>3, LengthBytes DEF Byte
    <2>2. Encoded(h) = a \o z \o w
      BY <1>3 DEF lzf_header
    <2> HIDE DEF a, z, w
    <2>3. Encoded(h) \in Seq(Byte)
      <3>1. a \o z \in Seq(Byte)
        BY <2>1, ConcatProperties, Zenon
      <3>2. a \o z \o w \in Seq(Byte)
        BY <2>1, <3>1, ConcatProperties, Zenon
      <3> QED  BY <2>2, <3>2
    <2>4. Len(Encoded(h)) = 1 + Len(len_encode(h.zlen)) + Len(len_encode(h.len))
          /\ Len(len_encode(h.zlen)) \in 1 .. 9 /\ Len(len_encode(h.len)) \in 1 .. 9
      BY <1>3, LzfFirsts
    <2> QED  BY <2>3, <2>4
  <1> QED  BY <1>1, <1>2, <1>3, HeaderKinds DEF Headers


(* One more header, behind those that are there. *)
LEMMA WriteStream ==
  ASSUME StreamInv, NEW h \in Headers, NEW bytes, bytes = Encoded(h), NEW size,
         Write(h, bytes, size)
  PROVE  StreamInv'
  <1> DEFINE n == Len(written)
             m == Len(bytes)
  <1>1. /\ TypesInv /\ medium = "open" /\ written' = Append(written, h)
        /\ wire' = wire \o bytes /\ UNCHANGED <<medium, pos, read, rc>>
    BY DEF StreamInv, Write
  <1>2. PICK f : Starts(f, written) /\ WireInv(f) /\ ReaderInv(f)
    BY DEF StreamInv
  <1>3. /\ written \in Seq(Headers) /\ wire \in Seq(Byte) /\ n \in Nat
        /\ bytes \in Seq(Byte) /\ m \in Nat /\ m >= 1
        /\ pos = 0 /\ read = <<>> /\ rc = "ok"
    BY <1>1, HeaderBytes DEF TypesInv
  <1> DEFINE L == Len(wire)
             hs == Append(written, h)
             wr == wire \o bytes
  <1>4. /\ f \in Seq(Nat) /\ Len(f) = n + 1 /\ f[1] = 0 /\ f[n + 1] = L /\ L \in Nat
        /\ \A k \in 1 .. n : f[k + 1] = f[k] + Len(Encoded(written[k]))
        /\ \A j, k \in 1 .. n + 1 : j < k => f[j] < f[k]
        /\ Holds(f, written, wire)
    BY <1>1, <1>2, <1>3 DEF Starts, WireInv
  <1>5. /\ hs \in Seq(Headers) /\ Len(hs) = n + 1 /\ hs[n + 1] = h
        /\ \A k \in 1 .. n : hs[k] = written[k]
    BY <1>3
  <1>6. /\ wr \in Seq(Byte) /\ Len(wr) = L + m
        /\ \A k \in 1 .. L : wr[k] = wire[k]
        /\ \A k \in 1 .. m : wr[L + k] = bytes[k]
    <2> DEFINE w == wire
    <2>1. w \in Seq(Byte) /\ bytes \in Seq(Byte) /\ L = Len(w) /\ wr = w \o bytes
      BY <1>3
    <2> HIDE DEF w, wr, L, m
    <2>3. m = Len(bytes)
      BY DEF m
    <2>4. /\ wr \in Seq(Byte) /\ Len(wr) = L + m
          /\ \A k \in 1 .. L : wr[k] = w[k]
          /\ \A k \in 1 .. m : wr[L + k] = bytes[k]
      BY <2>1, <2>3, Joined
    <2> QED  BY <2>4 DEF w
  <1>0. PICK g : g = Append(f, L + m)
    OBVIOUS
  <1>7. /\ g \in Seq(Nat) /\ Len(g) = n + 2 /\ g[n + 2] = L + m
        /\ \A k \in 1 .. n + 1 : g[k] = f[k]
    BY <1>3, <1>4, <1>0
  <1> HIDE DEF n, m, L, hs, wr
  <1>8. Starts(g, hs)
    <2>1. \A k \in 1 .. n + 1 : g[k + 1] = g[k] + Len(Encoded(hs[k]))
      <3> SUFFICES ASSUME NEW k \in 1 .. n + 1
                   PROVE  g[k + 1] = g[k] + Len(Encoded(hs[k]))
        OBVIOUS
      <3>1. CASE k = n + 1
        <4>1. k + 1 = n + 2 /\ k \in 1 .. n + 1
          BY <1>3, <3>1
        <4> QED  BY <1>4, <1>5, <1>7, <3>1, <4>1 DEF m
      <3>2. CASE k # n + 1
        <4>1. k \in 1 .. n /\ k + 1 \in 1 .. n + 1
          BY <1>3, <3>2
        <4> QED  BY <1>4, <1>5, <1>7, <4>1
      <3> QED  BY <3>1, <3>2
    <2>2. \A j, k \in 1 .. n + 2 : j < k => g[j] < g[k]
      <3> SUFFICES ASSUME NEW j \in 1 .. n + 2, NEW k \in 1 .. n + 2, j < k
                   PROVE  g[j] < g[k]
        OBVIOUS
      <3>1. j \in 1 .. n + 1 /\ n + 1 \in 1 .. n + 1 /\ f[j] \in Nat /\ g[j] = f[j]
        BY <1>3, <1>4, <1>7
      <3>2. CASE k = n + 2
        <4>1. f[j] <= L
          <5>1. j = n + 1 \/ j < n + 1
            BY <1>3, <3>1
          <5> QED  BY <1>4, <3>1, <5>1
        <4> QED  BY <1>3, <1>4, <1>7, <3>1, <3>2, <4>1
      <3>3. CASE k # n + 2
        <4>1. k \in 1 .. n + 1
          BY <1>3, <3>3
        <4> QED  BY <1>4, <1>7, <3>1, <4>1
      <3> QED  BY <3>2, <3>3
    <2>3. g[1] = 0
      BY <1>3, <1>4, <1>7
    <2>4. Len(hs) + 1 = n + 2 /\ Len(hs) = n + 1
      BY <1>3, <1>5
    <2> QED  BY <1>7, <2>1, <2>2, <2>3, <2>4 DEF Starts
  <1>9. Holds(g, hs, wr)
    <2> SUFFICES ASSUME NEW k \in 1 .. n + 1, NEW j \in 1 .. Len(Encoded(hs[k])),
                        g[k] + j <= Len(wr)
                 PROVE  wr[g[k] + j] = Encoded(hs[k])[j]
      BY <1>5 DEF Holds
    <2>1. CASE k = n + 1
      <3>1. g[k] = L /\ hs[k] = h /\ j \in 1 .. m
        BY <1>3, <1>4, <1>5, <1>7, <2>1 DEF m
      <3> QED  BY <1>6, <3>1
    <2>2. CASE k # n + 1
      <3>1. k \in 1 .. n /\ k + 1 \in 1 .. n + 1 /\ n + 1 \in 1 .. n + 1
        BY <1>3, <2>2
      <3>2. hs[k] = written[k] /\ g[k] = f[k] /\ written[k] \in Headers
        <4>1. hs[k] = written[k]
          BY <1>5, <3>1
        <4>2. g[k] = f[k]
          BY <1>7, <2>2
        <4>3. written[k] \in Headers
          <5>1. k \in 1 .. Len(written) /\ written \in Seq(Headers)
            BY <1>3, <3>1 DEF n
          <5> QED  BY <5>1, ElementOfSeq
        <4> QED  BY <4>1, <4>2, <4>3
      <3> DEFINE s == Len(Encoded(written[k]))
      <3>3. s \in Nat /\ j \in 1 .. s
        BY <3>2, HeaderBytes
      <3>4. f[k] \in Nat /\ f[k + 1] \in Nat /\ f[k + 1] = f[k] + s
        <4>1. f[k + 1] = f[k] + s
          BY <1>4, <3>1
        <4>2. f \in Seq(Nat) /\ k \in 1 .. Len(f) /\ k + 1 \in 1 .. Len(f)
          BY <1>4, <2>2, <3>1
        <4>3. f[k] \in Nat /\ f[k + 1] \in Nat
          BY <4>2, ElementOfSeq
        <4> QED  BY <4>1, <4>3
      <3>5. f[k + 1] <= L
        <4>1. k + 1 = n + 1 \/ k + 1 < n + 1
          BY <1>3, <3>1
        <4> QED  BY <1>4, <3>1, <3>4, <4>1
      <3> HIDE DEF s
      <3>6. f[k] + j \in 1 .. L
        <4>1. L \in Nat
          BY <1>4
        <4> QED  BY <3>3, <3>4, <3>5, <4>1
      <3>7. wire[f[k] + j] = Encoded(written[k])[j]
        <4>1. /\ k \in 1 .. Len(written) /\ j \in 1 .. Len(Encoded(written[k]))
              /\ f[k] + j <= Len(wire)
          BY <3>1, <3>3, <3>6 DEF n, L, s
        <4>2. Holds(f, written, wire)
          BY <1>4
        <4> QED  BY <4>1, <4>2, Zenon DEF Holds
      <3> QED  BY <1>6, <3>2, <3>6, <3>7
    <2> QED  BY <2>1, <2>2
  <1>10. written' = hs /\ wire' = wr /\ Len(hs) + 1 = n + 2
    BY <1>1, <1>3, <1>5 DEF hs, wr
  <1>11. WireInv(g)'
    BY <1>6, <1>7, <1>9, <1>10 DEF WireInv
  <1>12. Len(read') = 0 /\ pos' = 0 /\ medium' = "open" /\ rc' = "ok"
    BY <1>1, <1>3
  <1>13. ReaderInv(g)'
    <2>1. Len(written') \in Nat /\ g[1] = 0
      BY <1>3, <1>4, <1>5, <1>7, <1>10
    <2> QED  BY <1>12, <2>1 DEF ReaderInv
  <1>14. TypesInv'
    <2>1. pos' \in 0 .. Len(wire')
      BY <1>3, <1>4, <1>6, <1>10, <1>12
    <2> QED  BY <1>1, <1>3, <1>5, <1>6, <1>10, <1>12, <2>1 DEF TypesInv
  <1>15. Starts(g, written')
    BY <1>8, <1>10
  <1> QED  BY <1>11, <1>13, <1>14, <1>15 DEF StreamInv


(* What is decoded is a length of 64 bits or an integer of 32, whatever    *)
(* the bytes are.                                                          *)
LEMMA WordOf ==
  ASSUME NEW a \in Byte, NEW b \in Byte, NEW c \in Byte, NEW d \in Byte,
         NEW e \in Byte, NEW f \in Byte, NEW g \in Byte, NEW h \in Byte
  PROVE  <<a, b, c, d, e, f, g, h>> \in Word
  BY DEF Word

(* A signed byte.                                                          *)
LEMMA Signed8OK ==
  ASSUME NEW x \in Byte
  PROVE  Signed8(x) \in -128 .. 127
  BY DEF Signed8, Byte

(* What is read behind the end is 0, a byte too.                           *)
LEMMA AtByte ==
  ASSUME NEW b \in Seq(Byte), NEW j
  PROVE  At(b, j) \in Byte
  <1>1. 0 \in Byte
    BY DEF Byte
  <1> QED  BY <1>1 DEF At

(* 0 is a number of both kinds.                                            *)
LEMMA Zeros ==
  0 \in Int32 /\ Zero \in Word
  <1>1. 0 \in Int32
    BY SMT DEF Int32
  <1>2. 0 \in Byte
    BY DEF Byte
  <1>3. Zero \in Word
    BY <1>2, WordOf DEF Zero
  <1> QED  BY <1>1, <1>3

(* Whatever the bytes: what decode() makes of them fits its fields.        *)
LEMMA PlainTyped ==
  ASSUME NEW b \in Seq(Byte), NEW i \in Int
  PROVE  /\ Plain(b, i).len \in Word /\ Plain(b, i).ival \in Int32
         /\ Plain(b, i).is_enc \in {0, 1, 2, 4}
  <1> DEFINE c(k) == At(b, i + k)
             e == length_encoding(c(0))
  <1>2. 0 \in Byte /\ 0 \in Int32 /\ Zero \in Word
    BY Zeros DEF Byte
  <1>3. /\ c(0) \in Byte /\ c(1) \in Byte /\ c(2) \in Byte /\ c(3) \in Byte /\ c(4) \in Byte
        /\ c(5) \in Byte /\ c(6) \in Byte /\ c(7) \in Byte /\ c(8) \in Byte
    BY AtByte
  <1>4. CASE e = "len6"
    <2>1. Plain(b, i) = ALength(1, <<0, 0, 0, 0, 0, 0, 0, c(0)>>)
      BY <1>4 DEF Plain
    <2>2. <<0, 0, 0, 0, 0, 0, 0, c(0)>> \in Word
      BY <1>2, <1>3, WordOf
    <2> QED  BY <1>2, <2>1, <2>2 DEF ALength
  <1>5. CASE e = "len14"
    <2>1. Plain(b, i) = ALength(2, <<0, 0, 0, 0, 0, 0, c(0) - 64, c(1)>>)
      BY <1>5 DEF Plain
    <2>2. c(0) - 64 \in Byte
      BY <1>3, <1>5 DEF length_encoding, Byte, LEN_ERR
    <2>3. <<0, 0, 0, 0, 0, 0, c(0) - 64, c(1)>> \in Word
      BY <1>2, <1>3, <2>2, WordOf
    <2> QED  BY <1>2, <2>1, <2>3 DEF ALength
  <1>6. CASE e = "len32"
    <2>1. Plain(b, i) = ALength(5, <<0, 0, 0, 0, c(1), c(2), c(3), c(4)>>)
      BY <1>6 DEF Plain
    <2>2. <<0, 0, 0, 0, c(1), c(2), c(3), c(4)>> \in Word
      BY <1>2, <1>3, WordOf
    <2> QED  BY <1>2, <2>1, <2>2 DEF ALength
  <1>7. CASE e = "len64"
    <2>1. Plain(b, i) = ALength(9, <<c(1), c(2), c(3), c(4), c(5), c(6), c(7), c(8)>>)
      BY <1>7 DEF Plain
    <2>2. <<c(1), c(2), c(3), c(4), c(5), c(6), c(7), c(8)>> \in Word
      BY <1>3, WordOf
    <2> QED  BY <1>2, <2>1, <2>2 DEF ALength
  <1>8. CASE e = "int8"
    <2> DEFINE v == Signed8(c(1))
    <2>1. Plain(b, i) = AnInt(2, v, 1)
      BY <1>8 DEF Plain
    <2>2. v \in Int32
      <3>1. v \in -128 .. 127
        BY <1>3, Signed8OK
      <3> HIDE DEF v
      <3> QED  BY <3>1, SMT DEF Int32
    <2> QED  BY <1>2, <2>1, <2>2 DEF AnInt
  <1>9. CASE e = "int16"
    <2> DEFINE v == 256 * Signed8(c(2)) + c(1)
    <2>1. Plain(b, i) = AnInt(3, v, 2)
      BY <1>9 DEF Plain
    <2>2. Signed8(c(2)) \in -128 .. 127 /\ c(1) \in 0 .. 255
      BY <1>3, Signed8OK DEF Byte
    <2>3. v \in Int32
      <3> DEFINE s == Signed8(c(2))
                 x == c(1)
      <3>1. s \in -128 .. 127 /\ x \in 0 .. 255
        BY <2>2
      <3> HIDE DEF s, x
      <3>2. 256 * s + x \in Int32
        BY <3>1, SMT DEF Int32
      <3> QED  BY <3>2 DEF s, x
    <2> QED  BY <1>2, <2>1, <2>3 DEF AnInt
  <1>10. CASE e = "int32"
    <2> DEFINE v == 256 * (256 * (256 * Signed8(c(4)) + c(3)) + c(2)) + c(1)
    <2>1. Plain(b, i) = AnInt(5, v, 4)
      BY <1>10 DEF Plain
    <2>2. /\ Signed8(c(4)) \in -128 .. 127
          /\ c(1) \in 0 .. 255 /\ c(2) \in 0 .. 255 /\ c(3) \in 0 .. 255
      BY <1>3, Signed8OK DEF Byte
    <2>3. v \in Int32
      <3> DEFINE s == Signed8(c(4))
                 x == c(3)
                 y == c(2)
                 z == c(1)
      <3>1. s \in -128 .. 127 /\ x \in 0 .. 255 /\ y \in 0 .. 255 /\ z \in 0 .. 255
        BY <2>2
      <3> HIDE DEF s, x, y, z
      <3>2. 256 * (256 * (256 * s + x) + y) + z \in Int32
        BY <3>1, SMT DEF Int32
      <3> QED  BY <3>2 DEF s, x, y, z
    <2> QED  BY <1>2, <2>1, <2>3 DEF AnInt
  <1>11. CASE e \notin {"len6", "len14", "len32", "len64", "int8", "int16", "int32"}
    <2>1. Plain(b, i) = NoLength
      BY <1>11 DEF Plain
    <2> QED  BY <1>2, <2>1 DEF NoLength
  <1> QED  BY <1>4, <1>5, <1>6, <1>7, <1>8, <1>9, <1>10, <1>11

(* A header from values that fit.                                          *)
LEMMA ReadOf ==
  ASSUME NEW l \in Word, NEW z \in Word, NEW v \in Int32, NEW k \in {0, 1, 2, 4},
         NEW t \in BOOLEAN
  PROVE  [len |-> l, zlen |-> z, ival |-> v, is_enc |-> k, is_lzf |-> t] \in Read
  BY DEF Read

(* The same of compressed strings, and so of every header.                 *)
LEMMA HeaderTyped ==
  ASSUME NEW b \in Seq(Byte), NEW i \in Int
  PROVE  HeaderOf(decode_buf(b, i)) \in Read
  <1> DEFINE d == decode_buf(b, i)
             p == Plain(b, i)
             z == Plain(b, i + 1)
  <1>1. 0 \in Int32 /\ Zero \in Word
    BY Zeros
  <1>2. CASE length_encoding(At(b, i)) = "lzf"
    <2> DEFINE q == Plain(b, i + 1 + z.sz)
               bad == z.sz < 0 \/ z.is_enc # 0 \/ q.is_enc # 0
    <2>1. d = Lzf(b, i)
      BY <1>2 DEF decode_buf
    <2>2. Lzf(b, i) = [sz |-> IF bad THEN -1 ELSE 1 + z.sz + q.sz,
                       len |-> IF q.sz < 0 THEN z.len ELSE q.len,
                       ival |-> 0, is_enc |-> 0, is_lzf |-> TRUE, zlen |-> z.len]
      BY Zenon DEF Lzf
    <2>3. z.sz \in Int
      BY PlainFits
    <2>4. z.len \in Word /\ q.len \in Word
      <3>1. i + 1 \in Int /\ i + 1 + z.sz \in Int
        BY <2>3
      <3> QED  BY <3>1, PlainTyped
    <2> HIDE DEF bad, z, q, d
    <2> DEFINE sz == IF bad THEN -1 ELSE 1 + z.sz + q.sz
               len == IF q.sz < 0 THEN z.len ELSE q.len
    <2>5. len \in Word
      BY <2>4
    <2>6. d = [sz |-> sz, len |-> len, ival |-> 0, is_enc |-> 0,
               is_lzf |-> TRUE, zlen |-> z.len]
      BY <2>1, <2>2
    <2> HIDE DEF sz, len
    <2>7. d.len \in Word /\ d.zlen \in Word /\ d.ival = 0 /\ d.is_enc = 0
      BY <2>4, <2>5, <2>6
    <2>8. d.is_lzf = TRUE
      BY <2>6, Zenon
    <2>9. d.is_lzf \in BOOLEAN
      BY <2>8, Zenon
    <2>10. 0 \in {0, 1, 2, 4}
      OBVIOUS
    <2> QED  BY <1>1, <2>7, <2>9, <2>10, ReadOf DEF HeaderOf, d
  <1>3. CASE length_encoding(At(b, i)) # "lzf"
    <2>1. d = AsString(p)
      BY <1>3 DEF decode_buf
    <2>2. p.len \in Word /\ p.ival \in Int32 /\ p.is_enc \in {0, 1, 2, 4}
      BY PlainTyped
    <2> HIDE DEF d, p
    <2>3. d.len \in Word /\ d.zlen = Zero /\ d.ival \in Int32 /\ d.is_enc \in {0, 1, 2, 4}
      BY <2>1, <2>2 DEF AsString
    <2>4. d.is_lzf = FALSE
      BY <2>1, Zenon DEF AsString
    <2>5. d.is_lzf \in BOOLEAN
      BY <2>4, Zenon
    <2> QED  BY <1>1, <2>3, <2>5, ReadOf DEF HeaderOf, d
  <1> QED  BY <1>2, <1>3


(* A header of a kept or a cut stream, as the reader finds it. *)
LEMMA ReadIntact ==
  ASSUME TypesInv, medium # "bad", Decode,
         NEW f, Starts(f, written), WireInv(f), ReaderInv(f)
  PROVE  ReaderInv(f)' /\ pos' \in 0 .. Len(wire)
  <1> DEFINE n == Len(written)
             r == Len(read)
             L == Len(wire)
             h == written[r + 1]
             e == Encoded(h)
             d == decode_buf(wire, pos + 1)
             len == Len(e)
  <1>1. /\ medium # "open" /\ rc = "ok" /\ pos < L
        /\ \/ d.sz < 0 /\ rc' = "hdr" /\ UNCHANGED <<pos, read>>
           \/ /\ d.sz >= 0 /\ d.sz > L - pos
              /\ rc' = "trunc" /\ UNCHANGED <<pos, read>>
           \/ /\ d.sz >= 0 /\ d.sz <= L - pos
              /\ pos' = pos + d.sz /\ read' = Append(read, HeaderOf(d)) /\ rc' = rc
        /\ UNCHANGED <<written, wire, medium>>
    BY DEF Decode, HeaderOf
  <1>2. /\ f \in Seq(Nat) /\ Len(f) = n + 1
        /\ \A k \in 1 .. n : f[k + 1] = f[k] + Len(Encoded(written[k]))
        /\ \A j, k \in 1 .. n + 1 : j < k => f[j] < f[k]
        /\ L <= f[n + 1] /\ (medium # "cut" => L = f[n + 1])
        /\ Holds(f, written, wire)
    BY DEF Starts, WireInv
  <1>3. /\ r <= n /\ pos = f[r + 1] /\ r \in Nat /\ n \in Nat /\ L \in Nat
        /\ \A k \in 1 .. r : read[k] = written[k]
    BY DEF TypesInv, ReaderInv
  <1> HIDE DEF n, r, L, d
  <1>4. r < n /\ r + 1 \in 1 .. n /\ r + 1 \in 1 .. n + 1 /\ n + 1 \in 1 .. n + 1
    <2>1. r = n => pos = f[n + 1]
      BY <1>3
    <2>2. f[n + 1] \in Nat /\ pos \in Nat
      BY <1>2, <1>3
    <2> QED  BY <1>1, <1>2, <1>3, <2>1, <2>2
  <1>5. h \in Headers
    BY <1>4 DEF TypesInv, n
  <1>6. e \in Seq(Byte) /\ len \in Nat /\ len >= 1
    BY <1>5, HeaderBytes
  <1>7. pos \in Nat /\ f[r + 2] = pos + len
    <2>1. (r + 1) + 1 = r + 2
      BY <1>3
    <2> QED  BY <1>2, <1>3, <1>4, <2>1
  <1>8. \A k \in 1 .. len : pos + k <= L => wire[pos + k] = e[k]
    <2>1. Holds(f, written, wire) /\ r + 1 \in 1 .. Len(written)
      BY <1>2, <1>4 DEF n
    <2> QED  BY <1>3, <2>1 DEF Holds, L
  <1> HIDE DEF h, e, len
  <1>9. \A k \in 1 .. len : pos + k <= L => At(wire, pos + 1 + k - 1) = e[k]
    <2> SUFFICES ASSUME NEW k \in 1 .. len, pos + k <= L
                 PROVE  At(wire, pos + 1 + k - 1) = e[k]
      OBVIOUS
    <2>1. pos + 1 + k - 1 = pos + k /\ pos + k \in 1 .. L
      BY <1>3, <1>6, <1>7
    <2>2. At(wire, pos + k) = wire[pos + k]
      BY <2>1 DEF At, L
    <2> QED  BY <1>8, <2>1, <2>2
  <1>10. CASE pos + len <= L
    <2>1. HeldAt(wire, pos + 1, e)
      <3>1. \A k \in 1 .. len : pos + k <= L
        BY <1>3, <1>6, <1>7, <1>10
      <3> QED  BY <1>9, <3>1 DEF HeldAt, len
    <2>2. pos + 1 \in Int
      BY <1>7
    <2>3. HeaderOf(d) = h /\ d.sz = len
      BY <1>5, <2>1, <2>2, HeaderReads DEF Headers, d, e, len
    <2>4. pos' = pos + len /\ read' = Append(read, h) /\ rc' = "ok"
      BY <1>1, <1>3, <1>6, <1>7, <1>10, <2>3
    <2>5. /\ Len(read') = r + 1 /\ read'[r + 1] = h
          /\ \A k \in 1 .. r : read'[k] = read[k]
      BY <2>4 DEF TypesInv, r
    <2>6. \A k \in 1 .. r + 1 : read'[k] = written[k]
      <3> SUFFICES ASSUME NEW k \in 1 .. r + 1 PROVE read'[k] = written[k]
        OBVIOUS
      <3>1. k \in 1 .. r \/ k = r + 1
        BY <1>3
      <3> QED  BY <1>3, <2>5, <3>1 DEF h
    <2>7. r + 1 <= n /\ (r + 1) + 1 = r + 2
      BY <1>3, <1>4
    <2>8. ReaderInv(f)'
      BY <1>1, <1>7, <2>4, <2>5, <2>6, <2>7 DEF ReaderInv, n
    <2> QED  BY <1>3, <1>6, <1>7, <1>10, <2>4, <2>8 DEF L
  <1>11. CASE ~ (pos + len <= L)
    <2> DEFINE m == L - pos
    <2>1. m \in Nat /\ 1 <= m /\ m < len
      BY <1>1, <1>3, <1>6, <1>7, <1>11
    <2>2. \A k \in 1 .. m : At(wire, pos + 1 + k - 1) = e[k]
      <3>1. \A k \in 1 .. m : k \in 1 .. len /\ pos + k <= L
        BY <1>3, <1>6, <1>7, <2>1
      <3> QED  BY <1>9, <3>1
    <2>3. \A j \in Int : j >= (pos + 1) + m => At(wire, j) = 0
      <3> SUFFICES ASSUME NEW j \in Int, j >= (pos + 1) + m PROVE At(wire, j) = 0
        OBVIOUS
      <3>1. j \notin 1 .. L
        BY <1>3, <1>7
      <3> QED  BY <3>1 DEF At, L
    <2> DEFINE i == pos + 1
    <2>4. i \in Int
      BY <1>7
    <2>5. d.sz \in Int /\ d.sz > m
      <3>1. d = decode_buf(wire, i) /\ m < Len(Encoded(h))
        BY <2>1 DEF d, e, len
      <3>2. \A k \in 1 .. m : At(wire, i + k - 1) = Encoded(h)[k]
        BY <2>2 DEF e
      <3>3. \A j \in Int : j >= i + m => At(wire, j) = 0
        BY <2>3
      <3>4. h \in Lengths \cup Immediates \cup Compressed
        BY <1>5 DEF Headers
      <3> HIDE DEF i, m
      <3> QED  BY <2>1, <2>4, <3>1, <3>2, <3>3, <3>4, HeaderCut
    <2>6. rc' = "trunc" /\ UNCHANGED <<pos, read>>
      BY <1>1, <1>3, <1>7, <2>1, <2>5
    <2>7. medium = "cut"
      <3>1. r + 2 \in 1 .. n + 1 /\ (r + 2 = n + 1 \/ r + 2 < n + 1)
        BY <1>3, <1>4
      <3>2. f[r + 2] \in Nat /\ f[n + 1] \in Nat /\ f[r + 2] <= f[n + 1]
        BY <1>2, <1>4, <3>1
      <3> QED  BY <1>2, <1>3, <1>6, <1>7, <1>11, <3>2
    <2>8. ReaderInv(f)'
      BY <1>1, <1>3, <2>6, <2>7 DEF ReaderInv, n, r
    <2> QED  BY <1>3, <1>7, <2>1, <2>6, <2>8 DEF L
  <1> QED  BY <1>10, <1>11

(* decode() reads the next header.                                         *)
LEMMA DecodeStream ==
  ASSUME StreamInv, Decode
  PROVE  StreamInv'
  <1> DEFINE d == decode_buf(wire, pos + 1)
  <1>1. /\ TypesInv /\ medium # "open" /\ UNCHANGED <<written, wire, medium>>
        /\ \/ UNCHANGED <<pos, read>>
           \/ /\ d.sz >= 0 /\ d.sz <= Len(wire) - pos
              /\ pos' = pos + d.sz /\ read' = Append(read, HeaderOf(d))
    BY DEF StreamInv, Decode, HeaderOf
  <1>2. PICK f : Starts(f, written) /\ WireInv(f) /\ ReaderInv(f)
    BY DEF StreamInv
  <1>3. pos \in Nat /\ Len(wire) \in Nat /\ wire \in Seq(Byte) /\ pos \in 0 .. Len(wire)
    BY <1>1 DEF TypesInv
  <1>4. HeaderOf(d) \in Read /\ d.sz \in Int
    <2>1. pos + 1 \in Int /\ wire \in Seq(Byte)
      BY <1>3
    <2>2. HeaderOf(d) \in Read
      BY <2>1, HeaderTyped, Zenon
    <2>3. d.sz \in {-1} \cup 1 .. MAX_RDB_HDRLEN
      BY HeaderFits, Zenon
    <2> HIDE DEF d
    <2> QED  BY <2>2, <2>3 DEF MAX_RDB_HDRLEN
  <1> HIDE DEF d
  <1>5. pos' \in 0 .. Len(wire) /\ read' \in Seq(Read)
    <2>1. read \in Seq(Read)
      BY <1>1 DEF TypesInv
    <2>2. pos' \in 0 .. Len(wire)
      BY <1>1, <1>3, <1>4
    <2> QED  BY <1>1, <1>4, <2>1, <2>2
  <1>6. TypesInv'
    BY <1>1, <1>5 DEF TypesInv
  <1>7. Starts(f, written') /\ WireInv(f)'
    BY <1>1, <1>2 DEF WireInv
  <1>8. ReaderInv(f)'
    <2>1. CASE medium = "bad"
      BY <1>1, <2>1 DEF ReaderInv
    <2>2. CASE medium # "bad"
      BY <1>1, <1>2, <2>2, ReadIntact
    <2> QED  BY <2>1, <2>2
  <1> QED  BY <1>6, <1>7, <1>8 DEF StreamInv


(* The stream is kept, cut or damaged before it is read. *)
LEMMA CloseStream ==
  ASSUME StreamInv, NEW m \in {"whole", "cut", "bad"}, Close(m),
         wire' \in Seq(Byte), Len(wire') <= Len(wire),
         m # "cut" => Len(wire') = Len(wire),
         m # "bad" => \A k \in 1 .. Len(wire') : wire'[k] = wire[k]
  PROVE  StreamInv'
  <1>1. /\ TypesInv /\ medium = "open" /\ medium' = m
        /\ UNCHANGED <<written, pos, read, rc>>
    BY DEF StreamInv, Close
  <1>2. PICK f : Starts(f, written) /\ WireInv(f) /\ ReaderInv(f)
    BY DEF StreamInv
  <1>3. pos = 0 /\ read = <<>> /\ rc = "ok" /\ Len(wire) \in Nat /\ Len(wire') \in Nat
        /\ Len(written) \in Nat
    BY <1>1 DEF TypesInv
  <1>4. TypesInv'
    BY <1>1, <1>3 DEF TypesInv
  <1>5. /\ f[1] = 0 /\ f[Len(written) + 1] \in Nat
        /\ Len(wire) = f[Len(written) + 1] /\ Holds(f, written, wire)
        /\ \A k \in 1 .. Len(written) : f[k] \in Nat
    BY <1>1, <1>2, <1>3 DEF Starts, WireInv
  <1>6. m # "bad" => Holds(f, written, wire')
    <2> SUFFICES ASSUME m # "bad", NEW k \in 1 .. Len(written),
                        NEW j \in 1 .. Len(Encoded(written[k])), f[k] + j <= Len(wire')
                 PROVE  wire'[f[k] + j] = Encoded(written[k])[j]
      BY DEF Holds
    <2>1. written[k] \in Headers
      BY <1>1 DEF TypesInv
    <2>2. Len(Encoded(written[k])) \in Nat
      BY <2>1, HeaderBytes
    <2>3. f[k] + j \in 1 .. Len(wire') /\ f[k] + j <= Len(wire)
      BY <1>3, <1>5, <2>2
    <2>4. wire[f[k] + j] = Encoded(written[k])[j]
      BY <1>5, <2>3 DEF Holds
    <2> QED  BY <2>3, <2>4
  <1>7. WireInv(f)'
    BY <1>1, <1>3, <1>5, <1>6 DEF WireInv
  <1>8. ReaderInv(f)'
    <2>1. Len(read') = 0 /\ pos' = 0 /\ rc' = "ok" /\ 0 + 1 = 1
      BY <1>1, <1>3
    <2> QED  BY <1>1, <1>3, <1>5, <2>1 DEF ReaderInv
  <1>9. Starts(f, written')
    BY <1>1, <1>2
  <1> QED  BY <1>4, <1>7, <1>8, <1>9 DEF StreamInv

(* Every step.                                                             *)
LEMMA StepStream == StreamInv /\ [Next]_vars => StreamInv'
  <1> SUFFICES ASSUME StreamInv, [Next]_vars PROVE StreamInv'
    OBVIOUS
  <1>0. wire \in Seq(Byte)
    BY DEF StreamInv, TypesInv
  <1>1. ASSUME NEW w \in Words, WriteLen(w) PROVE StreamInv'
    <2> DEFINE h == Header(w, Zero, 0, 0)
    <2>1. w \in Word
      BY LengthAssumption
    <2>2. h \in Headers
      BY <2>1 DEF Headers, Lengths
    <2>3. h.is_enc = 0 /\ h.len = w /\ ~ h.is_lzf
      BY HeaderFields
    <2>4. len_encode(w) = Encoded(h)
      <3> HIDE DEF h
      <3> QED  BY <2>3, Zenon DEF Encoded
    <2>5. Write(h, len_encode(w), len_size(str_code(w)))
      BY <1>1 DEF WriteLen
    <2> HIDE DEF h
    <2> QED  BY <2>2, <2>4, <2>5, WriteStream
  <1>2. ASSUME NEW x \in Ints, WriteInt(x) PROVE StreamInv'
    <2> DEFINE e == int_code(x)
               k == CASE e = "int8" -> 1 [] e = "int16" -> 2 [] e = "int32" -> 4
               h == Header(Zero, Zero, x, k)
    <2>1. x \in Int32
      BY LengthAssumption
    <2>2. k \in {1, 2, 4} /\ len_size(int_code(x)) = 1 + k /\ k # 0
      <3>1. int_code(x) \in {"int8", "int16", "int32"}
        BY <2>1 DEF int_code
      <3> QED  BY <3>1 DEF len_size
    <2>3. Write(h, int_encode(x), len_size(e))
      BY <1>2 DEF WriteInt
    <2> HIDE DEF k
    <2>4. h.is_enc = k /\ h.ival = x /\ ~ h.is_lzf
      BY HeaderFields
    <2>5. h \in Headers
      <3>1. h \in {Header(Zero, Zero, y, j) : y \in Int32, j \in {1, 2, 4}}
        BY <2>1, <2>2
      <3> HIDE DEF h
      <3> QED  BY <2>2, <2>4, <3>1 DEF Headers, Immediates
    <2> HIDE DEF h
    <2>6. int_encode(x) = Encoded(h)
      BY <2>2, <2>4, Zenon DEF Encoded
    <2> QED  BY <2>3, <2>5, <2>6, WriteStream
  <1>3. ASSUME NEW z \in Words, NEW w \in Words, WriteLzf(z, w) PROVE StreamInv'
    <2> DEFINE h == Header(w, z, 0, 0)
    <2>1. z \in Word /\ w \in Word /\ z # Zero
          /\ Write(h, lzf_header(z, w), Len(lzf_header(z, w)))
      BY <1>3, LengthAssumption DEF WriteLzf
    <2>2. h \in Headers
      BY <2>1 DEF Headers, Compressed
    <2>3. h.len = w /\ h.zlen = z /\ h.is_lzf
      BY <2>1, HeaderFields
    <2>4. lzf_header(z, w) = Encoded(h)
      <3> HIDE DEF h
      <3> QED  BY <2>3, Zenon DEF Encoded
    <2> HIDE DEF h
    <2> QED  BY <2>1, <2>2, <2>4, WriteStream
  <1>4. CASE Keep
    <2>1. Close("whole") /\ wire' = wire
      BY <1>4 DEF Keep
    <2> QED  BY <1>0, <2>1, CloseStream
  <1>5. ASSUME NEW n \in 0 .. Len(wire), Cut(n) PROVE StreamInv'
    <2>1. Close("cut") /\ wire' = SubSeq(wire, 1, n)
      BY <1>5 DEF Cut
    <2>2. /\ wire' \in Seq(Byte) /\ Len(wire') = n /\ n <= Len(wire)
          /\ \A k \in 1 .. n : wire'[k] = wire[k]
      BY <1>0, <2>1
    <2> QED  BY <2>1, <2>2, CloseStream
  <1>6. ASSUME NEW n \in 1 .. Len(wire), Damage(n) PROVE StreamInv'
    <2>1. Close("bad") /\ wire' = [wire EXCEPT ![n] = 130]
      BY <1>6 DEF Damage
    <2>2. wire' \in Seq(Byte) /\ Len(wire') = Len(wire)
      BY <1>0, <2>1 DEF Byte
    <2> QED  BY <1>0, <2>1, <2>2, CloseStream
  <1>7. CASE Decode
    BY <1>7, DecodeStream
  <1>8. CASE UNCHANGED vars
    <2>1. UNCHANGED <<written, wire, medium, pos, read, rc>>
      BY <1>8 DEF vars
    <2> QED  BY <2>1 DEF StreamInv, TypesInv, WireInv, ReaderInv
  <1> QED  BY <1>1, <1>2, <1>3, <1>4, <1>5, <1>6, <1>7, <1>8 DEF Next

-----------------------------------------------------------------------------
(* The invariant above holds for every set of lengths and integers that    *)
(* are written, and for streams of any length.                             *)
THEOREM StreamAlways == Spec => []StreamInv
  <1> QED  BY InitStream, StepStream, PTL DEF Spec

(* What decode() makes of a stream that was kept, or cut anywhere, are the *)
(* headers that RdbLenEncode wrote, in their order and with their values.  *)
THEOREM HeadersReadBack == Spec => []ReadsBack
  <1>1. ASSUME StreamInv PROVE ReadsBack
    <2> SUFFICES ASSUME medium # "bad"
                 PROVE  Len(read) <= Len(written) /\ read = SubSeq(written, 1, Len(read))
      BY DEF ReadsBack
    <2>1. /\ Len(read) <= Len(written) /\ read \in Seq(Read) /\ written \in Seq(Headers)
          /\ \A k \in 1 .. Len(read) : read[k] = written[k]
      BY <1>1 DEF StreamInv, TypesInv, ReaderInv
    <2> DEFINE s == SubSeq(written, 1, Len(read))
    <2>2. /\ s \in Seq(Headers) /\ Len(s) = Len(read)
          /\ \A k \in 1 .. Len(read) : s[k] = written[k]
      BY <2>1
    <2> HIDE DEF s
    <2>3. read = s
      BY <2>1, <2>2, SeqEqual
    <2> QED  BY <2>1, <2>3 DEF s
  <1> QED  BY <1>1, StreamAlways, PTL

(* Who reads an undamaged stream to its end has read all of it: no header  *)
(* is stepped over.                                                        *)
THEOREM EveryHeaderRead == Spec => []AllRead
  <1>1. ASSUME StreamInv PROVE AllRead
    <2> SUFFICES ASSUME medium = "whole", pos = Len(wire) PROVE read = written
      BY DEF AllRead
    <2> DEFINE n == Len(written)
               r == Len(read)
    <2>1. PICK f : Starts(f, written) /\ WireInv(f) /\ ReaderInv(f)
      BY <1>1 DEF StreamInv
    <2>2. /\ r <= n /\ pos = f[r + 1] /\ Len(wire) = f[n + 1]
          /\ \A k \in 1 .. r : read[k] = written[k]
          /\ read \in Seq(Read) /\ written \in Seq(Headers) /\ r \in Nat /\ n \in Nat
      BY <1>1, <2>1 DEF StreamInv, TypesInv, WireInv, ReaderInv
    <2>3. /\ f \in Seq(Nat) /\ Len(f) = n + 1
          /\ \A j, k \in 1 .. n + 1 : j < k => f[j] < f[k]
      BY <2>1 DEF Starts
    <2> HIDE DEF n, r
    <2>4. r = n
      <3>1. r + 1 \in 1 .. n + 1 /\ n + 1 \in 1 .. n + 1
        BY <2>2
      <3>2. f[r + 1] = f[n + 1]
        BY <2>2
      <3>3. f[n + 1] \in Nat
        <4>1. f \in Seq(Nat) /\ n + 1 \in 1 .. Len(f)
          BY <2>3, <3>1
        <4> HIDE DEF n
        <4> QED  BY <4>1
      <3>4. ~ (r + 1 < n + 1)
        BY <2>3, <3>1, <3>2, <3>3
      <3> QED  BY <2>2, <3>4
    <2> QED  BY <2>2, <2>4, SeqEqual DEF n, r
  <1> QED  BY <1>1, StreamAlways, PTL

(* A cut is "out of bounds" for RdbLength::decode(), never a bad header,   *)
(* and what was kept is read without an error.                             *)
THEOREM CutsAreShort == Spec => []CutIsShort
  <1>1. StreamInv => CutIsShort
    BY DEF StreamInv, ReaderInv, CutIsShort
  <1> QED  BY <1>1, StreamAlways, PTL

(* What is decoded fits the fields of RdbLength, even if it was damaged.   *)
THEOREM LengthTypes == Spec => []TypeOK
  <1>1. ASSUME StreamInv, RoomInv PROVE TypeOK
    <2>1. /\ read \in Seq(Read) /\ wire \in Seq(Byte) /\ pos \in 0 .. Len(wire)
          /\ room \in Nat
      BY <1>1 DEF StreamInv, TypesInv, RoomInv
    <2>2. \A k \in 1 .. Len(read) : read[k] \in Read
      BY <2>1
    <2>3. \A k \in 1 .. Len(read) : /\ read[k].len \in Word /\ read[k].zlen \in Word
                                    /\ read[k].ival \in Int32
                                    /\ read[k].is_enc \in {0, 1, 2, 4}
      BY <2>2 DEF Read
    <2> QED  BY <2>1, <2>3 DEF TypeOK
  <1>2. Init => RoomInv
    BY DEF Init, RoomInv, RoomAgrees
  <1> QED  BY <1>1, <1>2, RoomStep, StreamAlways, PTL DEF Spec
=============================================================================
